------------------------ MODULE ApprovalSessionsProofs ------------------------
(***************************************************************************)
(* TLAPS proofs about ApprovalSessions, for every number of requests,      *)
(* instances and nodes.  Without overlap its steps are those of Approval,  *)
(* and an approved instance has its whole chain signed; with any overlap a *)
(* decision is final for the requests that come after it.                  *)
(***************************************************************************)
EXTENDS ApprovalSessions, SequenceTheorems, TLAPS

InstanceRow == [status : {"pending", "approved", "rejected"}, node : Nat]

TaskRow == [node : Nat, action : SentActions \cup {"none"}]

Request ==
    [step : {"load_task", "load_instance", "flush_task", "flush_instance", "commit"},
     i : Instances, k : Nat, action : SentActions, node : Nat,
     outcome : {"none", "rejected", "advanced", "approved"}, late : BOOLEAN]

Types ==
    /\ instance \in [Instances -> InstanceRow]
    /\ task \in [Instances -> Seq(TaskRow)]
    /\ sess \in [Sessions -> Request \cup {Idle}]
    /\ settled \in [Instances -> Seq({"approved", "rejected"})]
    /\ DOMAIN published = Instances

-----------------------------------------------------------------------------
(* Lemmas about the data *)

LEMMA BusyRequest ==
    ASSUME Types, NEW s \in Sessions, Busy(s)
    PROVE  sess[s] \in Request
  BY DEF Types, Busy, Idle

\* The idle session is no request.
LEMMA RequestIsBusy == \A r \in Request : r.step # "idle"
  BY DEF Request

\* What one step of a request leaves of the sessions.
LEMMA GotoTypes ==
    ASSUME Types, NEW s \in Sessions, sess[s] \in Request,
           NEW step \in {"load_instance", "flush_task", "flush_instance", "commit"},
           Goto(s, step)
    PROVE  /\ sess' \in [Sessions -> Request \cup {Idle}]
           /\ sess'[s] = [sess[s] EXCEPT !.step = step]
           /\ sess'[s] \in Request
           /\ \A t \in Sessions \ {s} : sess'[t] = sess[t]
  <1>1. [sess[s] EXCEPT !.step = step] \in Request
    BY DEF Request
  <1> QED
    BY <1>1 DEF Goto, Types

\* The tasks of an instance after one of them is settled.
Settle(q, k, action) == [q EXCEPT ![k].action = action]

LEMMA SettledTask ==
    ASSUME NEW q \in Seq(TaskRow), NEW k \in 1..Len(q), NEW action \in SentActions
    PROVE  /\ Settle(q, k, action) \in Seq(TaskRow)
           /\ Len(Settle(q, k, action)) = Len(q)
           /\ \A j \in 1..Len(q) :
                 /\ Settle(q, k, action)[j].node = q[j].node
                 /\ Settle(q, k, action)[j].action = IF j = k THEN action ELSE q[j].action
           /\ Settle(q, k, action) = [q EXCEPT ![k] = [node |-> q[k].node, action |-> action]]
  <1>1. q[k] \in TaskRow
    BY ElementOfSeq
  <1> DEFINE e == [node |-> q[k].node, action |-> action]
  <1>2. e \in TaskRow /\ e.node = q[k].node /\ e.action = action
    BY <1>1 DEF TaskRow
  <1>3. [q[k] EXCEPT !.action = action] = e
    BY <1>1 DEF TaskRow
  <1>4. Settle(q, k, action) = [q EXCEPT ![k] = e]
    BY <1>3 DEF Settle
  <1> HIDE DEF e
  <1>5. /\ [q EXCEPT ![k] = e] \in Seq(TaskRow)
        /\ Len([q EXCEPT ![k] = e]) = Len(q)
        /\ \A j \in 1..Len(q) : [q EXCEPT ![k] = e][j] = IF j = k THEN e ELSE q[j]
    BY <1>2, ExceptSeq
  <1>6. ASSUME NEW j \in 1..Len(q)
        PROVE  /\ [q EXCEPT ![k] = e][j].node = q[j].node
               /\ [q EXCEPT ![k] = e][j].action = IF j = k THEN action ELSE q[j].action
    BY <1>2, <1>5
  <1>7. [q EXCEPT ![k] = e] = [q EXCEPT ![k] = [node |-> q[k].node, action |-> action]]
    BY DEF e
  <1> QED
    BY <1>4, <1>5, <1>6, <1>7

LEMMA NodesPositive == Nodes \in Nat /\ Nodes > 0
  BY ChainAssumption, EmptySeq DEF Nodes

-----------------------------------------------------------------------------
(* With any overlap *)

\* A request acts on a task there is, commits what it decided on the node it
\* loaded, and does not get past the instance when it came after the decision.
Sound(s) ==
    /\ sess[s].k \in 1..Len(task[sess[s].i])
    /\ At(s, "commit") => sess[s].outcome = Outcome(s)
    /\ sess[s].late => /\ instance[sess[s].i].status # "pending"
                       /\ sess[s].step \in {"load_task", "load_instance"}

OverlapInv == Types /\ \A s \in Sessions : Busy(s) => Sound(s)

\* Tasks are only added, and a decision is not taken back.
Grows ==
    \A i \in Instances :
        /\ Len(task'[i]) >= Len(task[i])
        /\ instance[i].status # "pending" => instance'[i].status # "pending"

\* What a step of one session leaves true of the others.
LEMMA OthersSound ==
    ASSUME OverlapInv, Grows, NEW s \in Sessions, Types', NEW t \in Sessions \ {s},
           sess'[t] = sess[t], Busy(t)'
    PROVE  Sound(t)'
  <1>1. Busy(t) /\ Sound(t)
    BY DEF OverlapInv, Busy
  <1>2. sess[t] \in Request
    BY <1>1, BusyRequest DEF OverlapInv
  <1> DEFINE r == sess[t]
  <1>3. r.i \in Instances /\ r.k \in Nat
    BY <1>2 DEF Request
  <1>4. task[r.i] \in Seq(TaskRow) /\ task'[r.i] \in Seq(TaskRow)
    BY <1>3 DEF OverlapInv, Types
  <1>5. Len(task[r.i]) \in Nat /\ Len(task'[r.i]) \in Nat
    BY <1>4
  <1>6. r.k \in 1..Len(task'[r.i])
    BY <1>1, <1>3, <1>5 DEF Sound, Grows
  <1>7. r.late => instance'[r.i].status # "pending"
    BY <1>1, <1>3 DEF Sound, Grows
  <1> QED
    BY <1>1, <1>6, <1>7 DEF Sound, At, Outcome

LEMMA InitOverlap == Init => OverlapInv
  <1> SUFFICES ASSUME Init PROVE OverlapInv
    OBVIOUS
  <1>1. [node |-> 0, action |-> "none"] \in TaskRow
    BY DEF TaskRow
  <1>2. <<[node |-> 0, action |-> "none"]>> \in Seq(TaskRow)
    BY <1>1
  <1>3. Types
    <2>1. instance \in [Instances -> InstanceRow]
      BY DEF Init, InstanceRow
    <2>2. task \in [Instances -> Seq(TaskRow)]
      BY <1>2 DEF Init
    <2>3. sess \in [Sessions -> Request \cup {Idle}]
      BY DEF Init
    <2>4. settled \in [Instances -> Seq({"approved", "rejected"})]
      BY EmptySeq DEF Init
    <2> QED
      BY <2>1, <2>2, <2>3, <2>4 DEF Types, Init
  <1>4. \A s \in Sessions : ~Busy(s)
    BY DEF Init, Busy, Idle
  <1> QED
    BY <1>3, <1>4 DEF OverlapInv

\* The steps that touch no table.
LEMMA SendOverlap ==
    ASSUME OverlapInv, NEW s \in Sessions, NEW i \in Instances, NEW action \in SentActions,
           NEW k \in 1..Len(task[i]), Send(s, i, k, action)
    PROVE  OverlapInv'
  <1> DEFINE r == [step |-> "load_task", i |-> i, k |-> k, action |-> action, node |-> 0,
                   outcome |-> "none", late |-> instance[i].status # "pending"]
  <1>1. task[i] \in Seq(TaskRow) /\ Len(task[i]) \in Nat
    BY DEF OverlapInv, Types
  <1>2. r \in Request
    <2>1. (instance[i].status # "pending") \in BOOLEAN
      OBVIOUS
    <2>2. k \in Nat
      BY <1>1
    <2> QED
      BY <2>1, <2>2 DEF Request
  <1>3. /\ UNCHANGED <<instance, task, settled>>
        /\ sess' = [sess EXCEPT ![s] = r]
    BY DEF Send
  <1>4. /\ r.step = "load_task" /\ r.i = i /\ r.k = k
        /\ r.late <=> instance[i].status # "pending"
    OBVIOUS
  <1> HIDE DEF r
  <1>5. sess' \in [Sessions -> Request \cup {Idle}] /\ sess'[s] = r
    BY <1>2, <1>3 DEF OverlapInv, Types
  <1>6. Types'
    BY <1>3, <1>5 DEF OverlapInv, Types, Send
  <1>7. Grows
    <2> SUFFICES ASSUME NEW j \in Instances PROVE Len(task'[j]) >= Len(task[j])
      BY <1>3 DEF Grows
    <2>1. task[j] \in Seq(TaskRow)
      BY DEF OverlapInv, Types
    <2> QED
      BY <1>3, <2>1
  <1>8. Sound(s)'
    BY <1>3, <1>4, <1>5 DEF Sound, At
  <1>9. \A t \in Sessions \ {s} : sess'[t] = sess[t]
    BY <1>3 DEF OverlapInv, Types
  <1> QED
    BY <1>6, <1>7, <1>8, <1>9, OthersSound DEF OverlapInv

LEMMA StepOverlap ==
    ASSUME OverlapInv, NEW s \in Sessions, Step(s)
    PROVE  OverlapInv' /\ Grows
  <1>1. Types
    BY DEF OverlapInv
  <1>2. Busy(s)
    BY DEF Step, Refuse, LoadTask, LoadInstance, FlushTask, FlushInstance, Commit, CommitFails,
           At, Busy
  <1>3. sess[s] \in Request /\ Sound(s)
    BY <1>1, <1>2, BusyRequest DEF OverlapInv
  <1> DEFINE i == sess[s].i
             k == sess[s].k
             q == task[i]
  <1>4. i \in Instances /\ k \in 1..Len(q) /\ q \in Seq(TaskRow) /\ sess[s].action \in SentActions
        /\ sess[s].node \in Nat
    BY <1>1, <1>3 DEF Request, Sound, Types
  <1>5. \A j \in Instances : task[j] \in Seq(TaskRow) /\ Len(task[j]) \in Nat
    BY <1>1 DEF Types
  \* A step that leaves the tables and keeps or ends the request.
  <1>6. ASSUME UNCHANGED <<instance, task, settled>>,
               DOMAIN published' = Instances,
               sess' \in [Sessions -> Request \cup {Idle}],
               \A t \in Sessions \ {s} : sess'[t] = sess[t],
               sess'[s].step # "idle" => Sound(s)'
        PROVE  OverlapInv' /\ Grows
    <2>1. Types'
      BY <1>1, <1>6 DEF Types
    <2>2. Grows
      BY <1>5, <1>6 DEF Grows
    <2>3. Busy(s)' => Sound(s)'
      BY <1>6 DEF Busy
    <2> QED
      BY <1>6, <2>1, <2>2, <2>3, OthersSound DEF OverlapInv
  <1>7. ASSUME sess' = [sess EXCEPT ![s] = Idle]
        PROVE  /\ sess' \in [Sessions -> Request \cup {Idle}]
               /\ \A t \in Sessions \ {s} : sess'[t] = sess[t]
               /\ sess'[s].step = "idle"
    BY <1>1, <1>7 DEF Types, Idle
  <1>8. CASE Refuse(s)
    BY <1>1, <1>6, <1>7, <1>8 DEF Refuse, Types
  <1>9. CASE CommitFails(s)
    BY <1>1, <1>6, <1>7, <1>9 DEF CommitFails, Types
  <1>10. CASE LoadTask(s)
    <2>1. /\ sess' \in [Sessions -> Request \cup {Idle}]
          /\ sess'[s] = [sess[s] EXCEPT !.step = "load_instance"]
          /\ \A t \in Sessions \ {s} : sess'[t] = sess[t]
      BY <1>1, <1>3, <1>10, GotoTypes DEF LoadTask
    <2>2. Sound(s)'
      BY <1>3, <1>10, <2>1 DEF LoadTask, Sound, At, Request
    <2> QED
      BY <1>1, <1>6, <1>10, <2>1, <2>2 DEF LoadTask, Types
  <1>11. CASE FlushTask(s)
    <2>1. /\ sess' \in [Sessions -> Request \cup {Idle}]
          /\ sess'[s] = [sess[s] EXCEPT !.step = "flush_instance"]
          /\ \A t \in Sessions \ {s} : sess'[t] = sess[t]
      BY <1>1, <1>3, <1>11, GotoTypes DEF FlushTask
    <2>2. Sound(s)'
      BY <1>3, <1>11, <2>1 DEF FlushTask, Sound, At, Request
    <2> QED
      BY <1>1, <1>6, <1>11, <2>1, <2>2 DEF FlushTask, Types
  <1>12. CASE LoadInstance(s)
    <2> DEFINE r == [sess[s] EXCEPT !.step = "flush_task", !.node = instance[i].node]
    <2>0. instance[i].node \in Nat
      BY <1>1, <1>4 DEF Types, InstanceRow
    <2>1. r \in Request
      BY <1>3, <2>0 DEF Request
    <2>2. sess' = [sess EXCEPT ![s] = r]
      BY <1>12 DEF LoadInstance
    <2>3. r.step = "flush_task" /\ r.i = i /\ r.k = k /\ r.late = sess[s].late
      BY <1>3 DEF Request
    <2> HIDE DEF r
    <2>4. /\ sess' \in [Sessions -> Request \cup {Idle}]
          /\ sess'[s] = r
          /\ \A t \in Sessions \ {s} : sess'[t] = sess[t]
      BY <1>1, <2>1, <2>2 DEF Types
    <2>5. ~sess[s].late
      BY <1>3, <1>12 DEF LoadInstance, Sound
    <2>6. Sound(s)'
      BY <1>3, <1>12, <2>3, <2>4, <2>5 DEF LoadInstance, Sound, At
    <2> QED
      BY <1>1, <1>6, <1>12, <2>4, <2>6 DEF LoadInstance, Types
  <1>13. CASE FlushInstance(s)
    <2> DEFINE r == [sess[s] EXCEPT !.step = "commit", !.outcome = Outcome(s)]
    <2>0. Outcome(s) \in {"rejected", "advanced", "approved"}
      BY DEF Outcome
    <2>1. r \in Request
      BY <1>3, <2>0 DEF Request
    <2>2. sess' = [sess EXCEPT ![s] = r]
      BY <1>13 DEF FlushInstance
    <2>3. /\ r.step = "commit" /\ r.i = i /\ r.k = k /\ r.late = sess[s].late
          /\ r.action = sess[s].action /\ r.node = sess[s].node /\ r.outcome = Outcome(s)
      BY <1>3 DEF Request
    <2> HIDE DEF r
    <2>4. /\ sess' \in [Sessions -> Request \cup {Idle}]
          /\ sess'[s] = r
          /\ \A t \in Sessions \ {s} : sess'[t] = sess[t]
      BY <1>1, <2>1, <2>2 DEF Types
    <2>5. ~sess[s].late
      BY <1>3, <1>13 DEF FlushInstance, Sound, At
    <2>6. Outcome(s)' = Outcome(s)
      BY <2>3, <2>4 DEF Outcome
    <2>7. Sound(s)'
      BY <1>3, <1>13, <2>3, <2>4, <2>5, <2>6 DEF FlushInstance, Sound, At
    <2> QED
      BY <1>1, <1>6, <1>13, <2>4, <2>7 DEF FlushInstance, Types
  <1>14. CASE Commit(s)
    <2> DEFINE done == Settle(q, k, sess[s].action)
               next == sess[s].node + 1
               outcome == sess[s].outcome
    <2>1. done \in Seq(TaskRow) /\ Len(done) = Len(q)
      BY <1>4, SettledTask
    <2>2. [node |-> next, action |-> "none"] \in TaskRow
      BY <1>4 DEF TaskRow
    <2>3. /\ Append(done, [node |-> next, action |-> "none"]) \in Seq(TaskRow)
          /\ Len(Append(done, [node |-> next, action |-> "none"])) = Len(q) + 1
      BY <2>1, <2>2, AppendProperties
    <2>4. outcome = Outcome(s) /\ outcome \in {"rejected", "advanced", "approved"}
      BY <1>3, <1>14 DEF Commit, Sound, Outcome
    <2>5. /\ sess' = [sess EXCEPT ![s] = Idle]
          /\ outcome = "advanced" =>
                /\ instance' = [instance EXCEPT ![i].node = next]
                /\ task' = [task EXCEPT ![i] = Append(done, [node |-> next, action |-> "none"])]
                /\ settled' = settled
          /\ outcome # "advanced" =>
                /\ instance' = [instance EXCEPT ![i].status = outcome]
                /\ task' = [task EXCEPT ![i] = done]
                /\ settled' = [settled EXCEPT ![i] = Append(@, outcome)]
      BY <1>14 DEF Commit, Settle
    <2>6. instance[i] \in InstanceRow /\ settled[i] \in Seq({"approved", "rejected"})
      BY <1>1, <1>4 DEF Types
    <2> HIDE DEF done
    <2>7. CASE outcome = "advanced"
      <3>1. /\ [instance[i] EXCEPT !.node = next] \in InstanceRow
            /\ [instance[i] EXCEPT !.node = next].status = instance[i].status
        BY <1>4, <2>6 DEF InstanceRow
      <3>2. instance' = [instance EXCEPT ![i] = [instance[i] EXCEPT !.node = next]]
        BY <2>5, <2>7
      <3>3. Types'
        <4>1. task' \in [Instances -> Seq(TaskRow)]
          BY <1>1, <2>3, <2>5, <2>7 DEF Types
        <4>2. instance' \in [Instances -> InstanceRow]
          BY <1>1, <3>1, <3>2 DEF Types
        <4>3. settled' = settled /\ published' = published
          BY <1>14, <2>5, <2>7 DEF Commit
        <4> QED
          BY <1>1, <1>7, <2>5, <4>1, <4>2, <4>3 DEF Types
      <3>4. Grows
        <4> SUFFICES ASSUME NEW j \in Instances
                     PROVE  /\ Len(task'[j]) >= Len(task[j])
                            /\ instance'[j].status = instance[j].status
          BY DEF Grows
        <4>1. CASE j = i
          BY <1>1, <1>4, <1>5, <2>3, <2>5, <2>7, <3>1, <3>2, <4>1 DEF Types
        <4>2. CASE j # i
          BY <1>1, <1>4, <1>5, <2>5, <2>7, <3>2, <4>2 DEF Types
        <4> QED
          BY <4>1, <4>2
      <3>5. \A t \in Sessions \ {s} : Busy(t)' => Sound(t)'
        BY <1>7, <2>5, <3>3, <3>4, OthersSound
      <3>6. ~Busy(s)'
        BY <1>7, <2>5 DEF Busy
      <3> QED
        BY <3>3, <3>4, <3>5, <3>6 DEF OverlapInv
    <2>8. CASE outcome # "advanced"
      <3>1. /\ [instance[i] EXCEPT !.status = outcome] \in InstanceRow
            /\ [instance[i] EXCEPT !.status = outcome].status # "pending"
        BY <2>4, <2>6, <2>8 DEF InstanceRow
      <3>2. instance' = [instance EXCEPT ![i] = [instance[i] EXCEPT !.status = outcome]]
        BY <2>5, <2>8
      <3>3. Append(settled[i], outcome) \in Seq({"approved", "rejected"})
        BY <2>4, <2>6, <2>8, AppendProperties
      <3>4. Types'
        <4>1. task' \in [Instances -> Seq(TaskRow)]
          BY <1>1, <2>1, <2>5, <2>8 DEF Types
        <4>2. settled' \in [Instances -> Seq({"approved", "rejected"})]
          BY <1>1, <2>5, <2>8, <3>3 DEF Types
        <4>3. instance' \in [Instances -> InstanceRow]
          BY <1>1, <3>1, <3>2 DEF Types
        <4>4. published' = published
          BY <1>14 DEF Commit
        <4> QED
          BY <1>1, <1>7, <2>5, <4>1, <4>2, <4>3, <4>4 DEF Types
      <3>5. Grows
        <4> SUFFICES ASSUME NEW j \in Instances
                     PROVE  /\ Len(task'[j]) >= Len(task[j])
                            /\ instance[j].status # "pending" => instance'[j].status # "pending"
          BY DEF Grows
        <4>1. CASE j = i
          BY <1>1, <1>4, <1>5, <2>1, <2>5, <2>8, <3>1, <3>2, <4>1 DEF Types
        <4>2. CASE j # i
          BY <1>1, <1>4, <1>5, <2>5, <2>8, <3>2, <4>2 DEF Types
        <4> QED
          BY <4>1, <4>2
      <3>6. \A t \in Sessions \ {s} : Busy(t)' => Sound(t)'
        BY <1>7, <2>5, <3>4, <3>5, OthersSound
      <3>7. ~Busy(s)'
        BY <1>7, <2>5 DEF Busy
      <3> QED
        BY <3>4, <3>5, <3>6, <3>7 DEF OverlapInv
    <2> QED
      BY <2>7, <2>8
  <1> QED
    BY <1>8, <1>9, <1>10, <1>11, <1>12, <1>13, <1>14 DEF Step

\* OverlapInv is inductive.
LEMMA NextOverlap == OverlapInv /\ [Next]_vars => OverlapInv'
  <1> SUFFICES ASSUME OverlapInv, [Next]_vars PROVE OverlapInv'
    OBVIOUS
  <1>1. CASE Next
    BY <1>1, SendOverlap, StepOverlap DEF Next
  <1>2. CASE UNCHANGED vars
    BY <1>2 DEF vars, OverlapInv, Types, Busy, Sound, At, Outcome
  <1> QED
    BY <1>1, <1>2

LEMMA OverlapHolds == Spec => []OverlapInv
  BY InitOverlap, NextOverlap, PTL DEF Spec

\* Whoever acts on a decided instance after the decision changes nothing: a
\* late request is refused at the task or at the instance.
LEMMA QuietStep ==
    ASSUME OverlapInv, NEW s \in Sessions, Step(s), NEW i \in Instances,
           instance[i].status # "pending",
           (Busy(s) /\ sess[s].i = i) => sess[s].late
    PROVE  instance'[i] = instance[i] /\ task'[i] = task[i] /\ published'[i] = published[i]
  <1>1. CASE UNCHANGED <<instance, task, published>>
    BY <1>1
  <1>2. CASE FlushInstance(s) \/ Commit(s)
    <2>1. Busy(s) /\ sess[s].step \in {"flush_instance", "commit"}
      BY <1>2 DEF FlushInstance, Commit, At, Busy
    <2>2. Sound(s) /\ sess[s].i # i
      BY <2>1 DEF OverlapInv, Sound
    <2>3. DOMAIN instance = Instances /\ DOMAIN task = Instances /\ DOMAIN published = Instances
      BY DEF OverlapInv, Types
    <2>4. CASE FlushInstance(s)
      BY <2>2, <2>3, <2>4 DEF FlushInstance
    <2>5. CASE Commit(s)
      <3>1. published' = published
        BY <2>5 DEF Commit
      <3>2. instance'[i] = instance[i]
        BY <2>2, <2>3, <2>5 DEF Commit
      <3>3. task'[i] = task[i]
        BY <2>2, <2>3, <2>5 DEF Commit
      <3> QED
        BY <3>1, <3>2, <3>3
    <2> QED
      BY <1>2, <2>4, <2>5
  <1> QED
    BY <1>1, <1>2 DEF Step, Refuse, LoadTask, LoadInstance, FlushTask, CommitFails

\* A decision is final for every request that comes after it
\* (QuietDecisionIsFinal), however the requests before it interleaved.
THEOREM DecisionsAreFinal == Spec => QuietDecisionIsFinal
  <1>1. ASSUME OverlapInv, [Next]_vars, NEW i \in Instances,
               instance[i].status # "pending",
               \A s \in Sessions : (Busy(s) /\ sess[s].i = i) => sess[s].late
        PROVE  instance'[i] = instance[i] /\ task'[i] = task[i] /\ published'[i] = published[i]
    <2>1. CASE UNCHANGED <<instance, task, published>>
      BY <2>1
    <2>2. CASE \E s \in Sessions : Step(s)
      BY <1>1, <2>2, QuietStep
    <2> QED
      BY <1>1, <2>1, <2>2 DEF Next, Send, vars
  <1>2. OverlapInv /\ [Next]_vars =>
          [\A i \in Instances :
              (/\ instance[i].status # "pending"
               /\ \A s \in Sessions : (Busy(s) /\ sess[s].i = i) => sess[s].late) =>
                 /\ instance'[i] = instance[i]
                 /\ task'[i] = task[i]
                 /\ published'[i] = published[i]]_vars
    BY <1>1
  <1> QED
    BY <1>2, OverlapHolds, PTL DEF Spec, QuietDecisionIsFinal

-----------------------------------------------------------------------------
(* One request at a time *)

\* The tasks of an instance are the nodes it reached, all settled but the last,
\* which is open while the instance is pending; and it is settled once.
ChainInv(i) ==
    /\ instance[i].node < Nodes
    /\ Len(task[i]) = instance[i].node + 1
    /\ \A k \in 1..Len(task[i]) :
          /\ task[i][k].node + 1 = k
          /\ task[i][k].action = "none" <=> (k = Len(task[i]) /\ instance[i].status = "pending")
    /\ instance[i].status = "approved" => instance[i].node + 1 = Nodes
    /\ settled[i] = IF instance[i].status = "pending" THEN <<>> ELSE <<instance[i].status>>

\* What a request has seen is still so.
UpToDate(s) ==
    /\ sess[s].step # "load_task" => task[sess[s].i][sess[s].k].action = "none"
    /\ sess[s].step \in {"flush_task", "flush_instance", "commit"} =>
          /\ instance[sess[s].i].status = "pending"
          /\ sess[s].node = instance[sess[s].i].node

Alone == \A s, t \in Sessions : Busy(s) /\ Busy(t) => s = t

SerialInv ==
    /\ OverlapInv
    /\ Alone
    /\ \A i \in Instances : ChainInv(i)
    /\ \A s \in Sessions : Busy(s) => UpToDate(s)

LEMMA InitSerial == Init => SerialInv
  <1> SUFFICES ASSUME Init PROVE SerialInv
    OBVIOUS
  <1>1. \A s \in Sessions : ~Busy(s)
    BY DEF Init, Busy, Idle
  <1>2. ASSUME NEW i \in Instances PROVE ChainInv(i)
    <2>1. instance[i].status = "pending" /\ instance[i].node = 0
      BY DEF Init
    <2>2. task[i] = <<[node |-> 0, action |-> "none"]>> /\ settled[i] = <<>>
      BY DEF Init
    <2>3. Len(task[i]) = 1 /\ task[i][1].node = 0 /\ task[i][1].action = "none"
      BY <2>2
    <2> QED
      BY <2>1, <2>2, <2>3, NodesPositive DEF ChainInv
  <1> QED
    BY <1>1, <1>2, InitOverlap DEF SerialInv, Alone

\* What a commit without overlap does, in terms of Approval.
LEMMA CommitFacts ==
    ASSUME SerialInv, NEW s \in Sessions, Commit(s),
           NEW i, i = sess[s].i, NEW k, k = sess[s].k
    PROVE  /\ i \in Instances /\ k = Len(task[i]) /\ k \in 1..Len(task[i])
           /\ task[i] \in Seq(TaskRow)
           /\ instance[i] \in InstanceRow
           /\ instance[i].status = "pending"
           /\ settled[i] = <<>>
           /\ task[i][k].action = "none"
           /\ sess[s].action \in SentActions
           /\ sess[s].node = instance[i].node
           /\ sess[s].outcome = Outcome(s)
  <1>1. Busy(s) /\ At(s, "commit")
    BY DEF Commit, At, Busy
  <1>2. sess[s] \in Request /\ Sound(s) /\ UpToDate(s)
    BY <1>1, BusyRequest DEF SerialInv, OverlapInv
  <1>3. i \in Instances /\ k \in 1..Len(task[i]) /\ sess[s].action \in SentActions
    BY <1>2 DEF Request, Sound
  <1>4. ChainInv(i) /\ task[i] \in Seq(TaskRow) /\ instance[i] \in InstanceRow
    BY <1>3 DEF SerialInv, OverlapInv, Types
  <1>5. task[i][k].action = "none" /\ instance[i].status = "pending"
        /\ sess[s].node = instance[i].node
    BY <1>1, <1>2 DEF UpToDate, At
  <1>6. sess[s].outcome = Outcome(s)
    BY <1>1, <1>2 DEF Sound
  <1>7. k = Len(task[i]) /\ settled[i] = <<>>
    BY <1>3, <1>4, <1>5 DEF ChainInv
  <1> QED
    BY <1>3, <1>4, <1>5, <1>6, <1>7

\* A commit continues the chain of its instance, or ends it.
LEMMA CommitChain ==
    ASSUME SerialInv, NEW s \in Sessions, Commit(s), OverlapInv', NEW j \in Instances
    PROVE  ChainInv(j)'
  <1> DEFINE i == sess[s].i
             k == sess[s].k
             q == task[i]
             done == Settle(q, k, sess[s].action)
             next == sess[s].node + 1
             outcome == sess[s].outcome
  <1>1. /\ i \in Instances /\ k = Len(q) /\ k \in 1..Len(q)
        /\ q \in Seq(TaskRow)
        /\ instance[i] \in InstanceRow
        /\ instance[i].status = "pending"
        /\ settled[i] = <<>>
        /\ sess[s].action \in SentActions
        /\ sess[s].node = instance[i].node
        /\ outcome = Outcome(s)
    BY CommitFacts
  <1>2. /\ outcome = "advanced" =>
              /\ instance' = [instance EXCEPT ![i] = [instance[i] EXCEPT !.node = next]]
              /\ task' = [task EXCEPT ![i] = Append(done, [node |-> next, action |-> "none"])]
              /\ settled' = settled
        /\ outcome # "advanced" =>
              /\ instance' = [instance EXCEPT ![i] = [instance[i] EXCEPT !.status = outcome]]
              /\ task' = [task EXCEPT ![i] = done]
              /\ settled' = [settled EXCEPT ![i] = Append(settled[i], outcome)]
    BY DEF Commit, Settle
  <1>3. /\ done \in Seq(TaskRow)
        /\ Len(done) = Len(q)
        /\ \A n \in 1..Len(q) :
              /\ done[n].node = q[n].node
              /\ done[n].action = IF n = k THEN sess[s].action ELSE q[n].action
    BY <1>1, SettledTask
  <1>4. /\ instance \in [Instances -> InstanceRow]
        /\ task \in [Instances -> Seq(TaskRow)]
        /\ settled \in [Instances -> Seq({"approved", "rejected"})]
    BY DEF SerialInv, OverlapInv, Types
  <1>5. ChainInv(i) /\ ChainInv(j)
    BY <1>1 DEF SerialInv
  <1>6. sess[s].action # "none"
    BY <1>1, ActionsAssumption
  <1>7. Len(q) \in Nat /\ instance[i].node \in Nat /\ Nodes \in Nat
    BY <1>1, NodesPositive DEF InstanceRow
  <1>8. \A n \in 1..Len(q) : done[n].node + 1 = n /\ done[n].action # "none"
    BY <1>1, <1>3, <1>5, <1>6 DEF ChainInv
  <1>9. CASE j # i
    <2>1. instance'[j] = instance[j] /\ task'[j] = task[j] /\ settled'[j] = settled[j]
      BY <1>1, <1>2, <1>4, <1>9
    <2> QED
      BY <1>5, <2>1 DEF ChainInv
  <1>10. CASE j = i /\ outcome = "advanced"
    <2> DEFINE e == [node |-> next, action |-> "none"]
               a == Append(done, e)
    <2>1. e \in TaskRow /\ e.node = next /\ e.action = "none"
      BY <1>1, <1>7 DEF TaskRow
    <2> HIDE DEF e, done
    <2>2. /\ Len(a) = Len(q) + 1
          /\ \A n \in 1..Len(q) : a[n] = done[n]
          /\ a[Len(q) + 1] = e
      BY <1>3, <1>7, <2>1, AppendProperties
    <2>3. /\ instance'[i].node = next /\ instance'[i].status = "pending"
          /\ task'[i] = a /\ settled'[i] = <<>>
      <3>1. [instance[i] EXCEPT !.node = next].node = next
            /\ [instance[i] EXCEPT !.node = next].status = "pending"
        BY <1>1 DEF InstanceRow
      <3> QED
        BY <1>1, <1>2, <1>4, <1>10, <3>1 DEF e, done
    <2> HIDE DEF a
    <2>4. Outcome(s) = "advanced" => next < Nodes
      BY DEF Outcome
    <2>5. next < Nodes
      BY <1>1, <1>10, <2>4
    <2>6. Len(q) = instance[i].node + 1
      BY <1>5 DEF ChainInv
    <2>7. ASSUME NEW n \in 1..Len(a)
          PROVE  /\ a[n].node + 1 = n
                 /\ a[n].action = "none" <=> n = Len(a)
      <3>1. CASE n \in 1..Len(q)
        BY <1>7, <1>8, <2>2, <3>1
      <3>2. CASE n = Len(q) + 1
        BY <1>1, <1>7, <2>1, <2>2, <2>6, <3>2
      <3> QED
        BY <1>7, <2>2, <3>1, <3>2
    <2> QED
      BY <1>1, <1>7, <1>10, <2>2, <2>3, <2>5, <2>6, <2>7 DEF ChainInv
  <1>11. CASE j = i /\ outcome # "advanced"
    <2>1. outcome \in {"approved", "rejected"}
          /\ (outcome = "approved" => ~(instance[i].node + 1 < Nodes))
      BY <1>1, <1>11 DEF Outcome
    <2>2. /\ instance'[i].node = instance[i].node /\ instance'[i].status = outcome
          /\ task'[i] = done /\ settled'[i] = <<outcome>>
      <3>1. [instance[i] EXCEPT !.status = outcome].node = instance[i].node
            /\ [instance[i] EXCEPT !.status = outcome].status = outcome
        BY <1>1 DEF InstanceRow
      <3>2. Append(settled[i], outcome) = <<outcome>>
        BY <1>1
      <3> QED
        BY <1>1, <1>2, <1>4, <1>11, <3>1, <3>2
    <2>3. outcome # "pending"
      BY <2>1
    <2>4. outcome = "approved" => instance[i].node + 1 = Nodes
      BY <1>5, <1>7, <2>1 DEF ChainInv
    <2>5. instance[i].node < Nodes /\ Len(q) = instance[i].node + 1
      BY <1>5 DEF ChainInv
    <2> HIDE DEF done
    <2> QED
      BY <1>3, <1>8, <1>11, <2>2, <2>3, <2>4, <2>5 DEF ChainInv
  <1> QED
    BY <1>9, <1>10, <1>11

LEMMA SerialSend ==
    ASSUME Overlap = FALSE, SerialInv, NEW s \in Sessions, NEW i \in Instances,
           NEW action \in SentActions, NEW k \in 1..Len(task[i]), Send(s, i, k, action)
    PROVE  SerialInv'
  <1>1. OverlapInv'
    BY SendOverlap DEF SerialInv
  <1>2. \A t \in Sessions : ~Busy(t)
    BY DEF Send
  <1>3. UNCHANGED <<instance, task, settled>>
    BY DEF Send
  <1>4. \A t \in Sessions \ {s} : sess'[t] = sess[t]
    BY DEF Send, SerialInv, OverlapInv, Types
  <1>5. sess'[s].step = "load_task"
    BY DEF Send, SerialInv, OverlapInv, Types
  <1>6. \A t \in Sessions \ {s} : ~Busy(t)'
    BY <1>2, <1>4 DEF Busy
  <1>7. UpToDate(s)'
    BY <1>5 DEF UpToDate
  <1>8. \A j \in Instances : ChainInv(j)'
    BY <1>3 DEF SerialInv, ChainInv
  <1> QED
    BY <1>1, <1>6, <1>7, <1>8 DEF SerialInv, Alone

LEMMA SerialStep ==
    ASSUME SerialInv, NEW s \in Sessions, Step(s)
    PROVE  SerialInv'
  <1>1. OverlapInv /\ OverlapInv'
    BY StepOverlap DEF SerialInv
  <1>2. Busy(s)
    BY DEF Step, Refuse, LoadTask, LoadInstance, FlushTask, FlushInstance, Commit, CommitFails,
           At, Busy
  <1>3. \A t \in Sessions \ {s} : ~Busy(t)
    BY <1>2 DEF SerialInv, Alone
  <1>4. \A t \in Sessions \ {s} : sess'[t] = sess[t]
    BY <1>1 DEF OverlapInv, Types, Step, Refuse, LoadTask, LoadInstance, FlushTask, FlushInstance,
                Commit, CommitFails, Goto
  <1>5. \A t \in Sessions \ {s} : ~Busy(t)'
    BY <1>3, <1>4 DEF Busy
  <1>6. Alone'
    BY <1>5 DEF Alone
  <1>7. \A j \in Instances : ChainInv(j)'
    <2>1. CASE UNCHANGED <<instance, task, settled>>
      BY <2>1 DEF SerialInv, ChainInv
    <2>2. CASE Commit(s)
      BY <1>1, <2>2, CommitChain
    <2> QED
      BY <2>1, <2>2 DEF Step, Refuse, LoadTask, LoadInstance, FlushTask, FlushInstance, CommitFails
  <1>8. Busy(s)' => UpToDate(s)'
    <2>1. sess[s] \in Request /\ UpToDate(s)
      BY <1>1, <1>2, BusyRequest DEF OverlapInv, SerialInv
    <2>2. sess \in [Sessions -> Request \cup {Idle}]
      BY <1>1 DEF OverlapInv, Types
    <2>3. CASE Refuse(s) \/ Commit(s) \/ CommitFails(s)
      BY <2>2, <2>3 DEF Refuse, Commit, CommitFails, Busy, Idle
    <2>4. CASE LoadTask(s)
      <3>1. sess'[s] = [sess[s] EXCEPT !.step = "load_instance"]
        BY <2>2, <2>4 DEF LoadTask, Goto
      <3> QED
        BY <2>1, <2>4, <3>1 DEF LoadTask, UpToDate, Request
    <2>5. CASE LoadInstance(s)
      <3>1. sess'[s] = [sess[s] EXCEPT !.step = "flush_task", !.node = instance[sess[s].i].node]
        BY <2>2, <2>5 DEF LoadInstance
      <3>2. /\ sess'[s].i = sess[s].i /\ sess'[s].k = sess[s].k
            /\ sess'[s].node = instance[sess[s].i].node
        BY <2>1, <3>1 DEF Request
      <3>3. sess[s].step = "load_instance" /\ instance[sess[s].i].status = "pending"
            /\ UNCHANGED <<instance, task>>
        BY <2>5 DEF LoadInstance, At
      <3> QED
        BY <2>1, <3>2, <3>3 DEF UpToDate
    <2>6. CASE FlushTask(s)
      <3>1. sess'[s] = [sess[s] EXCEPT !.step = "flush_instance"]
        BY <2>2, <2>6 DEF FlushTask, Goto
      <3> QED
        BY <2>1, <2>6, <3>1 DEF FlushTask, UpToDate, Request, At
    <2>7. CASE FlushInstance(s)
      <3>1. sess'[s] = [sess[s] EXCEPT !.step = "commit", !.outcome = Outcome(s)]
        BY <2>2, <2>7 DEF FlushInstance
      <3>2. /\ sess'[s].i = sess[s].i /\ sess'[s].k = sess[s].k /\ sess'[s].node = sess[s].node
        BY <2>1, <3>1 DEF Request
      <3>3. sess[s].step = "flush_instance" /\ UNCHANGED <<instance, task>>
        BY <2>7 DEF FlushInstance, At
      <3> QED
        BY <2>1, <3>2, <3>3 DEF UpToDate
    <2> QED
      BY <2>3, <2>4, <2>5, <2>6, <2>7 DEF Step
  <1> QED
    BY <1>1, <1>5, <1>6, <1>7, <1>8 DEF SerialInv

LEMMA NextSerial == Overlap = FALSE /\ SerialInv /\ [Next]_vars => SerialInv'
  <1> SUFFICES ASSUME Overlap = FALSE, SerialInv, [Next]_vars PROVE SerialInv'
    OBVIOUS
  <1>1. CASE Next
    BY <1>1, SerialSend, SerialStep DEF Next
  <1>2. CASE UNCHANGED vars
    <2>1. OverlapInv'
      BY <1>2, NextOverlap DEF SerialInv
    <2> QED
      BY <1>2, <2>1 DEF vars, SerialInv, Alone, Busy, ChainInv, UpToDate
  <1> QED
    BY <1>1, <1>2

LEMMA SerialHolds == ASSUME Overlap = FALSE PROVE Spec => []SerialInv
  <1>1. SerialInv /\ [Next]_vars => SerialInv'
    BY NextSerial
  <1> QED
    BY <1>1, InitSerial, PTL DEF Spec

\* Requests that come one at a time leave an approved instance with every node
\* of its chain signed (ChainIsSigned): that a node is skipped takes an overlap.
THEOREM SerialChainIsSigned == ASSUME Overlap = FALSE PROVE Spec => []ChainIsSigned
  <1>1. SerialInv => ChainIsSigned
    <2> SUFFICES ASSUME SerialInv, NEW i \in Instances, instance[i].status = "approved",
                        NEW n \in 0..Nodes - 1
                 PROVE  \E k \in 1..Len(task[i]) :
                           task[i][k].node = n /\ task[i][k].action # "none"
      BY DEF ChainIsSigned
    <2>1. ChainInv(i) /\ task[i] \in Seq(TaskRow)
      BY DEF SerialInv, OverlapInv, Types
    <2>2. n + 1 \in 1..Len(task[i]) /\ n \in Nat
      BY <2>1, NodesPositive DEF ChainInv
    <2>3. task[i][n + 1] \in TaskRow
      BY <2>1, <2>2, ElementOfSeq
    <2>4. task[i][n + 1].node \in Nat
      BY <2>3 DEF TaskRow
    <2>5. task[i][n + 1].node + 1 = n + 1 /\ task[i][n + 1].action # "none"
      BY <2>1, <2>2 DEF ChainInv
    <2> QED
      BY <2>2, <2>4, <2>5
  <1> QED
    BY <1>1, SerialHolds, PTL

-----------------------------------------------------------------------------
(* The refinement *)

\* A commit without overlap is one action of Approval: reject, advance or
\* finish, on the task and the instance the request loaded.
LEMMA CommitRefines ==
    ASSUME SerialInv, NEW s \in Sessions, Commit(s),
           NEW i, i = sess[s].i, NEW k, k = sess[s].k, NEW action, action = sess[s].action
    PROVE  Serial!Next
  <1> DEFINE q == task[i]
             done == Settle(q, k, action)
             outcome == sess[s].outcome
             mapped == [j \in Instances |-> [flow |-> Chain, target |-> "target",
                          status |-> instance[j].status, node |-> instance[j].node]]
  <1>1. /\ i \in Instances /\ k = Len(q) /\ k \in 1..Len(q)
        /\ q \in Seq(TaskRow)
        /\ instance[i] \in InstanceRow
        /\ instance[i].status = "pending"
        /\ q[k].action = "none"
        /\ action \in SentActions
        /\ sess[s].node = instance[i].node
        /\ outcome = Outcome(s)
    BY CommitFacts
  <1>2. done = [q EXCEPT ![k] = [node |-> q[k].node, action |-> action]]
    BY <1>1, SettledTask
  <1>3. action \in Serial!Actions
    BY <1>1, ActionsAssumption DEF Serial!Actions
  <1>4. Serial!Actionable(i, k)
    BY <1>1 DEF Serial!Actionable
  <1>5. Serial!Completed(i, k, action) = done
    BY <1>2 DEF Serial!Completed
  <1>6. Serial!HasNextNode(i) <=> instance[i].node + 1 < Nodes
    BY <1>1 DEF Serial!HasNextNode, Serial!NextNode, Nodes
  <1>7. /\ instance \in [Instances -> InstanceRow]
        /\ DOMAIN task = Instances /\ DOMAIN settled = Instances
    BY DEF SerialInv, OverlapInv, Types
  <1>8. UNCHANGED <<[f \in {Chain} |->
                       [code |-> "code", nodes |-> Chain, status |-> "active", version |-> 1]],
                    [j \in Instances |-> 1]>>
    OBVIOUS
  <1>12. ASSUME (action = "reject" /\ Serial!reject(i, k)) \/ Serial!advance(i, k, action)
                \/ Serial!finish(i, k, action)
         PROVE  Serial!Next
    BY <1>1, <1>3, <1>12 DEF Serial!Next, Serial!approve
  <1>9. CASE action = "reject"
    <2>1. outcome = "rejected"
      BY <1>1, <1>9 DEF Outcome
    <2>2. /\ instance' = [instance EXCEPT ![i].status = "rejected"]
          /\ task' = [task EXCEPT ![i] = done]
          /\ settled' = [settled EXCEPT ![i] = Append(@, "rejected")]
      BY <2>1 DEF Commit, Settle
    <2>3. mapped' = [mapped EXCEPT ![i] = Serial!Moved(i, "rejected", instance[i].node)]
      <3>1. \A j \in Instances :
               /\ instance'[j].node = instance[j].node
               /\ instance'[j].status = IF j = i THEN "rejected" ELSE instance[j].status
        BY <1>1, <1>7, <2>2 DEF InstanceRow
      <3> QED
        BY <1>1, <3>1 DEF Serial!Moved
    <2>4. Serial!reject(i, k)
      BY <1>1, <1>4, <1>5, <1>8, <1>9, <2>2, <2>3 DEF Serial!reject
    <2> QED
      BY <1>12, <1>9, <2>4
  <1>10. CASE action # "reject" /\ instance[i].node + 1 < Nodes
    <2>1. outcome = "advanced"
      BY <1>1, <1>10 DEF Outcome
    <2>2. /\ instance' = [instance EXCEPT ![i].node = instance[i].node + 1]
          /\ task' = [task EXCEPT ![i] =
                        Append(done, [node |-> instance[i].node + 1, action |-> "none"])]
          /\ settled' = settled
      BY <1>1, <2>1 DEF Commit, Settle
    <2>3. mapped' = [mapped EXCEPT ![i] = Serial!Moved(i, "pending", Serial!NextNode(i))]
      <3>1. \A j \in Instances :
               /\ instance'[j].status = instance[j].status
               /\ instance'[j].node = IF j = i THEN instance[i].node + 1 ELSE instance[j].node
        BY <1>1, <1>7, <2>2 DEF InstanceRow
      <3> QED
        BY <1>1, <3>1 DEF Serial!Moved, Serial!NextNode
    <2>4. Serial!advance(i, k, action)
      BY <1>1, <1>4, <1>5, <1>6, <1>8, <1>10, <2>2, <2>3
         DEF Serial!advance, Serial!OpenTask, Serial!NextNode
    <2> QED
      BY <1>12, <2>4
  <1>11. CASE action # "reject" /\ ~(instance[i].node + 1 < Nodes)
    <2>1. outcome = "approved"
      BY <1>1, <1>11 DEF Outcome
    <2>2. /\ instance' = [instance EXCEPT ![i].status = "approved"]
          /\ task' = [task EXCEPT ![i] = done]
          /\ settled' = [settled EXCEPT ![i] = Append(@, "approved")]
      BY <2>1 DEF Commit, Settle
    <2>3. mapped' = [mapped EXCEPT ![i] = Serial!Moved(i, "approved", instance[i].node)]
      <3>1. \A j \in Instances :
               /\ instance'[j].node = instance[j].node
               /\ instance'[j].status = IF j = i THEN "approved" ELSE instance[j].status
        BY <1>1, <1>7, <2>2 DEF InstanceRow
      <3> QED
        BY <1>1, <3>1 DEF Serial!Moved
    <2>4. Serial!finish(i, k, action)
      BY <1>1, <1>4, <1>5, <1>6, <1>8, <1>11, <2>2, <2>3 DEF Serial!finish
    <2> QED
      BY <1>12, <2>4
  <1> QED
    BY <1>9, <1>10, <1>11

\* Without overlap every step of approve is a step of Approval or changes
\* nothing there (ImplementsApproval): only the commit is visible.
THEOREM SerialImplements == ASSUME Overlap = FALSE PROVE Spec => ImplementsApproval
  <1>1. SerialInv /\ [Next]_vars => [Serial!Next]_<<instance, task, settled>>
    <2> SUFFICES ASSUME SerialInv, [Next]_vars
                 PROVE  Serial!Next \/ UNCHANGED <<instance, task, settled>>
      OBVIOUS
    <2>1. CASE \E s \in Sessions : Commit(s)
      BY <2>1, CommitRefines
    <2> QED
      BY <2>1 DEF Next, Send, Step, Refuse, LoadTask, LoadInstance, FlushTask, FlushInstance,
                  CommitFails, vars
  <1> QED
    BY <1>1, SerialHolds, PTL DEF Spec, ImplementsApproval
=============================================================================
