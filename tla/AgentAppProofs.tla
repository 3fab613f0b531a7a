--------------------------- MODULE AgentAppProofs ---------------------------
(***************************************************************************)
(* The coordinator, for any number of agents, tasks and messages: about    *)
(* Coordinator, whatever is called in any order; about CoordinatorLoop,    *)
(* which is how the application calls it and which implements              *)
(* OrchestratedRun; and about any run of OrchestratedRun.                  *)
(*                                                                         *)
(* Then the application, for any number of agents, sessions and keys: the  *)
(* parallel vectors stay parallel, a running pane owns its child and no    *)
(* child is left without a pane; without reconnection verdicts are final;  *)
(* the program owns the pipeline of PtyPipeline and drives the coordinator *)
(* of CoordinatorLoop, so that what is proved of those two holds of it; an *)
(* assigned task has its pane; without reconnection only a closed or       *)
(* stalled agent is killed; and what children write reaches their panes.   *)
(***************************************************************************)
EXTENDS AgentApp, FiniteSetTheorems, SequenceTheorems, TLAPS

-----------------------------------------------------------------------------
(* The coordinator by itself *)

(* Task t as dispatch_next leaves it. *)
Assigned(t, agent) == [tasks[t] EXCEPT !.status = "Dispatched", !.assignee = agent]

(***************************************************************************)
(* What one call leaves of the task vector: a new task at the end, or one  *)
(* task overwritten, which is never pending afterwards, keeps its          *)
(* dependencies, and keeps its assignee unless it was dispatched.          *)
(***************************************************************************)
Overwrites(t, task) ==
  /\ tasks' = [tasks EXCEPT ![t] = task]
  /\ task.deps = tasks[t].deps
  /\ task.status # "Pending"
  /\ \/ task.assignee = tasks[t].assignee
     \/ tasks[t].status = "Pending" /\ DepsAllDone(tasks[t].deps)

StepShape ==
  \/ \E deps \in SUBSET DepIds : AddTask(deps)
  \/ /\ len' = len
     /\ \E t \in Known, task \in Task : Overwrites(t, task)

\* The initial state has the types of the Rust fields: an empty vector, an empty log.
LEMMA InitTypeOK == Init => TypeOK
<1>1. SUFFICES ASSUME Init PROVE TypeOK
  OBVIOUS
<1>2. Known = {}
  BY <1>1 DEF Init, Known
<1>3. len \in 0..MaxTasks
  BY <1>1, CoordinatorAssumption DEF Init
<1>4. tasks \in [Known -> Task]
  BY <1>1, <1>2 DEF Init
<1>5. inbox \in Seq(Message) /\ DOMAIN inbox = {}
  BY <1>1 DEF Init
<1>6. QED
  BY <1>3, <1>4, <1>5 DEF TypeOK

\* Overwriting one task's status keeps the vector a vector of tasks.
LEMMA SetStatusType ==
  ASSUME TypeOK, NEW t \in Known, NEW status \in Status, SetStatus(t, status)
  PROVE  tasks' \in [Known -> Task]
BY DEF TypeOK, SetStatus, Task

\* Posting keeps the log a sequence of messages about known tasks.
LEMMA PostType ==
  ASSUME TypeOK, NEW t \in Known, NEW kind \in {"summary", "reply"}, Post(t, kind)
  PROVE  /\ inbox' \in Seq(Message)
         /\ \A k \in DOMAIN inbox' : inbox'[k].task \in Known
<1> DEFINE m == [from |-> tasks[t].assignee, task |-> t, kind |-> kind]
<1>1. t \in TaskIds
  BY CoordinatorAssumption DEF TypeOK, Known, TaskIds
<1>2. m \in Message
  BY <1>1 DEF TypeOK, Message, Task
<1>3. inbox' = Append(inbox, m)
  BY DEF Post
<1>4. inbox' \in Seq(Message)
  BY <1>2, <1>3 DEF TypeOK
<1>5. \A k \in DOMAIN inbox' : inbox'[k] = m \/ (k \in DOMAIN inbox /\ inbox'[k] = inbox[k])
  BY <1>2, <1>3 DEF TypeOK
<1>6. m.task = t
  OBVIOUS
<1>7. QED
  BY <1>4, <1>5, <1>6 DEF TypeOK

\* An assigned task is still a task.
LEMMA AssignedType ==
  ASSUME TypeOK, NEW t \in Known, NEW agent \in Agents
  PROVE  /\ Assigned(t, agent) \in Task
         /\ Assigned(t, agent).deps = tasks[t].deps
         /\ Assigned(t, agent).status = "Dispatched"
BY DEF TypeOK, Assigned, Task, Status

\* dispatch_next overwrites one dispatchable task.
LEMMA DispatchShape ==
  ASSUME TypeOK, NEW agent \in Agents, DispatchNext(agent)
  PROVE  \E t \in Known : /\ IsNext(t)
                           /\ tasks' = [tasks EXCEPT ![t] = Assigned(t, agent)]
BY DEF TypeOK, DispatchNext, Assigned

\* Every call preserves the types.
LEMMA NextTypeOK == TypeOK /\ [Next]_coordVars => TypeOK'
<1> SUFFICES ASSUME TypeOK, [Next]_coordVars PROVE TypeOK'
  OBVIOUS
<1>1. ASSUME NEW deps \in SUBSET DepIds, AddTask(deps) PROVE TypeOK'
  <2>1. len \in Nat /\ len + 1 \in 0..MaxTasks /\ Known' = 0..len /\ Known = 0..(len - 1)
    BY <1>1, CoordinatorAssumption DEF TypeOK, AddTask, Known
  <2>2. NewTask(deps) \in Task
    BY DEF NewTask, Task, Status
  <2>3. tasks' \in [Known' -> Task]
    <3>1. \A u \in 0..len : u # len => u \in Known
      BY <2>1
    <3>2. \A u \in 0..len : (IF u = len THEN NewTask(deps) ELSE tasks[u]) \in Task
      BY <2>2, <3>1 DEF TypeOK
    <3>3. QED
      BY <1>1, <2>1, <3>2 DEF AddTask
  <2>4. inbox' = inbox /\ Known \subseteq Known'
    BY <1>1, <2>1 DEF AddTask
  <2>5. QED
    BY <1>1, <2>1, <2>3, <2>4 DEF TypeOK, AddTask
<1>2. ASSUME NEW agent \in Agents, DispatchNext(agent) PROVE TypeOK'
  <2>1. PICK t \in Known : tasks' = [tasks EXCEPT ![t] = Assigned(t, agent)]
    BY <1>2, DispatchShape
  <2>2. Assigned(t, agent) \in Task
    BY AssignedType
  <2>3. tasks' \in [Known -> Task]
    BY <2>1, <2>2 DEF TypeOK
  <2>4. QED
    BY <1>2, <2>3 DEF TypeOK, DispatchNext, Known
<1>3. ASSUME NEW t \in Known, MarkInProgress(t) \/ ReportFailed(t) \/ Ask(t) PROVE TypeOK'
  <2>1. tasks' \in [Known -> Task]
    BY <1>3, SetStatusType DEF MarkInProgress, ReportFailed, Ask, Status
  <2>2. QED
    BY <1>3, <2>1 DEF TypeOK, MarkInProgress, ReportFailed, Ask, Known
<1>4. ASSUME NEW t \in Known, ReportDone(t) \/ Answer(t) PROVE TypeOK'
  <2>1. tasks' \in [Known -> Task]
    BY <1>4, SetStatusType DEF ReportDone, Answer, Status
  <2>2. inbox' \in Seq(Message) /\ \A k \in DOMAIN inbox' : inbox'[k].task \in Known
    BY <1>4, PostType DEF ReportDone, Answer
  <2>3. len' = len /\ Known' = Known
    BY <1>4 DEF ReportDone, Answer, Known
  <2>4. QED
    BY <2>1, <2>2, <2>3 DEF TypeOK
<1>5. CASE UNCHANGED coordVars
  BY <1>5 DEF TypeOK, coordVars, Known
<1>6. QED
  BY <1>1, <1>2, <1>3, <1>4, <1>5 DEF Next

\* Type correctness of the coordinator, for every sequence of calls.
THEOREM TypeCorrect == Spec => []TypeOK
BY InitTypeOK, NextTypeOK, PTL DEF Spec

-----------------------------------------------------------------------------
\* Setting a status overwrites one task, leaving it assigned as it was.
LEMMA SetStatusShape ==
  ASSUME TypeOK, NEW t \in Known, NEW status \in Status \ {"Pending"}, SetStatus(t, status)
  PROVE  \E task \in Task : Overwrites(t, task)
<1> DEFINE task == [tasks[t] EXCEPT !.status = status]
<1>1. task \in Task /\ task.deps = tasks[t].deps /\ task.assignee = tasks[t].assignee
  BY DEF TypeOK, Task
<1>2. task.status = status
  BY DEF TypeOK, Task
<1>3. tasks' = [tasks EXCEPT ![t] = task]
  BY DEF TypeOK, SetStatus
<1>4. Overwrites(t, task)
  BY <1>1, <1>2, <1>3 DEF Overwrites
<1>5. QED
  BY <1>1, <1>4

\* Every call has the shape above.
LEMMA NextShape == TypeOK /\ Next => StepShape
<1> SUFFICES ASSUME TypeOK, Next PROVE StepShape
  OBVIOUS
<1>1. ASSUME NEW deps \in SUBSET DepIds, AddTask(deps) PROVE StepShape
  BY <1>1 DEF StepShape
<1>2. ASSUME NEW agent \in Agents, DispatchNext(agent) PROVE StepShape
  <2>1. PICK t \in Known : IsNext(t) /\ tasks' = [tasks EXCEPT ![t] = Assigned(t, agent)]
    BY <1>2, DispatchShape
  <2>2. Overwrites(t, Assigned(t, agent))
    BY <2>1, AssignedType DEF Overwrites, IsNext, Dispatchable
  <2>3. QED
    BY <1>2, <2>2, AssignedType DEF StepShape, DispatchNext
<1>3. ASSUME NEW t \in Known, MarkInProgress(t) \/ ReportFailed(t) \/ Ask(t)
      PROVE  StepShape
  <2>1. \E task \in Task : Overwrites(t, task)
    BY <1>3, SetStatusShape DEF MarkInProgress, ReportFailed, Ask, Status
  <2>2. QED
    BY <1>3, <2>1 DEF StepShape, MarkInProgress, ReportFailed, Ask
<1>4. ASSUME NEW t \in Known, ReportDone(t) \/ Answer(t) PROVE StepShape
  <2>1. \E task \in Task : Overwrites(t, task)
    BY <1>4, SetStatusShape DEF ReportDone, Answer, Status
  <2>2. QED
    BY <1>4, <2>1 DEF StepShape, ReportDone, Answer
<1>5. QED
  BY <1>1, <1>2, <1>3, <1>4 DEF Next

\* A new task leaves the old ones as they are and starts pending and unassigned.
LEMMA AddTaskShape ==
  ASSUME TypeOK, NEW deps \in SUBSET DepIds, AddTask(deps)
  PROVE  /\ Known' = Known \cup {len}
         /\ len \notin Known
         /\ tasks'[len] = NewTask(deps)
         /\ \A u \in Known : tasks'[u] = tasks[u]
<1>1. len \in Nat /\ len' = len + 1
  BY CoordinatorAssumption DEF TypeOK, AddTask
<1>2. Known' = 0..len /\ Known = 0..(len - 1)
  BY <1>1 DEF Known
<1>3. QED
  BY <1>1, <1>2 DEF AddTask

-----------------------------------------------------------------------------
(***************************************************************************)
(* The inductive invariant.  InboxAttribution and DispatchedAtMostOnce     *)
(* need to know that a pending task has no assignee yet, or dispatch_next  *)
(* could replace one; BadDepNeverDispatched needs its contrapositive,      *)
(* stated on the assigned tasks, which survives the growth of the vector.  *)
(***************************************************************************)
PendingUnassigned ==
  \A t \in Known : tasks[t].status = "Pending" => tasks[t].assignee = NoAgent

AssignedDepsKnown ==
  \A t \in Known :
    tasks[t].assignee # NoAgent => tasks[t].deps \subseteq Known \ {t}

Inv == TypeOK /\ PendingUnassigned /\ AssignedDepsKnown

\* Initially there is nothing to hold it against.
LEMMA InitInv == Init => Inv
<1>1. SUFFICES ASSUME Init PROVE Inv
  OBVIOUS
<1>2. Known = {}
  BY <1>1 DEF Init, Known
<1>3. QED
  BY <1>1, <1>2, InitTypeOK DEF Inv, PendingUnassigned, AssignedDepsKnown

\* Every call preserves it.
LEMMA NextInv == Inv /\ [Next]_coordVars => Inv'
<1> SUFFICES ASSUME Inv, [Next]_coordVars PROVE Inv'
  OBVIOUS
<1> USE DEF Inv
<1>1. TypeOK'
  BY NextTypeOK
<1>2. ASSUME NEW deps \in SUBSET DepIds, AddTask(deps)
      PROVE  PendingUnassigned' /\ AssignedDepsKnown'
  <2>1. NewTask(deps).assignee = NoAgent
    BY DEF NewTask
  <2>2. PendingUnassigned'
    BY <1>2, <2>1, AddTaskShape DEF PendingUnassigned
  <2>3. AssignedDepsKnown'
    BY <1>2, <2>1, AddTaskShape DEF AssignedDepsKnown
  <2>4. QED
    BY <2>2, <2>3
<1>3. ASSUME len' = len, NEW t \in Known, NEW task \in Task, Overwrites(t, task)
      PROVE  PendingUnassigned' /\ AssignedDepsKnown'
  <2>1. Known' = Known
    BY <1>3 DEF Known
  <2>2. tasks'[t] = task /\ \A u \in Known : u # t => tasks'[u] = tasks[u]
    BY <1>3 DEF TypeOK, Overwrites
  <2>3. PendingUnassigned'
    BY <1>3, <2>1, <2>2 DEF PendingUnassigned, Overwrites
  <2>4. task.assignee # NoAgent => task.deps \subseteq Known \ {t}
    <3>1. CASE task.assignee = tasks[t].assignee
      BY <1>3, <3>1 DEF Overwrites, AssignedDepsKnown
    <3>2. CASE tasks[t].status = "Pending" /\ DepsAllDone(tasks[t].deps)
      BY <1>3, <3>2 DEF Overwrites, DepsAllDone
    <3>3. QED
      BY <1>3, <3>1, <3>2 DEF Overwrites
  <2>5. AssignedDepsKnown'
    BY <2>1, <2>2, <2>4 DEF AssignedDepsKnown
  <2>6. QED
    BY <2>3, <2>5
<1>4. CASE Next
  BY <1>1, <1>2, <1>3, <1>4, NextShape DEF StepShape
<1>5. CASE UNCHANGED coordVars
  BY <1>1, <1>5 DEF coordVars, Known, PendingUnassigned, AssignedDepsKnown
<1>6. QED
  BY <1>4, <1>5

\* The inductive invariant holds.
LEMMA InvHolds == Spec => []Inv
BY InitInv, NextInv, PTL DEF Spec

\* A task with an unknown or self dependency is never dispatched (deps_all_done's
\* "a typo'd dep id blocks"), for any number of tasks.
THEOREM BadDepSafe == Spec => []BadDepNeverDispatched
<1>1. Inv => BadDepNeverDispatched
  BY DEF Inv, AssignedDepsKnown, BadDepNeverDispatched
<1>2. QED
  BY <1>1, InvHolds, PTL

\* An assignment is never undone, and a task that left the pool stays out of it.
LEMMA StepKeepsAssignment ==
  ASSUME Inv, Next, NEW t \in Known
  PROVE  /\ tasks[t].assignee # NoAgent => tasks'[t].assignee = tasks[t].assignee
         /\ tasks[t].status # "Pending" => tasks'[t].status # "Pending"
<1> DEFINE Kept == /\ tasks[t].assignee # NoAgent => tasks'[t].assignee = tasks[t].assignee
                   /\ tasks[t].status # "Pending" => tasks'[t].status # "Pending"
<1>1. TypeOK /\ PendingUnassigned
  BY DEF Inv
<1>2. ASSUME NEW deps \in SUBSET DepIds, AddTask(deps) PROVE Kept
  BY <1>1, <1>2, AddTaskShape
<1>3. ASSUME NEW u \in Known, NEW task \in Task, Overwrites(u, task) PROVE Kept
  <2>1. tasks'[u] = task /\ (t # u => tasks'[t] = tasks[t])
    BY <1>1, <1>3 DEF TypeOK, Overwrites
  <2>2. QED
    BY <1>1, <1>3, <2>1 DEF PendingUnassigned, Overwrites
<1>4. QED
  BY <1>1, <1>2, <1>3, NextShape DEF StepShape

\* No sequence of calls dispatches a task twice.
THEOREM DispatchOnce == Spec => DispatchedAtMostOnce
<1> DEFINE Once == \A t \in Known :
             /\ tasks[t].assignee # NoAgent => tasks'[t].assignee = tasks[t].assignee
             /\ tasks[t].status # "Pending" => tasks'[t].status # "Pending"
<1>1. Inv /\ [Next]_coordVars => [Once]_coordVars
  BY StepKeepsAssignment
<1>2. QED
  BY <1>1, InvHolds, PTL DEF Spec, DispatchedAtMostOnce

-----------------------------------------------------------------------------
\* The log only grows by a message from the task's assignee at that time, and the
\* call that adds it does not reassign the task.
LEMMA NextLog ==
  ASSUME TypeOK, Next
  PROVE  \/ inbox' = inbox
         \/ \E m \in Message : /\ inbox' = Append(inbox, m)
                              /\ m.task \in Known
                              /\ m.from = tasks[m.task].assignee
                              /\ tasks'[m.task].assignee = tasks[m.task].assignee
<1> DEFINE Logged == \E m \in Message : /\ inbox' = Append(inbox, m)
                              /\ m.task \in Known
                              /\ m.from = tasks[m.task].assignee
                              /\ tasks'[m.task].assignee = tasks[m.task].assignee
<1>1. ASSUME NEW t \in Known, NEW kind \in {"summary", "reply"}, Post(t, kind),
             NEW status \in Status \ {"Pending"}, SetStatus(t, status)
      PROVE  Logged
  <2> DEFINE m == [from |-> tasks[t].assignee, task |-> t, kind |-> kind]
  <2>1. t \in TaskIds
    BY CoordinatorAssumption DEF TypeOK, Known, TaskIds
  <2>2. m \in Message
    BY <2>1 DEF TypeOK, Message, Task
  <2>3. m.from = tasks[m.task].assignee /\ m.task = t /\ inbox' = Append(inbox, m)
    BY <1>1 DEF Post
  <2>4. tasks'[t].assignee = tasks[t].assignee
    BY <1>1 DEF TypeOK, SetStatus, Task
  <2>5. QED
    BY <2>2, <2>3, <2>4
<1>2. ASSUME NEW t \in Known, ReportDone(t) \/ Answer(t) PROVE Logged
  BY <1>1, <1>2 DEF ReportDone, Answer, Status
<1>3. QED
  BY <1>2 DEF Next, AddTask, DispatchNext, MarkInProgress, ReportFailed, Ask

\* The inbox is attributable for every sequence of calls: it follows from the fact
\* that only a pending, hence unassigned, task is ever given an assignee.
THEOREM InboxAttributed == Spec => []InboxAttribution
<1>1. Init => InboxAttribution
  BY DEF Init, InboxAttribution
<1>2. ASSUME Inv, InboxAttribution, [Next]_coordVars PROVE InboxAttribution'
  <2>1. CASE UNCHANGED coordVars
    BY <1>2, <2>1 DEF coordVars, InboxAttribution
  <2>2. CASE Next
    <3>1. ASSUME NEW k \in DOMAIN inbox, inbox[k].from # NoAgent
          PROVE  inbox[k].from = tasks'[inbox[k].task].assignee
      <4>1. inbox[k].task \in Known
        BY <1>2 DEF Inv, TypeOK
      <4>2. inbox[k].from = tasks[inbox[k].task].assignee
        BY <1>2, <3>1 DEF InboxAttribution
      <4>3. QED
        BY <1>2, <2>2, <3>1, <4>1, <4>2, StepKeepsAssignment
    <3>2. CASE inbox' = inbox
      BY <3>1, <3>2 DEF InboxAttribution
    <3>3. ASSUME NEW m \in Message, inbox' = Append(inbox, m), m.task \in Known,
                 m.from = tasks[m.task].assignee,
                 tasks'[m.task].assignee = tasks[m.task].assignee
          PROVE  InboxAttribution'
      <4>1. \A k \in DOMAIN inbox' : \/ k \in DOMAIN inbox /\ inbox'[k] = inbox[k]
                                     \/ inbox'[k] = m
        BY <1>2, <3>3 DEF Inv, TypeOK
      <4>2. QED
        BY <3>1, <3>3, <4>1 DEF InboxAttribution
    <3>4. QED
      BY <1>2, <2>2, <3>2, <3>3, NextLog DEF Inv
  <2>3. QED
    BY <1>2, <2>1, <2>2
<1>3. QED
  BY <1>1, <1>2, InvHolds, PTL DEF Spec

-----------------------------------------------------------------------------
(***************************************************************************)
(* CoordinatorLoop.  LoopInv says which part of the coordinator's state    *)
(* space the application's discipline can reach: the plan's tasks with the *)
(* plan's dependencies, and only three of the six statuses.                *)
(***************************************************************************)
LoopTask == [deps : SUBSET DepIds, assignee : Agents \cup {NoAgent}, status : {"Pending", "InProgress", "Done"}]

LoopInv ==
  /\ len = NumTasks
  /\ tasks \in [Planned -> LoopTask]
  /\ \A t \in Planned : tasks[t].deps = Deps(t)

Stage == [t \in Planned |-> StageOf(tasks[t].status)]

LEMMA KnownIsPlanned == LoopInv => Known = Planned
BY DEF LoopInv, Known, Planned

\* The plans only depend on tasks they contain.
LEMMA DepsPlanned ==
  ASSUME NEW t \in Planned
  PROVE  Deps(t) \subseteq Planned /\ Deps(t) \in SUBSET DepIds
BY PlanAssumption, LoopAssumption, CoordinatorAssumption DEF Planned, Deps, DepIds

LEMMA InitLoopInv == LoopInit => LoopInv
<1>1. SUFFICES ASSUME LoopInit PROVE LoopInv
  OBVIOUS
<1>2. \A t \in Planned : NewTask(Deps(t)) \in LoopTask /\ NewTask(Deps(t)).deps = Deps(t)
  BY DepsPlanned DEF NewTask, LoopTask
<1>3. QED
  BY <1>1, <1>2 DEF LoopInit, LoopInv

\* Either step overwrites the status, and maybe the assignee, of one task.
LEMMA ReleaseShape ==
  ASSUME LoopInv, NEW t \in Planned, NEW agent \in Agents, Release(t, agent)
  PROVE  /\ LoopInv'
         /\ tasks[t].status = "Pending" /\ tasks'[t].status = "InProgress"
         /\ \A u \in Planned : u # t => tasks'[u] = tasks[u]
<1> DEFINE new == [tasks[t] EXCEPT !.status = "InProgress", !.assignee = agent]
<1>1. new \in LoopTask /\ new.deps = tasks[t].deps /\ new.status = "InProgress"
  BY DEF LoopInv, LoopTask
<1>2. tasks' = [tasks EXCEPT ![t] = new] /\ len' = len
  BY DEF Release, LoopInv
<1>3. tasks[t].status = "Pending"
  BY DEF Release, IsNext, Dispatchable
<1> HIDE DEF new
<1>4. QED
  BY <1>1, <1>2, <1>3 DEF LoopInv

LEMMA ReportShape ==
  ASSUME LoopInv, NEW t \in Planned, Report(t)
  PROVE  /\ LoopInv'
         /\ tasks[t].status \in {"InProgress", "Done"} /\ tasks'[t].status = "Done"
         /\ \A u \in Planned : u # t => tasks'[u] = tasks[u]
<1> DEFINE new == [tasks[t] EXCEPT !.status = "Done"]
<1>1. new \in LoopTask /\ new.deps = tasks[t].deps /\ new.status = "Done"
  BY DEF LoopInv, LoopTask
<1>2. tasks' = [tasks EXCEPT ![t] = new] /\ len' = len
  BY DEF Report, ReportDone, SetStatus, LoopInv
<1>3. tasks[t].status \in {"InProgress", "Done"}
  BY DEF Report
<1> HIDE DEF new
<1>4. QED
  BY <1>1, <1>2, <1>3 DEF LoopInv

LEMMA NextLoopInv == LoopInv /\ [LoopNext]_coordVars => LoopInv'
<1>1. ASSUME LoopInv, UNCHANGED coordVars PROVE LoopInv'
  BY <1>1 DEF LoopInv, coordVars
<1>2. QED
  BY <1>1, ReleaseShape, ReportShape DEF LoopNext

LEMMA LoopInvHolds == LoopSpec => []LoopInv
BY InitLoopInv, NextLoopInv, PTL DEF LoopSpec

-----------------------------------------------------------------------------
\* Both modules have the plan from Plans.
LEMMA SamePlan == Run!Planned = Planned /\ \A t \in Planned : Run!Deps(t) = Deps(t)
BY DEF Run!Planned, Planned, Run!Deps, Deps

\* What dispatch_next looks for is what the abstract run can start.
LEMMA StartableIsDispatchable ==
  ASSUME LoopInv, NEW u \in Planned
  PROVE  Run!Startable(u) <=> Dispatchable(u)
<1>1. \A d \in Planned : /\ Stage[d] = "waiting" <=> tasks[d].status = "Pending"
                         /\ Stage[d] = "finished" <=> tasks[d].status = "Done"
  BY DEF LoopInv, LoopTask, Stage, StageOf
<1>2. tasks[u].deps = Deps(u) /\ Deps(u) \subseteq Known /\ Deps(u) \subseteq Planned
  BY DepsPlanned, KnownIsPlanned DEF LoopInv
<1>3. QED
  BY <1>1, <1>2, SamePlan DEF Run!Startable, Dispatchable, DepsAllDone, Stage

LEMMA ReleaseStarts ==
  ASSUME LoopInv, NEW t \in Planned, NEW agent \in Agents, Release(t, agent)
  PROVE  Run!Start(t)
<1>1. Stage' = [Stage EXCEPT ![t] = "running"]
  <2>1. \A u \in Planned : Stage'[u] = IF u = t THEN "running" ELSE Stage[u]
    BY ReleaseShape DEF Stage, StageOf
  <2>2. QED
    BY <2>1 DEF Stage
<1>2. Dispatchable(t) /\ \A u \in Planned : Dispatchable(u) => t <= u
  BY KnownIsPlanned DEF Release, IsNext
<1>3. Run!Startable(t) /\ \A u \in Planned : Run!Startable(u) => t <= u
  BY <1>2, StartableIsDispatchable
<1>4. QED
  BY <1>1, <1>3, SamePlan DEF Run!Start, Stage

\* A task's first report finishes it; a second one changes nothing the run shows.
LEMMA ReportFinishes ==
  ASSUME LoopInv, NEW t \in Planned, Report(t)
  PROVE  Run!Finish(t) \/ Stage' = Stage
<1>1. \A u \in Planned : Stage'[u] = IF u = t THEN "finished" ELSE Stage[u]
  BY ReportShape DEF Stage, StageOf
<1>2. Stage' = [Stage EXCEPT ![t] = "finished"]
  BY <1>1 DEF Stage
<1>3. CASE tasks[t].status = "InProgress"
  <2>1. Stage[t] = "running"
    BY <1>3 DEF Stage, StageOf
  <2>2. QED
    BY <1>2, <2>1 DEF Run!Finish, Stage
<1>4. CASE tasks[t].status = "Done"
  <2>1. Stage[t] = "finished"
    BY <1>4 DEF Stage, StageOf
  <2>2. QED
    BY <1>2, <2>1 DEF Stage
<1>5. QED
  BY <1>3, <1>4, ReportShape

LEMMA StepRefines == LoopInv /\ [LoopNext]_coordVars => [Run!RunNext]_Stage
<1>1. ASSUME UNCHANGED coordVars PROVE Stage' = Stage
  BY <1>1 DEF Stage, coordVars
<1>2. ASSUME LoopInv, NEW t \in Planned, NEW agent \in Agents, Release(t, agent) PROVE Run!RunNext
  BY <1>2, ReleaseStarts, SamePlan DEF Run!RunNext
<1>3. ASSUME LoopInv, NEW t \in Planned, Report(t) PROVE Run!RunNext \/ Stage' = Stage
  BY <1>3, ReportFinishes, SamePlan DEF Run!RunNext
<1>4. QED
  BY <1>1, <1>2, <1>3 DEF LoopNext

\* pump_orchestration and apply_update drive the coordinator through a run of
\* OrchestratedRun, for both plans of any length.
THEOREM LoopRefinesRun == LoopSpec => ImplementsRun
<1>1. LoopInit => Run!RunInit
  BY SamePlan DEF LoopInit, Run!RunInit, StageOf, NewTask
<1>2. LoopInv /\ [LoopNext]_coordVars => [Run!RunNext]_[t \in Planned |-> StageOf(tasks[t].status)]
  BY StepRefines DEF Stage
<1>3. QED
  BY <1>1, <1>2, LoopInvHolds, PTL DEF LoopSpec, ImplementsRun, Run!RunSafety

-----------------------------------------------------------------------------
(***************************************************************************)
(* The order of a chain, once for every implementation of OrchestratedRun. *)
(* SequentialOrder is inductive as it stands, given the types: when task u *)
(* of a chain starts, u-1 has finished, hence is not waiting, hence by     *)
(* SequentialOrder itself every task before u-1 has finished too.          *)
(***************************************************************************)
RunInv == Run!RunTypeOK /\ Run!SequentialOrder

\* RunTypeOK and SequentialOrder, spelled out.
LEMMA RunInvIs ==
  RunInv <=> /\ Stage \in [Planned -> {"waiting", "running", "finished"}]
             /\ Shape = "chain" =>
                  \A t, u \in Planned : (t < u /\ Stage[u] # "waiting") => Stage[t] = "finished"
BY SamePlan DEF RunInv, Run!RunTypeOK, Run!SequentialOrder, Stage

LEMMA InitRunInv == Run!RunInit => RunInv
BY SamePlan, RunInvIs DEF Run!RunInit, Stage

LEMMA StartInOrder ==
  ASSUME RunInv, NEW t \in Planned, Run!Start(t), Shape = "chain",
         NEW a \in Planned, NEW b \in Planned, a < b, Stage'[b] # "waiting"
  PROVE  Stage'[a] = "finished"
<1>1. Stage' = [Stage EXCEPT ![t] = "running"] /\ Stage[t] = "waiting"
  BY DEF Run!Start, Run!Startable, Stage
<1>2. Stage \in [Planned -> {"waiting", "running", "finished"}]
  BY RunInvIs
<1>3. Stage[a] = "finished"
  <2>1. CASE b # t
    <3>1. Stage[b] # "waiting"
      BY <1>1, <1>2, <2>1
    <3>2. QED
      BY <3>1, RunInvIs
  <2>2. CASE b = t
    <3>1. t \in Nat /\ a \in Nat /\ t - 1 \in Planned /\ t > 0
      BY <2>2, PlanAssumption DEF Planned
    <3>2. Stage[t - 1] = "finished"
      BY <3>1, SamePlan DEF Run!Start, Run!Startable, Deps, Stage
    <3>3. a = t - 1 \/ a < t - 1
      BY <2>2, <3>1
    <3>4. QED
      BY <3>1, <3>2, <3>3, RunInvIs
  <2>3. QED
    BY <2>1, <2>2
<1>4. QED
  BY <1>1, <1>2, <1>3

LEMMA NextRunInv == RunInv /\ [Run!RunNext]_Stage => RunInv'
<1> SUFFICES ASSUME RunInv, [Run!RunNext]_Stage PROVE RunInv'
  OBVIOUS
<1> DEFINE Types == Stage \in [Planned -> {"waiting", "running", "finished"}]
           Order == Shape = "chain" =>
                      \A t, u \in Planned : (t < u /\ Stage[u] # "waiting") => Stage[t] = "finished"
<1>1. RunInv <=> Types /\ Order
  BY RunInvIs
<1>2. RunInv' <=> Types' /\ Order'
  BY RunInvIs, PTL
<1>3. CASE Stage' = Stage
  BY <1>1, <1>2, <1>3
<1>4. ASSUME NEW t \in Planned, Run!Start(t) PROVE RunInv'
  <2>1. Stage' = [Stage EXCEPT ![t] = "running"]
    BY <1>4 DEF Run!Start, Stage
  <2>2. Types'
    BY <1>1, <2>1
  <2>3. Order'
    BY <1>4, StartInOrder
  <2>4. QED
    BY <1>2, <2>2, <2>3
<1>5. ASSUME NEW t \in Planned, Run!Finish(t) PROVE RunInv'
  <2>1. Stage' = [Stage EXCEPT ![t] = "finished"] /\ Stage[t] # "waiting"
    BY <1>5 DEF Run!Finish, Stage
  <2>2. Types' /\ Order'
    BY <1>1, <2>1
  <2>3. QED
    BY <1>2, <2>2
<1>6. QED
  BY <1>3, <1>4, <1>5, SamePlan DEF Run!RunNext

\* A run of the default, sequential, mode works on its tasks one after the other, in
\* the order of the lines, however many there are and whatever implements it.
THEOREM InOrder == ImplementsRun => []WorksInOrder
<1>1. RunInv => WorksInOrder
  BY DEF RunInv, WorksInOrder
<1>2. RunInv /\ [Run!RunNext]_[t \in Planned |-> StageOf(tasks[t].status)] => RunInv'
  BY NextRunInv DEF Stage
<1>3. QED
  BY <1>1, <1>2, InitRunInv, PTL DEF ImplementsRun, Run!RunSafety

\* The coordinator, driven by the application, works through a chain strictly in order.
THEOREM LoopInOrder == LoopSpec => []WorksInOrder
BY LoopRefinesRun, InOrder, PTL

\* Under the loop's discipline a Done task stays Done, although the coordinator
\* itself would let any caller reopen it.
THEOREM LoopKeepsTerminal == LoopSpec => TerminalIsFinal
<1> DEFINE Kept == \A t \in Known : IsTerminal(tasks[t].status) => tasks'[t].status = tasks[t].status
<1>1. ASSUME LoopInv, LoopNext PROVE Kept
  <2>1. \A t \in Planned : IsTerminal(tasks[t].status) <=> tasks[t].status = "Done"
    BY <1>1 DEF LoopInv, LoopTask, IsTerminal
  <2>2. QED
    BY <1>1, <2>1, KnownIsPlanned, ReleaseShape, ReportShape DEF LoopNext
<1>2. LoopInv /\ [LoopNext]_coordVars => [Kept]_coordVars
  BY <1>1
<1>3. QED
  BY <1>2, LoopInvHolds, PTL DEF LoopSpec, TerminalIsFinal

-----------------------------------------------------------------------------
(* The pipeline by itself: whatever the number of sessions and panes and   *)
(* however much the children write, it is well typed and the interface is  *)
(* told everything and then, once, the end.                                *)
(*                                                                         *)
(* StreamWholeThenExit is not inductive.  What it rests on is the order in *)
(* which a session winds down while the interface listens: the tty is let  *)
(* go of, the reader has read all of it and ends, the forwarder has sent   *)
(* all of that and ends, and only a forwarder that ended has an Exit on    *)
(* the bus.                                                                *)

\* Every forwarder was started for some pane.
Attached == \A s \in Sessions : forwarder[s] # "none" => pane[s] \in PaneIds

\* Chunks move forward only.
Counted == \A s \in Sessions : sent[s] <= read[s] /\ read[s] <= wrote[s]

\* A session that was not spawned yet has neither output nor threads.
Unborn ==
  \A s \in Sessions : proc[s] = "absent" =>
    /\ tty[s] = {} /\ wrote[s] = 0 /\ read[s] = 0 /\ sent[s] = 0
    /\ reader[s] = "none" /\ forwarder[s] = "none"

\* The stages end one after the other, each with nothing left to pass on.
WindsDown ==
  rxOpen => \A s \in Sessions :
    /\ reader[s] = "done" => tty[s] = {} /\ read[s] = wrote[s]
    /\ forwarder[s] = "done" => reader[s] = "done" /\ sent[s] = read[s]

ExitMeansDone ==
  \A k \in DOMAIN bus : bus[k].kind = "Exit" => forwarder[bus[k].src] = "done"

ExitIsLast ==
  \A j, k \in DOMAIN bus : (bus[j].kind = "Exit" /\ bus[k].src = bus[j].src) => k <= j

\* What is on the bus goes to the pane its sender was started for.
Addressed ==
  \A k \in DOMAIN bus : proc[bus[k].src] # "absent" /\ bus[k].pane = pane[bus[k].src]

-----------------------------------------------------------------------------
(* How many elements of a sequence are in W *)

Count(q, W) == Cardinality({k \in DOMAIN q : q[k] \in W})

LEMMA CountIsNat ==
  ASSUME NEW S, NEW q \in Seq(S), NEW W
  PROVE  IsFiniteSet({k \in DOMAIN q : q[k] \in W}) /\ Count(q, W) \in Nat
<1>1. IsFiniteSet(1..Len(q)) /\ {k \in DOMAIN q : q[k] \in W} \subseteq 1..Len(q)
  BY FS_Interval
<1>2. QED
  BY <1>1, FS_Subset, FS_CardinalityType DEF Count

LEMMA CountAppend ==
  ASSUME NEW S, NEW q \in Seq(S), NEW u \in S, NEW W
  PROVE  Count(Append(q, u), W) = Count(q, W) + IF u \in W THEN 1 ELSE 0
<1> DEFINE before == {k \in DOMAIN q : q[k] \in W}
           n == Len(q) + 1
<1>1. /\ DOMAIN Append(q, u) = DOMAIN q \union {n} /\ n \notin DOMAIN q
      /\ Append(q, u)[n] = u /\ \A k \in DOMAIN q : Append(q, u)[k] = q[k]
  OBVIOUS
<1>2. {k \in DOMAIN Append(q, u) : Append(q, u)[k] \in W} = before \union IF u \in W THEN {n} ELSE {}
  BY <1>1
<1>3. IsFiniteSet(before) /\ n \notin before
  BY <1>1, CountIsNat
<1>4. Cardinality(before) \in Nat /\ Cardinality(before \union {n}) = Cardinality(before) + 1
  BY <1>3, FS_AddElement, FS_CardinalityType
<1>5. CASE u \in W
  BY <1>2, <1>4, <1>5 DEF Count
<1>6. CASE u \notin W
  <2>1. Count(Append(q, u), W) = Cardinality(before)
    BY <1>2, <1>6 DEF Count
  <2>2. Count(q, W) = Cardinality(before)
    BY DEF Count
  <2> HIDE DEF before
  <2>3. QED
    BY <1>4, <1>6, <2>1, <2>2
<1>7. QED
  BY <1>5, <1>6

LEMMA CountTail ==
  ASSUME NEW S, NEW q \in Seq(S), q # <<>>, NEW W
  PROVE  Count(q, W) = Count(Tail(q), W) + IF Head(q) \in W THEN 1 ELSE 0
<1> DEFINE all == {k \in DOMAIN q : q[k] \in W}
           later == all \ {1}
           after == {k \in DOMAIN Tail(q) : Tail(q)[k] \in W}
           up == [k \in after |-> k + 1]
<1>1. /\ Len(q) \in Nat \ {0} /\ DOMAIN q = 1..Len(q) /\ DOMAIN Tail(q) = 1..(Len(q) - 1)
      /\ Head(q) = q[1] /\ \A k \in 1..(Len(q) - 1) : Tail(q)[k] = q[k + 1]
  OBVIOUS
<1>2. IsFiniteSet(all) /\ IsFiniteSet(after) /\ Cardinality(after) \in Nat
  <2>1. Tail(q) \in Seq(S)
    OBVIOUS
  <2>2. QED
    BY <2>1, CountIsNat DEF Count
<1>3. up \in Bijection(after, later)
  <2>1. \A k \in after : k + 1 \in later
    BY <1>1
  <2>2. \A m \in later : m - 1 \in after /\ (m - 1) + 1 = m
    BY <1>1
  <2>3. up \in [after -> later] /\ \A j, k \in after : up[j] = up[k] => j = k
    BY <1>1, <2>1
  <2>4. \A m \in later : \E k \in after : up[k] = m
    BY <2>2
  <2>5. QED
    BY <2>3, <2>4 DEF Bijection, Injection, Surjection, IsInjective
<1>4. Cardinality(later) = Cardinality(after)
  BY <1>2, <1>3, FS_Bijection DEF ExistsBijection
<1>5. /\ 1 \in all => Cardinality(later) = Cardinality(all) - 1
      /\ 1 \notin all => Cardinality(later) = Cardinality(all)
  <2> HIDE DEF all
  <2>1. IsFiniteSet(all)
    BY <1>2
  <2>2. QED
    BY <2>1, FS_RemoveElement
<1>6. 1 \in all <=> Head(q) \in W
  BY <1>1
<1>7. Cardinality(all) \in Nat
  BY <1>2, FS_CardinalityType
<1>8. Count(q, W) = Cardinality(all) /\ Count(Tail(q), W) = Cardinality(after)
  BY DEF Count
<1> HIDE DEF all, later, after
<1>9. CASE Head(q) \in W
  BY <1>2, <1>4, <1>5, <1>6, <1>7, <1>8, <1>9
<1>10. CASE Head(q) \notin W
  BY <1>2, <1>4, <1>5, <1>6, <1>7, <1>8, <1>10
<1>11. QED
  BY <1>9, <1>10

-----------------------------------------------------------------------------
(* Types *)

\* Appending to a sequence keeps its type.
LEMMA AppendTyped ==
  ASSUME NEW T, NEW q \in Seq(T), NEW u \in T
  PROVE  Append(q, u) \in Seq(T)
  OBVIOUS

LEMMA TailTyped ==
  ASSUME NEW T, NEW q \in Seq(T), q # <<>>
  PROVE  Tail(q) \in Seq(T)
  OBVIOUS

\* Dropping sessions leaves well-typed children behind.
LEMMA DropTypes ==
  ASSUME NEW S \in SUBSET Sessions, PipeTypeOK, DropSessions(S)
  PROVE  /\ proc' \in [Sessions -> {"absent", "running", "exited", "killed"}]
         /\ code' \in [Sessions -> ExitCodes \cup {None}]
         /\ tty' \in [Sessions -> SUBSET Holders]
         /\ handle' \in [Sessions -> {"none", "held", "dropped"}]
  BY DEF PipeTypeOK, DropSessions, ExitCodes, Failure

\* Every step preserves the types, given that forwarders know their panes.
LEMMA NextTypes == PipeTypeOK /\ Attached /\ [PipeNext]_pipeVars => PipeTypeOK'
<1> SUFFICES ASSUME PipeTypeOK, Attached, [PipeNext]_pipeVars PROVE PipeTypeOK'
  OBVIOUS
<1> USE PipelineAssumption
<1>1. ASSUME NEW s \in Sessions, ChildWrites(s) PROVE PipeTypeOK'
  BY <1>1 DEF ChildWrites, PipeTypeOK, threadVars
<1>2. ASSUME NEW s \in Sessions, ChildForks(s) PROVE PipeTypeOK'
  BY <1>2 DEF ChildForks, PipeTypeOK, threadVars, Holders
<1>3. ASSUME NEW s \in Sessions, ChildClosesTty(s) PROVE PipeTypeOK'
  BY <1>3 DEF ChildClosesTty, PipeTypeOK, threadVars
<1>4. ASSUME NEW s \in Sessions, ChildExits(s) PROVE PipeTypeOK'
  BY <1>4 DEF ChildExits, PipeTypeOK, threadVars
<1>5. ASSUME NEW s \in Sessions, DescendantExits(s) PROVE PipeTypeOK'
  BY <1>5 DEF DescendantExits, PipeTypeOK, threadVars
<1>6. ASSUME NEW s \in Sessions, ReaderPump(s) PROVE PipeTypeOK'
  <2>1. read[s] \in 0..MaxChunks /\ wrote[s] \in 0..MaxChunks /\ read[s] < wrote[s]
    BY <1>6 DEF ReaderPump, PipeTypeOK
  <2>2. read[s] + 1 \in 0..MaxChunks
    BY <2>1
  <2>3. read' \in [Sessions -> 0..MaxChunks] /\ reader' \in [Sessions -> {"none", "reading", "done"}]
    BY <1>6, <2>2 DEF ReaderPump, PipeTypeOK
  <2>4. QED
    BY <1>6, <2>3 DEF ReaderPump, PipeTypeOK, childVars
<1>7. ASSUME NEW s \in Sessions, ReaderEof(s) PROVE PipeTypeOK'
  BY <1>7 DEF ReaderEof, PipeTypeOK, childVars
<1>8. ASSUME NEW s \in Sessions, Forward(s) PROVE PipeTypeOK'
  <2>1. sent[s] \in 0..MaxChunks /\ read[s] \in 0..MaxChunks /\ sent[s] < read[s]
    BY <1>8 DEF Forward, PipeTypeOK
  <2>2. sent[s] + 1 \in 0..MaxChunks
    BY <2>1
  <2>3. /\ sent' \in [Sessions -> 0..MaxChunks]
        /\ forwarder' \in [Sessions -> {"none", "pumping", "done"}]
    BY <1>8, <2>2 DEF Forward, PipeTypeOK
  <2>4. [kind |-> "Output", pane |-> pane[s], src |-> s] \in Update
    BY <1>8 DEF Forward, Attached, Update
  <2>5. bus' \in Seq(Update)
    <3>1. bus' = bus \/ bus' = Append(bus, [kind |-> "Output", pane |-> pane[s], src |-> s])
      BY <1>8 DEF Forward
    <3>2. bus \in Seq(Update)
      BY DEF PipeTypeOK
    <3>3. Append(bus, [kind |-> "Output", pane |-> pane[s], src |-> s]) \in Seq(Update)
      BY <2>4, <3>2, AppendTyped
    <3>4. QED
      BY <3>1, <3>2, <3>3
  <2>6. UNCHANGED <<childVars, handle, read, reader, pane, rxOpen>>
    BY <1>8 DEF Forward
  <2>7. QED
    BY <2>3, <2>5, <2>6 DEF PipeTypeOK, childVars
<1>9. ASSUME NEW s \in Sessions, ForwardExit(s) PROVE PipeTypeOK'
  <2>1. [kind |-> "Exit", pane |-> pane[s], src |-> s] \in Update
    BY <1>9 DEF ForwardExit, Attached, Update
  <2>2. bus' \in Seq(Update)
    BY <1>9, <2>1 DEF ForwardExit, PipeTypeOK
  <2>3. QED
    BY <1>9, <2>2 DEF ForwardExit, PipeTypeOK, childVars
<1>10. ASSUME NEW s \in Sessions, NEW p \in PaneIds, SpawnSession(s, p), UNCHANGED <<bus, rxOpen>>
       PROVE  PipeTypeOK'
  BY <1>10 DEF SpawnSession, PipeTypeOK, Holders
<1>11. ASSUME NEW s \in Sessions, DropSessions({s}), UNCHANGED rxOpen,
              UNCHANGED bus \/ (bus # <<>> /\ bus' = Tail(bus))
       PROVE  PipeTypeOK'
  <2>1. UNCHANGED <<wrote, threadVars, pane, rxOpen>>
    BY <1>11 DEF DropSessions
  <2>2. bus' \in Seq(Update)
    <3>1. bus \in Seq(Update)
      BY DEF PipeTypeOK
    <3>2. CASE bus' = bus
      BY <3>1, <3>2
    <3>3. CASE bus # <<>> /\ bus' = Tail(bus)
      BY <3>1, <3>3, TailTyped
    <3>4. QED
      BY <1>11, <3>2, <3>3
  <2>3. QED
    BY <1>11, <2>1, <2>2, DropTypes DEF PipeTypeOK, threadVars
<1>12. CASE OwnerConsumes
  <2>1. bus' \in Seq(Update)
    BY <1>12 DEF OwnerConsumes, PipeTypeOK
  <2>2. UNCHANGED <<childVars, handle, threadVars, pane, rxOpen>>
    BY <1>12 DEF OwnerConsumes
  <2>3. QED
    BY <2>1, <2>2 DEF PipeTypeOK, childVars, threadVars
<1>13. CASE OwnerLeaves
  BY <1>13 DEF OwnerLeaves, PipeTypeOK, childVars, threadVars
<1>14. CASE UNCHANGED pipeVars
  BY <1>14 DEF pipeVars, PipeTypeOK
<1>15. QED
  BY <1>1, <1>2, <1>3, <1>4, <1>5, <1>6, <1>7, <1>8, <1>9, <1>10, <1>11, <1>12, <1>13, <1>14
  DEF PipeNext, ChildNext, ThreadNext, OwnerNext, OwnerSpawns, OwnerDrops

\* A forwarder starts with its pane and never changes it.
LEMMA NextAttached == PipeTypeOK /\ Attached /\ [PipeNext]_pipeVars => Attached'
<1> SUFFICES ASSUME PipeTypeOK, Attached, [PipeNext]_pipeVars PROVE Attached'
  OBVIOUS
<1>1. CASE UNCHANGED <<forwarder, pane>>
  BY <1>1 DEF Attached
<1>2. ASSUME NEW s \in Sessions, Forward(s) \/ ForwardExit(s) PROVE Attached'
  BY <1>2 DEF Forward, ForwardExit, Attached, PipeTypeOK
<1>3. ASSUME NEW s \in Sessions, NEW p \in PaneIds, SpawnSession(s, p) PROVE Attached'
  BY <1>3 DEF SpawnSession, Attached, PipeTypeOK
<1>4. QED
  BY <1>1, <1>2, <1>3
  DEF PipeNext, ChildNext, ThreadNext, OwnerNext, OwnerSpawns, OwnerDrops, OwnerConsumes,
      OwnerLeaves, ChildWrites, ChildForks, ChildClosesTty, ChildExits, DescendantExits,
      ReaderPump, ReaderEof, DropSessions, threadVars, pipeVars

-----------------------------------------------------------------------------
(* Winding down *)

Winding == Counted /\ Unborn /\ WindsDown

\* Every step keeps the order in which a session winds down.
LEMMA NextWinding == PipeTypeOK /\ Winding /\ [PipeNext]_pipeVars => Winding'
<1> SUFFICES ASSUME PipeTypeOK, Winding, [PipeNext]_pipeVars PROVE Winding'
  OBVIOUS
<1> USE PipelineAssumption DEF Winding, Counted, Unborn, WindsDown
<1>1. ASSUME NEW s \in Sessions, ChildWrites(s) PROVE Winding'
  BY <1>1 DEF ChildWrites, PipeTypeOK, threadVars
<1>2. ASSUME NEW s \in Sessions, ChildForks(s) PROVE Winding'
  BY <1>2 DEF ChildForks, PipeTypeOK, threadVars
<1>3. ASSUME NEW s \in Sessions, ChildClosesTty(s) \/ ChildExits(s) \/ DescendantExits(s) PROVE Winding'
  <2>1. UNCHANGED <<wrote, threadVars, rxOpen>>
    BY <1>3 DEF ChildClosesTty, ChildExits, DescendantExits
  <2>2. \A r \in Sessions : proc'[r] = "absent" => proc[r] = "absent"
    <3>1. CASE proc' = proc
      BY <3>1
    <3>2. CASE proc' = [proc EXCEPT ![s] = "exited"]
      BY <3>2 DEF PipeTypeOK
    <3>3. QED
      BY <1>3, <3>1, <3>2 DEF ChildClosesTty, ChildExits, DescendantExits
  <2>3. \A r \in Sessions : tty'[r] \subseteq tty[r]
    <3>1. \E h \in Holders : tty' = [tty EXCEPT ![s] = tty[s] \ {h}]
      BY <1>3 DEF ChildClosesTty, ChildExits, DescendantExits, Holders
    <3>2. QED
      BY <3>1 DEF PipeTypeOK
  <2>4. QED
    BY <2>1, <2>2, <2>3 DEF threadVars
<1>4. ASSUME NEW s \in Sessions, ReaderPump(s) PROVE Winding'
  <2>1. /\ proc' = proc /\ tty' = tty /\ wrote' = wrote /\ sent' = sent
        /\ forwarder' = forwarder /\ rxOpen' = rxOpen /\ reader[s] = "reading"
    BY <1>4 DEF ReaderPump, childVars
  <2>2. CASE forwarder[s] = "done"
    <3>1. read' = read /\ reader' = [reader EXCEPT ![s] = "done"]
      BY <1>4, <2>2 DEF ReaderPump
    <3>2. ~rxOpen
      BY <2>1, <2>2
    <3>3. QED
      BY <2>1, <3>1, <3>2 DEF PipeTypeOK
  <2>3. CASE forwarder[s] # "done"
    <3>1. read' = [read EXCEPT ![s] = @ + 1] /\ reader' = reader /\ read[s] < wrote[s]
      BY <1>4, <2>3 DEF ReaderPump
    <3>2. Counted'
      BY <2>1, <3>1 DEF PipeTypeOK
    <3>3. Unborn' /\ WindsDown'
      BY <2>1, <2>3, <3>1 DEF PipeTypeOK
    <3>4. QED
      BY <3>2, <3>3
  <2>4. QED
    BY <2>2, <2>3
<1>5. ASSUME NEW s \in Sessions, ReaderEof(s) PROVE Winding'
  BY <1>5 DEF ReaderEof, PipeTypeOK, childVars
<1>6. ASSUME NEW s \in Sessions, Forward(s) PROVE Winding'
  <2>1. /\ proc' = proc /\ tty' = tty /\ wrote' = wrote /\ read' = read
        /\ reader' = reader /\ rxOpen' = rxOpen /\ forwarder[s] = "pumping"
    BY <1>6 DEF Forward, childVars
  <2>2. CASE rxOpen
    <3>1. sent' = [sent EXCEPT ![s] = @ + 1] /\ forwarder' = forwarder /\ sent[s] < read[s]
      BY <1>6, <2>2 DEF Forward
    <3>2. Counted'
      BY <2>1, <3>1 DEF PipeTypeOK
    <3>3. Unborn' /\ WindsDown'
      BY <2>1, <3>1 DEF PipeTypeOK
    <3>4. QED
      BY <3>2, <3>3
  <2>3. CASE ~rxOpen
    <3>1. sent' = sent /\ forwarder' = [forwarder EXCEPT ![s] = "done"]
      BY <1>6, <2>3 DEF Forward
    <3>2. QED
      BY <2>1, <2>3, <3>1 DEF PipeTypeOK
  <2>4. QED
    BY <2>2, <2>3
<1>7. ASSUME NEW s \in Sessions, ForwardExit(s) PROVE Winding'
  BY <1>7 DEF ForwardExit, PipeTypeOK, childVars
<1>8. ASSUME NEW s \in Sessions, NEW p \in PaneIds, SpawnSession(s, p), UNCHANGED <<bus, rxOpen>>
      PROVE  Winding'
  BY <1>8 DEF SpawnSession, PipeTypeOK
<1>9. ASSUME NEW s \in Sessions, DropSessions({s}), UNCHANGED rxOpen
      PROVE  Winding'
  BY <1>9 DEF DropSessions, PipeTypeOK, threadVars
<1>10. CASE OwnerConsumes \/ OwnerLeaves \/ UNCHANGED pipeVars
  BY <1>10 DEF OwnerConsumes, OwnerLeaves, pipeVars, childVars, threadVars
<1>11. QED
  BY <1>1, <1>2, <1>3, <1>4, <1>5, <1>6, <1>7, <1>8, <1>9, <1>10
  DEF PipeNext, ChildNext, ThreadNext, OwnerNext, OwnerSpawns, OwnerDrops

-----------------------------------------------------------------------------
(* The bus *)

\* What a step may do to the bus: nothing, take the oldest update off, or append one
\* from a forwarder at work, which ends with it if it is an Exit.
LEMMA BusStep ==
  ASSUME PipeTypeOK, Unborn, [PipeNext]_pipeVars
  PROVE  /\ \A s \in Sessions : forwarder[s] = "done" => forwarder'[s] = "done"
         /\ \/ bus' = bus
            \/ bus # <<>> /\ bus' = Tail(bus)
            \/ \E u \in [kind : {"Output", "Exit"}, pane : PaneIds \cup {None}, src : Sessions] :
                 /\ bus' = Append(bus, u)
                 /\ forwarder[u.src] = "pumping" /\ u.pane = pane[u.src]
                 /\ u.kind = "Exit" => forwarder'[u.src] = "done"
<1> DEFINE Appends(u) == /\ bus' = Append(bus, u)
                         /\ forwarder[u.src] = "pumping" /\ u.pane = pane[u.src]
                         /\ u.kind = "Exit" => forwarder'[u.src] = "done"
           Kept == \A s \in Sessions : forwarder[s] = "done" => forwarder'[s] = "done"
           Updates == [kind : {"Output", "Exit"}, pane : PaneIds \cup {None}, src : Sessions]
<1>1. CASE UNCHANGED <<bus, forwarder>>
  BY <1>1
<1>2. ASSUME NEW s \in Sessions, Forward(s)
      PROVE  Kept /\ (bus' = bus \/ \E u \in Updates : Appends(u))
  <2>1. [kind |-> "Output", pane |-> pane[s], src |-> s] \in Updates
    BY DEF PipeTypeOK
  <2>2. Kept
    BY <1>2 DEF Forward, PipeTypeOK
  <2>3. bus' = bus \/ Appends([kind |-> "Output", pane |-> pane[s], src |-> s])
    BY <1>2 DEF Forward
  <2>4. QED
    BY <2>1, <2>2, <2>3
<1>3. ASSUME NEW s \in Sessions, ForwardExit(s)
      PROVE  Kept /\ (bus' = bus \/ \E u \in Updates : Appends(u))
  <2>1. [kind |-> "Exit", pane |-> pane[s], src |-> s] \in Updates
    BY DEF PipeTypeOK
  <2>2. forwarder' = [forwarder EXCEPT ![s] = "done"] /\ forwarder[s] = "pumping"
    BY <1>3 DEF ForwardExit
  <2>3. Kept /\ forwarder'[s] = "done"
    BY <2>2 DEF PipeTypeOK
  <2>4. bus' = bus \/ Appends([kind |-> "Exit", pane |-> pane[s], src |-> s])
    BY <1>3, <2>2, <2>3 DEF ForwardExit
  <2>5. QED
    BY <2>1, <2>3, <2>4
<1>4. ASSUME NEW s \in Sessions, NEW p \in PaneIds, SpawnSession(s, p), UNCHANGED <<bus, rxOpen>>
      PROVE  Kept /\ bus' = bus
  <2>1. forwarder[s] = "none" /\ forwarder' = [forwarder EXCEPT ![s] = "pumping"]
    BY <1>4 DEF SpawnSession, Unborn
  <2>2. QED
    BY <1>4, <2>1 DEF PipeTypeOK
<1>5. CASE OwnerConsumes \/ OwnerDrops
  BY <1>5 DEF OwnerConsumes, OwnerDrops, DropSessions, threadVars
<1>6. QED
  BY <1>1, <1>2, <1>3, <1>4, <1>5
  DEF PipeNext, ChildNext, ThreadNext, OwnerNext, OwnerSpawns,
      OwnerLeaves, ChildWrites, ChildForks, ChildClosesTty, ChildExits, DescendantExits,
      ReaderPump, ReaderEof, threadVars, pipeVars

\* So an Exit on the bus remains the last word of a forwarder that has ended.
LEMMA NextLastWord ==
  PipeTypeOK /\ Unborn /\ ExitMeansDone /\ ExitIsLast /\ [PipeNext]_pipeVars
    => (ExitMeansDone /\ ExitIsLast)'
<1> SUFFICES ASSUME PipeTypeOK, Unborn, ExitMeansDone, ExitIsLast, [PipeNext]_pipeVars
             PROVE  (ExitMeansDone /\ ExitIsLast)'
  OBVIOUS
<1>1. \A s \in Sessions : forwarder[s] = "done" => forwarder'[s] = "done"
  BY BusStep
<1>2. bus \in Seq(Update) /\ \A k \in DOMAIN bus : bus[k].src \in Sessions
  <2>1. bus \in Seq(Update)
    BY DEF PipeTypeOK
  <2>2. \A k \in DOMAIN bus : bus[k] \in Update
    BY <2>1
  <2>3. QED
    BY <2>1, <2>2 DEF Update
<1>3. CASE bus' = bus
  BY <1>1, <1>2, <1>3 DEF ExitMeansDone, ExitIsLast
<1>4. CASE bus # <<>> /\ bus' = Tail(bus)
  <2>1. /\ \A k \in DOMAIN bus' : k \in Nat /\ k + 1 \in DOMAIN bus /\ bus'[k] = bus[k + 1]
    BY <1>2, <1>4
  <2>2. ExitMeansDone'
    BY <1>1, <1>2, <2>1 DEF ExitMeansDone
  <2>3. ExitIsLast'
    BY <2>1 DEF ExitIsLast
  <2>4. QED
    BY <2>2, <2>3
<1>5. ASSUME NEW u \in [kind : {"Output", "Exit"}, pane : PaneIds \cup {None}, src : Sessions],
             bus' = Append(bus, u), forwarder[u.src] = "pumping",
             u.kind = "Exit" => forwarder'[u.src] = "done"
      PROVE  (ExitMeansDone /\ ExitIsLast)'
  <2>1. /\ DOMAIN bus = 1..Len(bus) /\ Len(bus) \in Nat
        /\ DOMAIN bus' = 1..(Len(bus) + 1)
        /\ \A k \in DOMAIN bus : bus'[k] = bus[k]
        /\ bus'[Len(bus) + 1] = u
    BY <1>2, <1>5
  <2>2. ExitMeansDone'
    <3> SUFFICES ASSUME NEW k \in DOMAIN bus', bus'[k].kind = "Exit"
                 PROVE  forwarder'[bus'[k].src] = "done"
      BY DEF ExitMeansDone
    <3>1. CASE k \in DOMAIN bus
      BY <1>1, <1>2, <2>1, <3>1 DEF ExitMeansDone
    <3>2. CASE k = Len(bus) + 1
      BY <1>5, <2>1, <3>2
    <3>3. QED
      BY <2>1, <3>1, <3>2
  <2>3. \A j \in DOMAIN bus : bus[j].kind = "Exit" => bus[j].src # u.src
    BY <1>5 DEF ExitMeansDone
  <2>4. ExitIsLast'
    <3> SUFFICES ASSUME NEW j \in DOMAIN bus', NEW k \in DOMAIN bus',
                        bus'[j].kind = "Exit", bus'[k].src = bus'[j].src
                 PROVE  k <= j
      BY DEF ExitIsLast
    <3>1. CASE j = Len(bus) + 1
      BY <2>1, <3>1
    <3>2. CASE j \in DOMAIN bus /\ k = Len(bus) + 1
      BY <2>1, <2>3, <3>2
    <3>3. CASE j \in DOMAIN bus /\ k \in DOMAIN bus
      BY <2>1, <3>3 DEF ExitIsLast
    <3>4. QED
      BY <2>1, <3>1, <3>2, <3>3
  <2>5. QED
    BY <2>2, <2>4
<1>6. QED
  BY <1>3, <1>4, <1>5, BusStep

\* A session keeps the pane it was spawned for, so its updates stay addressed to it.
LEMMA NextAddressed == PipeTypeOK /\ Unborn /\ Addressed /\ [PipeNext]_pipeVars => Addressed'
<1> SUFFICES ASSUME PipeTypeOK, Unborn, Addressed, [PipeNext]_pipeVars PROVE Addressed'
  OBVIOUS
<1>1. \A s \in Sessions : proc[s] # "absent" => proc'[s] # "absent" /\ pane'[s] = pane[s]
  <2>1. CASE UNCHANGED <<proc, pane>>
    BY <2>1
  <2>2. ASSUME NEW s \in Sessions, ChildExits(s)
        PROVE  \A r \in Sessions : proc[r] # "absent" => proc'[r] # "absent" /\ pane'[r] = pane[r]
    BY <2>2 DEF ChildExits, PipeTypeOK
  <2>3. ASSUME NEW s \in Sessions, NEW p \in PaneIds, SpawnSession(s, p)
        PROVE  \A r \in Sessions : proc[r] # "absent" => proc'[r] # "absent" /\ pane'[r] = pane[r]
    BY <2>3 DEF SpawnSession, PipeTypeOK
  <2>4. ASSUME NEW s \in Sessions, DropSessions({s})
        PROVE  \A r \in Sessions : proc[r] # "absent" => proc'[r] # "absent" /\ pane'[r] = pane[r]
    BY <2>4 DEF DropSessions
  <2>5. QED
    BY <2>1, <2>2, <2>3, <2>4
    DEF PipeNext, ChildNext, ThreadNext, OwnerNext, OwnerSpawns, OwnerDrops, OwnerConsumes,
        OwnerLeaves, ChildWrites, ChildForks, ChildClosesTty, DescendantExits,
        ReaderPump, ReaderEof, Forward, ForwardExit, childVars, pipeVars
<1>2. bus \in Seq(Update) /\ \A k \in DOMAIN bus : bus[k].src \in Sessions
  <2>1. bus \in Seq(Update)
    BY DEF PipeTypeOK
  <2>2. \A k \in DOMAIN bus : bus[k] \in Update
    BY <2>1
  <2>3. QED
    BY <2>1, <2>2 DEF Update
<1>3. CASE bus' = bus
  BY <1>1, <1>2, <1>3 DEF Addressed
<1>4. CASE bus # <<>> /\ bus' = Tail(bus)
  <2>1. \A k \in DOMAIN bus' : k + 1 \in DOMAIN bus /\ bus'[k] = bus[k + 1]
    BY <1>2, <1>4
  <2>2. QED
    BY <1>1, <1>2, <2>1 DEF Addressed
<1>5. ASSUME NEW u \in [kind : {"Output", "Exit"}, pane : PaneIds \cup {None}, src : Sessions],
             bus' = Append(bus, u), forwarder[u.src] = "pumping", u.pane = pane[u.src]
      PROVE  Addressed'
  <2>1. \A k \in DOMAIN bus' : (k \in DOMAIN bus /\ bus'[k] = bus[k]) \/ bus'[k] = u
    BY <1>2, <1>5
  <2>2. u.src \in Sessions /\ proc[u.src] # "absent"
    BY <1>5 DEF Unborn
  <2>3. QED
    BY <1>1, <1>2, <1>5, <2>1, <2>2 DEF Addressed
<1>6. QED
  BY <1>3, <1>4, <1>5, BusStep

\* All of it, for whoever owns the pipeline.
PipeInv == PipeTypeOK /\ Attached /\ Winding /\ ExitMeansDone /\ ExitIsLast /\ Addressed

LEMMA PipeInitially == PipeInit => PipeInv
BY PipelineAssumption
DEF PipeInit, PipeInv, PipeTypeOK, Attached, Winding, Counted, Unborn, WindsDown, ExitMeansDone, ExitIsLast, Addressed

LEMMA PipeStep == PipeInv /\ [PipeNext]_pipeVars => PipeInv'
BY NextTypes, NextAttached, NextWinding, NextLastWord, NextAddressed DEF PipeInv, Winding

LEMMA PipeAlways == PipeSpec => []PipeInv
BY PipeInitially, PipeStep, PTL DEF PipeSpec

\* The pipeline is well typed in every reachable state; in particular no update goes
\* onto the bus without a pane to go to.
THEOREM PipeTypeCorrect == PipeSpec => [](PipeTypeOK /\ Attached)
<1>1. PipeInv => PipeTypeOK /\ Attached
  BY DEF PipeInv
<1>2. QED
  BY <1>1, PipeAlways, PTL

\* Whatever the number of sessions and the amount of output, and wherever threads,
\* children and owner are: the interface has been sent everything before the Exit, and
\* nothing after it.
THEOREM StreamIsWhole == PipeSpec => []StreamWholeThenExit
<1>1. PipeInv => StreamWholeThenExit
  BY DEF PipeInv, Winding, WindsDown, ExitIsLast, StreamWholeThenExit
<1>2. QED
  BY <1>1, PipeAlways, PTL

-----------------------------------------------------------------------------
(* The program: its vectors and its children *)


Ending == {"teardown", "stopped"}
Places == 1..Len(panes)
PaneRecord == [id : PaneIds, state : AgentState]
ProcStates == {"absent", "running", "exited", "killed"}
HandleStates == {"none", "held", "dropped"}

\* q is a sequence, whatever is in it.
Listed(q) == q = [i \in 1..Len(q) |-> q[i]] /\ Len(q) \in Nat

Vectors ==
  /\ panes \in Seq(PaneRecord)
  /\ sessions \in Seq(Sessions \union {None}) /\ Len(sessions) = Len(panes)
  /\ Listed(pane_task) /\ Len(pane_task) = Len(panes)
  /\ Listed(reconnect) /\ Len(reconnect) = Len(panes)
  /\ Listed(reconnect_due) /\ Len(reconnect_due) = Len(panes)
  /\ next_pane_id \in Nat

Processes ==
  /\ proc \in [Sessions -> ProcStates]
  /\ handle \in [Sessions -> HandleStates]
  /\ pane = [s \in Sessions |-> pane[s]]

\* Ids increase along the vector and new ones are larger.
Increasing ==
  \A i \in Places : /\ panes[i].id < next_pane_id
                    /\ \A j \in Places : i < j => panes[i].id < panes[j].id

Wired == \A i \in Places : sessions[i] # None => pane[sessions[i]] = panes[i].id

\* A session that is held is in a slot, and the other way round; no child runs
\* that is not held, and a session not used yet is in nobody's hands.
Owned ==
  \A s \in Sessions :
    /\ handle[s] = "held" <=> \E i \in Places : sessions[i] = s
    /\ proc[s] = "running" => handle[s] = "held"
    /\ proc[s] = "absent" => handle[s] = "none"

\* A respawn finds the slot empty.
DueIsEmpty == \A i \in Places : reconnect_due[i] # None => sessions[i] = None

NoneEligible == ~Reconnecting => \A i \in Places : reconnect[i] = None

GridInv == Vectors /\ Processes /\ Increasing /\ Wired /\ Owned /\ DueIsEmpty /\ NoneEligible

Manned == pc \notin Ending => \A i \in Places : panes[i].state = "Running" <=> sessions[i] # None

ReapedHere == pc = "reaped" => reaped \subseteq Places

AppInv == GridInv /\ Manned /\ ReapedHere

\* Of a step: it leaves the verdicts alone.
VerdictsStay ==
  ~Reconnecting =>
    \A i \in 1..Len(panes), j \in 1..Len(panes') :
      (panes[i].state # "Running" /\ panes'[j].id = panes[i].id) => panes'[j].state = panes[i].state

\* What each step has to keep.
Kept == GridInv' /\ Manned' /\ VerdictsStay

-----------------------------------------------------------------------------
(* Sequences *)

LEMMA SeqIsListed ==
  ASSUME NEW S, NEW q \in Seq(S)
  PROVE  Listed(q)
  BY DEF Listed

LEMMA MappedIsListed ==
  ASSUME NEW n \in Nat, NEW f, f = [i \in 1..n |-> f[i]]
  PROVE  Listed(f) /\ Len(f) = n
<1>1. f \in Seq({f[i] : i \in 1..n})
  OBVIOUS
<1>2. Len(f) = n
  BY <1>1
<1> QED
  BY <1>2 DEF Listed

LEMMA ListedUpdate ==
  ASSUME NEW q, Listed(q), NEW n, NEW e
  PROVE  /\ Listed([q EXCEPT ![n] = e]) /\ Len([q EXCEPT ![n] = e]) = Len(q)
         /\ \A i \in 1..Len(q) : [q EXCEPT ![n] = e][i] = IF i = n THEN e ELSE q[i]
<1> DEFINE r == [q EXCEPT ![n] = e]
<1>1. r = [i \in 1..Len(q) |-> IF i = n THEN e ELSE q[i]] /\ Len(q) \in Nat
  BY DEF Listed
<1>2. \A i \in 1..Len(q) : r[i] = IF i = n THEN e ELSE q[i]
  BY <1>1
<1>3. r = [i \in 1..Len(q) |-> r[i]]
  BY <1>1
<1> HIDE DEF r
<1>4. Listed(r) /\ Len(r) = Len(q)
  BY <1>1, <1>3, MappedIsListed
<1> QED
  BY <1>2, <1>4 DEF r

LEMMA AppendToListed ==
  ASSUME NEW q, Listed(q), NEW e
  PROVE  /\ Listed(Append(q, e)) /\ Len(Append(q, e)) = Len(q) + 1
         /\ \A i \in 1..Len(q) : Append(q, e)[i] = q[i]
         /\ Append(q, e)[Len(q) + 1] = e
<1> DEFINE S == {q[i] : i \in 1..Len(q)} \union {e}
<1>1. q \in Seq(S) /\ e \in S
  BY DEF Listed
<1> HIDE DEF S
<1>2. /\ Append(q, e) \in Seq(S) /\ Len(Append(q, e)) = Len(q) + 1
      /\ \A i \in 1..Len(q) : Append(q, e)[i] = q[i]
      /\ Append(q, e)[Len(q) + 1] = e
  BY <1>1, AppendProperties
<1> QED
  BY <1>2, SeqIsListed

\* Position n taken out: those behind it move up by one.
LEMMA RemoveFromSeq ==
  ASSUME NEW S, NEW q \in Seq(S), NEW n \in 1..Len(q)
  PROVE  /\ RemoveAt(q, n) \in Seq(S) /\ Len(RemoveAt(q, n)) = Len(q) - 1
         /\ \A i \in 1..(Len(q) - 1) : RemoveAt(q, n)[i] = IF i < n THEN q[i] ELSE q[i + 1]
<1> DEFINE before == SubSeq(q, 1, n - 1)
           after == SubSeq(q, n + 1, Len(q))
<1>1. Len(q) \in Nat
  OBVIOUS
<1>2. before \in Seq(S) /\ Len(before) = n - 1 /\ \A i \in 1..(n - 1) : before[i] = q[i]
  BY <1>1, SubSeqProperties
<1>3. after \in Seq(S) /\ Len(after) = Len(q) - n /\ \A i \in 1..(Len(q) - n) : after[i] = q[n + i]
  BY <1>1, SubSeqProperties
<1> HIDE DEF before, after
<1>4. /\ before \o after \in Seq(S) /\ Len(before \o after) = Len(before) + Len(after)
      /\ \A i \in 1..(Len(before) + Len(after)) :
           (before \o after)[i] = IF i <= Len(before) THEN before[i] ELSE after[i - Len(before)]
  BY <1>2, <1>3, ConcatProperties
<1>5. Len(before) + Len(after) = Len(q) - 1
  BY <1>1, <1>2, <1>3
<1>6. \A i \in 1..(Len(q) - 1) : (before \o after)[i] = IF i < n THEN q[i] ELSE q[i + 1]
  BY <1>1, <1>2, <1>3, <1>4, <1>5
<1>7. RemoveAt(q, n) = before \o after
  BY DEF RemoveAt, before, after
<1> QED
  BY <1>4, <1>5, <1>6, <1>7

LEMMA RemoveFromListed ==
  ASSUME NEW q, Listed(q), NEW n \in 1..Len(q)
  PROVE  /\ Listed(RemoveAt(q, n)) /\ Len(RemoveAt(q, n)) = Len(q) - 1
         /\ \A i \in 1..(Len(q) - 1) : RemoveAt(q, n)[i] = IF i < n THEN q[i] ELSE q[i + 1]
<1> DEFINE S == {q[i] : i \in 1..Len(q)}
<1>1. q \in Seq(S)
  BY DEF Listed
<1> HIDE DEF S
<1> QED
  BY <1>1, RemoveFromSeq, SeqIsListed

-----------------------------------------------------------------------------
(* What the invariant says *)

LEMMA IdsAreNumbers == PaneIds \subseteq Nat /\ Sessions \subseteq Nat /\ None \notin Nat /\ None \notin Sessions
<1>1. Cardinality(PaneIds) \in Nat /\ Cardinality(Sessions) \in Nat
  BY AppAssumption, FS_CardinalityType
<1> QED
  BY <1>1, AppAssumption

LEMMA Facts ==
  ASSUME GridInv
  PROVE  /\ Len(panes) \in Nat /\ Places = DOMAIN panes /\ Positions = Places
         /\ \A i \in Places : panes[i] \in PaneRecord /\ panes[i].id \in PaneIds /\ panes[i].id \in Nat
         /\ \A i \in Places : sessions[i] \in Sessions \union {None}
         /\ None \notin Sessions
<1>1. panes \in Seq(PaneRecord) /\ sessions \in Seq(Sessions \union {None}) /\ Len(sessions) = Len(panes)
  BY DEF GridInv, Vectors
<1>2. Len(panes) \in Nat /\ Places = DOMAIN panes /\ Positions = Places
  BY <1>1 DEF Places, Positions
<1>3. \A i \in Places : panes[i] \in PaneRecord
  BY <1>1 DEF Places
<1>4. \A i \in Places : sessions[i] \in Sessions \union {None}
  BY <1>1 DEF Places
<1>5. PaneIds \subseteq Nat /\ None \notin Sessions
  BY IdsAreNumbers
<1> QED
  BY <1>2, <1>3, <1>4, <1>5 DEF PaneRecord

\* No two panes have the same id, and no two slots the same session.
LEMMA OneOfEach ==
  ASSUME GridInv
  PROVE  /\ \A i, j \in Places : panes[i].id = panes[j].id => i = j
         /\ \A i, j \in Places : (sessions[i] # None /\ sessions[i] = sessions[j]) => i = j
<1>1. \A i, j \in Places : panes[i].id = panes[j].id => i = j
  BY Facts DEF GridInv, Increasing, Places
<1> QED
  BY <1>1 DEF GridInv, Wired

\* A slot's session is dropped.
LEMMA DropFacts ==
  ASSUME GridInv, NEW n \in Places, DropSessions({sessions[n]} \ {None})
  PROVE  /\ Processes' /\ UNCHANGED pane
         /\ \A s \in Sessions : handle'[s] = IF s = sessions[n] THEN "dropped" ELSE handle[s]
         /\ \A s \in Sessions : proc'[s] = "running" => proc[s] = "running" /\ s # sessions[n]
         /\ \A s \in Sessions : proc'[s] = "absent" => proc[s] = "absent"
<1>1. Processes /\ sessions[n] \in Sessions \union {None} /\ None \notin Sessions
  BY Facts DEF GridInv
<1> QED
  BY <1>1 DEF DropSessions, Processes, ProcStates, HandleStates

-----------------------------------------------------------------------------
(* Steps that leave the grid as it is *)

\* Processes may end.
Quiet ==
  /\ UNCHANGED <<panes, sessions, pane_task, reconnect, next_pane_id, handle, pane>>
  /\ proc' \in [Sessions -> ProcStates]
  /\ \A s \in Sessions : /\ proc'[s] = "running" => proc[s] = "running"
                         /\ proc'[s] = "absent" => proc[s] = "absent"
  /\ Listed(reconnect_due') /\ Len(reconnect_due') = Len(reconnect_due)
  /\ \A i \in Places : reconnect_due'[i] # None => reconnect_due[i] # None

StaysOrEnds == pc' \notin Ending => pc \notin Ending

LEMMA QuietKeeps ==
  ASSUME GridInv, Manned, Quiet, StaysOrEnds
  PROVE  Kept
<1>1. Vectors' /\ Processes'
  BY DEF Quiet, GridInv, Vectors, Processes
<1>2. Increasing' /\ Wired' /\ Owned'
  BY DEF Quiet, GridInv, Increasing, Wired, Owned, Places
<1>3. DueIsEmpty' /\ NoneEligible' /\ Manned'
  BY DEF Quiet, GridInv, DueIsEmpty, NoneEligible, Manned, StaysOrEnds, Places
<1>4. VerdictsStay
  <2>1. panes' = panes
    BY DEF Quiet
  <2> QED
    BY <2>1, OneOfEach DEF VerdictsStay, Places
<1> QED
  BY <1>1, <1>2, <1>3, <1>4 DEF Kept, GridInv

-----------------------------------------------------------------------------
(* A session ends *)

Ended(n) ==
  /\ TakeSession(n)
  /\ UNCHANGED <<pane_task, next_pane_id>>
  /\ panes' \in Seq(PaneRecord) /\ Len(panes') = Len(panes)
  /\ \A i \in Places : panes'[i].id = panes[i].id
  /\ \A i \in Places \ {n} : panes'[i] = panes[i]
  /\ pc' \notin Ending => panes'[n].state # "Running"
  /\ ~Reconnecting /\ panes[n].state # "Running" => panes'[n].state = panes[n].state
  /\ Listed(reconnect') /\ Len(reconnect') = Len(reconnect)
  /\ ~Reconnecting => UNCHANGED reconnect
  /\ Listed(reconnect_due') /\ Len(reconnect_due') = Len(reconnect_due)
  /\ \A i \in Places \ {n} : reconnect_due'[i] = reconnect_due[i]

LEMMA EndedKeeps ==
  ASSUME GridInv, Manned, NEW n \in Places, Ended(n), StaysOrEnds
  PROVE  Kept
<1>1. /\ sessions' \in Seq(Sessions \union {None}) /\ Len(sessions') = Len(sessions)
      /\ \A i \in Places : sessions'[i] = IF i = n THEN None ELSE sessions[i]
  BY Facts DEF GridInv, Vectors, Ended, TakeSession, Places
<1>2. /\ Processes' /\ UNCHANGED pane
      /\ \A s \in Sessions : handle'[s] = IF s = sessions[n] THEN "dropped" ELSE handle[s]
      /\ \A s \in Sessions : proc'[s] = "running" => proc[s] = "running" /\ s # sessions[n]
      /\ \A s \in Sessions : proc'[s] = "absent" => proc[s] = "absent"
  BY DropFacts DEF Ended, TakeSession
<1>3. Places' = Places /\ UNCHANGED next_pane_id
  BY DEF Ended, Places
<1>4. Vectors'
  BY <1>1, <1>3 DEF GridInv, Vectors, Ended
<1>5. Increasing'
  BY <1>3 DEF GridInv, Increasing, Ended
<1>6. Wired'
  BY <1>1, <1>2, <1>3 DEF GridInv, Wired, Ended
<1>7. Owned'
  <2> SUFFICES ASSUME NEW s \in Sessions
               PROVE  /\ handle'[s] = "held" <=> \E i \in Places : sessions'[i] = s
                      /\ proc'[s] = "running" => handle'[s] = "held"
                      /\ proc'[s] = "absent" => handle'[s] = "none"
    BY <1>3 DEF Owned
  <2>1. None \notin Sessions
    BY IdsAreNumbers
  <2>2. /\ handle[s] = "held" <=> \E i \in Places : sessions[i] = s
        /\ proc[s] = "running" => handle[s] = "held"
        /\ proc[s] = "absent" => handle[s] = "none"
    BY DEF GridInv, Owned
  <2>3. s = sessions[n] => handle[s] = "held" /\ \A i \in Places : sessions'[i] # s
    BY <1>1, <2>1, <2>2, OneOfEach
  <2>4. s # sessions[n] => ((\E i \in Places : sessions'[i] = s) <=> \E i \in Places : sessions[i] = s)
    BY <1>1, <2>1
  <2> QED
    BY <1>2, <2>2, <2>3, <2>4
<1>8. DueIsEmpty' /\ NoneEligible'
  BY <1>1, <1>3 DEF GridInv, DueIsEmpty, NoneEligible, Ended
<1>9. Manned'
  BY <1>1, <1>3 DEF Manned, Ended, StaysOrEnds
<1>10. VerdictsStay
  BY OneOfEach DEF VerdictsStay, Ended, Places
<1> QED
  BY <1>2, <1>4, <1>5, <1>6, <1>7, <1>8, <1>9, <1>10 DEF Kept, GridInv

\* apply_update's Exit, by either path.
LEMMA ExitEnds ==
  ASSUME GridInv, NEW n \in Places, NEW c, ExitApplied(n, c)
  PROVE  /\ Ended(n) /\ panes'[n].state # "Running"
         /\ \A i \in Places : reconnect[i] = None => reconnect'[i] = None
<1>1. panes \in Seq(PaneRecord) /\ Listed(reconnect) /\ Listed(reconnect_due) /\ n \in 1..Len(panes)
  BY DEF GridInv, Vectors, Places
<1>2. TakeSession(n) /\ UNCHANGED <<pane_task, next_pane_id>>
  BY DEF ExitApplied
<1>3. \/ /\ RetriesLeft(n)
         /\ reconnect' = [reconnect EXCEPT ![n] = reconnect[n] + 1]
         /\ reconnect_due' = [reconnect_due EXCEPT ![n] = "waiting"]
         /\ panes' = [panes EXCEPT ![n].state = "Failed"]
      \/ /\ ~RetriesLeft(n)
         /\ panes' = [panes EXCEPT ![n].state = Verdict(n, c)]
         /\ UNCHANGED <<reconnect, reconnect_due>>
  BY DEF ExitApplied
<1>4. /\ Verdict(n, c) \in AgentState \ {"Running"}
      /\ panes[n].state # "Running" => Verdict(n, c) = panes[n].state
  <2>1. panes[n] \in PaneRecord
    BY Facts
  <2>2. panes[n].state \in AgentState
    BY <2>1 DEF PaneRecord
  <2>3. CASE panes[n].state # "Running"
    BY <2>2, <2>3 DEF Verdict, Terminal
  <2>4. CASE panes[n].state = "Running"
    BY <2>4 DEF Verdict, Terminal, AgentState
  <2> QED
    BY <2>3, <2>4
<1>5. ~Reconnecting => ~RetriesLeft(n)
  BY DEF GridInv, NoneEligible, RetriesLeft
<1>6. \E st \in AgentState \ {"Running"} :
        /\ panes' = [panes EXCEPT ![n].state = st]
        /\ ~Reconnecting /\ panes[n].state # "Running" => st = panes[n].state
  BY <1>3, <1>4, <1>5 DEF AgentState
<1>7. /\ panes' \in Seq(PaneRecord) /\ Len(panes') = Len(panes)
      /\ \A i \in Places : panes'[i].id = panes[i].id
      /\ \A i \in Places \ {n} : panes'[i] = panes[i]
      /\ panes'[n].state # "Running"
      /\ ~Reconnecting /\ panes[n].state # "Running" => panes'[n].state = panes[n].state
  <2>1. PICK st \in AgentState \ {"Running"} :
          /\ panes' = [panes EXCEPT ![n].state = st]
          /\ ~Reconnecting /\ panes[n].state # "Running" => st = panes[n].state
    BY <1>6
  <2>2. panes[n] \in PaneRecord
    BY Facts
  <2>3. [panes[n] EXCEPT !.state = st] \in PaneRecord
    BY <2>1, <2>2 DEF PaneRecord
  <2>4. panes' = [panes EXCEPT ![n] = [panes[n] EXCEPT !.state = st]]
    BY <2>1
  <2>5. panes' \in Seq(PaneRecord) /\ Len(panes') = Len(panes)
    BY <1>1, <2>3, <2>4
  <2>6. panes'[n] = [panes[n] EXCEPT !.state = st] /\ \A i \in Places \ {n} : panes'[i] = panes[i]
    BY <1>1, <2>4 DEF Places
  <2>7. panes'[n].id = panes[n].id /\ panes'[n].state = st
    BY <2>2, <2>6 DEF PaneRecord
  <2> QED
    BY <2>1, <2>5, <2>6, <2>7
<1>8. /\ Listed(reconnect') /\ Len(reconnect') = Len(reconnect)
      /\ ~Reconnecting => UNCHANGED reconnect
  <2>1. CASE RetriesLeft(n)
    <3> DEFINE longer == [reconnect EXCEPT ![n] = reconnect[n] + 1]
    <3>1. Listed(longer)
      BY <1>1, ListedUpdate
    <3>2. Len(longer) = Len(reconnect)
      BY <1>1, ListedUpdate
    <3>3. reconnect' = longer
      BY <1>3, <2>1
    <3> HIDE DEF longer
    <3> QED
      BY <1>5, <2>1, <3>1, <3>2, <3>3
  <2>2. CASE ~RetriesLeft(n)
    BY <1>1, <1>3, <2>2
  <2> QED
    BY <2>1, <2>2
<1>9. /\ Listed(reconnect_due') /\ Len(reconnect_due') = Len(reconnect_due)
      /\ \A i \in Places \ {n} : reconnect_due'[i] = reconnect_due[i]
  <2>1. Len(reconnect_due) = Len(panes)
    BY DEF GridInv, Vectors
  <2>2. CASE RetriesLeft(n)
    <3> DEFINE due == [reconnect_due EXCEPT ![n] = "waiting"]
    <3>1. Listed(due)
      BY <1>1, ListedUpdate
    <3>2. Len(due) = Len(reconnect_due)
      BY <1>1, ListedUpdate
    <3>3. \A i \in Places \ {n} : due[i] = reconnect_due[i]
      BY <1>1, <2>1 DEF Places, Listed
    <3>4. reconnect_due' = due
      BY <1>3, <2>2
    <3> HIDE DEF due
    <3> QED
      BY <3>1, <3>2, <3>3, <3>4
  <2>3. CASE ~RetriesLeft(n)
    BY <1>1, <1>3, <2>3
  <2> QED
    BY <2>2, <2>3
<1>10. \A i \in Places : reconnect[i] = None => reconnect'[i] = None
  <2>1. CASE RetriesLeft(n)
    <3>1. Len(reconnect) = Len(panes) /\ reconnect[n] # None
      BY <2>1 DEF GridInv, Vectors, RetriesLeft
    <3>2. \A i \in Places \ {n} : reconnect'[i] = reconnect[i]
      BY <1>1, <1>3, <2>1, <3>1 DEF Places, Listed
    <3> QED
      BY <3>1, <3>2
  <2>2. CASE ~RetriesLeft(n)
    BY <1>3, <2>2
  <2> QED
    BY <2>1, <2>2
<1> QED
  BY <1>2, <1>7, <1>8, <1>9, <1>10 DEF Ended

-----------------------------------------------------------------------------
(* A session begins *)

LEMMA SpawnFacts ==
  ASSUME GridInv, NEW s \in Sessions, NEW p, SpawnSession(s, p)
  PROVE  /\ Processes'
         /\ \A r \in Sessions : /\ handle'[r] = IF r = s THEN "held" ELSE handle[r]
                                /\ pane'[r] = IF r = s THEN p ELSE pane[r]
                                /\ proc'[r] = IF r = s THEN "running" ELSE proc[r]
         /\ \A i \in Places : sessions[i] # s
<1>1. Processes /\ proc[s] = "absent"
  BY DEF GridInv, SpawnSession
<1>2. Processes'
  BY <1>1 DEF SpawnSession, Processes, ProcStates, HandleStates
<1>3. \A r \in Sessions : /\ handle'[r] = IF r = s THEN "held" ELSE handle[r]
                          /\ pane'[r] = IF r = s THEN p ELSE pane[r]
                          /\ proc'[r] = IF r = s THEN "running" ELSE proc[r]
  BY <1>1 DEF SpawnSession, Processes
<1>4. handle[s] = "none"
  BY <1>1 DEF GridInv, Owned
<1>5. \A i \in Places : sessions[i] # s
  BY <1>4 DEF GridInv, Owned
<1> QED
  BY <1>2, <1>3, <1>5

LEMMA SpawnKeeps ==
  ASSUME GridInv, Manned, NEW task, NEW retry, SpawnPane(task, retry),
         ~Reconnecting => retry = None, StaysOrEnds
  PROVE  Kept
<1>1. PICK new, st :
        /\ panes' = Append(panes, [id |-> next_pane_id, state |-> st])
        /\ sessions' = Append(sessions, new)
        /\ \/ new \in Sessions /\ SpawnSession(new, next_pane_id) /\ st = "Running"
           \/ new = None /\ UNCHANGED <<proc, handle, pane>> /\ st = "Failed"
  BY DEF SpawnPane, SpawnSucceeds, SpawnFails, NewPaneId, sessionVars, childVars
<1> DEFINE last == Len(panes) + 1
<1>2. /\ Len(panes) \in Nat /\ next_pane_id \in Nat /\ next_pane_id' = next_pane_id + 1
      /\ new \in Sessions \union {None} /\ st \in AgentState /\ None \notin Sessions
      /\ st = "Running" <=> new # None
  BY <1>1, Facts DEF GridInv, Vectors, SpawnPane, AgentState
<1>3. [id |-> next_pane_id, state |-> st] \in PaneRecord
  BY <1>2 DEF PaneRecord, SpawnPane
<1>4. /\ panes' \in Seq(PaneRecord) /\ Len(panes') = last
      /\ \A i \in Places : panes'[i] = panes[i]
      /\ panes'[last].id = next_pane_id /\ panes'[last].state = st
  BY <1>1, <1>3 DEF GridInv, Vectors, Places
<1>5. /\ sessions' \in Seq(Sessions \union {None}) /\ Len(sessions') = last
      /\ \A i \in Places : sessions'[i] = sessions[i]
      /\ sessions'[last] = new
  BY <1>1, <1>2 DEF GridInv, Vectors, Places
<1>6. Listed(pane_task') /\ Len(pane_task') = last
  BY AppendToListed DEF GridInv, Vectors, SpawnPane
<1>7. /\ Listed(reconnect') /\ Len(reconnect') = last
      /\ \A i \in Places : reconnect'[i] = reconnect[i]
      /\ reconnect'[last] = retry
  BY AppendToListed DEF GridInv, Vectors, SpawnPane, Places
<1>8. /\ Listed(reconnect_due') /\ Len(reconnect_due') = last
      /\ \A i \in Places : reconnect_due'[i] = reconnect_due[i]
      /\ reconnect_due'[last] = None
  BY AppendToListed DEF GridInv, Vectors, SpawnPane, Places
<1>9. Places' = Places \union {last} /\ \A i \in Places : i # last /\ i < last
  BY <1>2, <1>4 DEF Places
<1>10. /\ Processes'
       /\ \A r \in Sessions : /\ handle'[r] = IF r = new THEN "held" ELSE handle[r]
                              /\ pane'[r] = IF r = new THEN next_pane_id ELSE pane[r]
                              /\ proc'[r] = IF r = new THEN "running" ELSE proc[r]
       /\ new # None => \A i \in Places : sessions[i] # new
  <2>1. CASE new \in Sessions
    BY <1>1, <1>2, <2>1, SpawnFacts
  <2>2. CASE new = None
    <3>1. Processes /\ UNCHANGED <<proc, handle, pane>>
      BY <1>1, <1>2, <2>2 DEF GridInv
    <3> QED
      BY <1>2, <2>2, <3>1 DEF Processes
  <2> QED
    BY <1>2, <2>1, <2>2
<1> HIDE DEF last
<1>11. Vectors'
  BY <1>2, <1>4, <1>5, <1>6, <1>7, <1>8 DEF Vectors
<1>12. Increasing'
  <2>1. \A i \in Places : panes[i].id \in Nat /\ panes[i].id < next_pane_id
    BY Facts DEF GridInv, Increasing
  <2>2. \A i \in Places : panes'[i].id < next_pane_id'
    BY <1>2, <1>4, <2>1
  <2>3. panes'[last].id < next_pane_id'
    BY <1>2, <1>4
  <2>4. \A i, j \in Places : i < j => panes'[i].id < panes'[j].id
    BY <1>4 DEF GridInv, Increasing
  <2>5. \A i \in Places : panes'[i].id < panes'[last].id
    BY <1>4, <2>1
  <2>6. \A j \in Places : ~(last < j)
    BY <1>2, <1>9 DEF last, Places
  <2>7. ~(last < last)
    BY <1>2 DEF last
  <2> QED
    BY <1>9, <2>2, <2>3, <2>4, <2>5, <2>6, <2>7 DEF Increasing
<1>13. Wired'
  <2>1. \A i \in Places : sessions'[i] # None => pane'[sessions'[i]] = panes'[i].id
    BY <1>4, <1>5, <1>10, Facts DEF GridInv, Wired
  <2>2. sessions'[last] # None => pane'[sessions'[last]] = panes'[last].id
    BY <1>2, <1>4, <1>5, <1>10
  <2> QED
    BY <1>9, <2>1, <2>2 DEF Wired
<1>14. Owned'
  <2> SUFFICES ASSUME NEW s \in Sessions
               PROVE  /\ handle'[s] = "held" <=> \E i \in Places' : sessions'[i] = s
                      /\ proc'[s] = "running" => handle'[s] = "held"
                      /\ proc'[s] = "absent" => handle'[s] = "none"
    BY DEF Owned
  <2>1. (\E i \in Places' : sessions'[i] = s) <=> (s = new \/ \E i \in Places : sessions[i] = s)
    BY <1>5, <1>9
  <2> QED
    BY <1>10, <2>1 DEF GridInv, Owned
<1>15. DueIsEmpty' /\ NoneEligible'
  BY <1>5, <1>7, <1>8, <1>9 DEF GridInv, DueIsEmpty, NoneEligible
<1>16. Manned'
  BY <1>2, <1>4, <1>5, <1>9 DEF Manned, StaysOrEnds
<1>17. VerdictsStay
  <2>1. 1..Len(panes') = Places \union {last} /\ 1..Len(panes) = Places
    BY <1>9 DEF Places
  <2>2. \A i \in Places : panes[i].id # panes'[last].id
    BY <1>2, <1>4, Facts DEF GridInv, Increasing
  <2>3. \A i, j \in Places : panes'[j].id = panes[i].id => panes'[j] = panes[i]
    BY <1>4, OneOfEach
  <2> QED
    BY <2>1, <2>2, <2>3 DEF VerdictsStay
<1> QED
  BY <1>10, <1>11, <1>12, <1>13, <1>14, <1>15, <1>16, <1>17 DEF Kept, GridInv

-----------------------------------------------------------------------------
(* A pane is respawned: it keeps its id *)

Respawned(n) ==
  /\ Due(n)
  /\ reconnect_due' = [reconnect_due EXCEPT ![n] = None]
  /\ reconnect' = [reconnect EXCEPT ![n] = 0]
  /\ UNCHANGED <<pane_task, next_pane_id>>
  /\ \/ \E s \in Sessions :
          /\ SpawnSession(s, panes[n].id)
          /\ panes' = [panes EXCEPT ![n].state = "Running"]
          /\ sessions' = [sessions EXCEPT ![n] = s]
     \/ /\ UNCHANGED <<proc, handle, pane, sessions>>
        /\ panes' = [panes EXCEPT ![n].state = "Failed"]

LEMMA RespawnKeeps ==
  ASSUME GridInv, Manned, NEW n \in Places, Respawned(n), StaysOrEnds
  PROVE  Kept
<1>1. sessions[n] = None /\ Reconnecting /\ None \notin Sessions
  BY IdsAreNumbers, AppAssumption DEF GridInv, DueIsEmpty, NoneEligible, Respawned, Due
<1>2. PICK new, st :
        /\ panes' = [panes EXCEPT ![n] = [panes[n] EXCEPT !.state = st]]
        /\ sessions' = [sessions EXCEPT ![n] = new]
        /\ \/ new \in Sessions /\ SpawnSession(new, panes[n].id) /\ st = "Running"
           \/ new = None /\ UNCHANGED <<proc, handle, pane>> /\ st = "Failed"
  <2>1. CASE \E s \in Sessions :
               /\ SpawnSession(s, panes[n].id)
               /\ panes' = [panes EXCEPT ![n].state = "Running"]
               /\ sessions' = [sessions EXCEPT ![n] = s]
    BY <2>1
  <2>2. CASE /\ UNCHANGED <<proc, handle, pane, sessions>>
             /\ panes' = [panes EXCEPT ![n].state = "Failed"]
    <3>1. [sessions EXCEPT ![n] = None] = sessions
      BY <1>1 DEF GridInv, Vectors
    <3> QED
      BY <2>2, <3>1
  <2> QED
    BY <2>1, <2>2 DEF Respawned
<1>3. new \in Sessions \union {None} /\ st \in AgentState /\ (st = "Running" <=> new # None)
  BY <1>1, <1>2 DEF AgentState
<1>4. panes[n] \in PaneRecord
  BY Facts
<1>5. [panes[n] EXCEPT !.state = st] \in PaneRecord
  BY <1>3, <1>4 DEF PaneRecord
<1>6. /\ panes' \in Seq(PaneRecord) /\ Len(panes') = Len(panes)
      /\ panes'[n] = [panes[n] EXCEPT !.state = st]
      /\ \A i \in Places \ {n} : panes'[i] = panes[i]
  BY <1>2, <1>5 DEF GridInv, Vectors, Places
<1>7. panes'[n].state = st /\ \A i \in Places : panes'[i].id = panes[i].id
  BY <1>4, <1>6 DEF PaneRecord
<1>8. /\ sessions' \in Seq(Sessions \union {None}) /\ Len(sessions') = Len(sessions)
      /\ \A i \in Places : sessions'[i] = IF i = n THEN new ELSE sessions[i]
  BY <1>2, <1>3 DEF GridInv, Vectors, Places
<1>9. Listed(reconnect') /\ Len(reconnect') = Len(reconnect)
  <2> DEFINE q == [reconnect EXCEPT ![n] = 0]
  <2>1. Listed(q)
    BY ListedUpdate DEF GridInv, Vectors
  <2>2. Len(q) = Len(reconnect)
    BY ListedUpdate DEF GridInv, Vectors
  <2> QED
    BY <2>1, <2>2 DEF Respawned
<1>10. Listed(reconnect_due') /\ Len(reconnect_due') = Len(reconnect_due)
  <2> DEFINE q == [reconnect_due EXCEPT ![n] = None]
  <2>1. Listed(q)
    BY ListedUpdate DEF GridInv, Vectors
  <2>2. Len(q) = Len(reconnect_due)
    BY ListedUpdate DEF GridInv, Vectors
  <2> QED
    BY <2>1, <2>2 DEF Respawned
<1>11. \A i \in Places : reconnect_due'[i] = IF i = n THEN None ELSE reconnect_due[i]
  BY DEF GridInv, Vectors, Listed, Respawned, Places
<1>12. Places' = Places /\ UNCHANGED next_pane_id
  BY <1>6 DEF Places, Respawned
<1>13. /\ Processes'
       /\ \A r \in Sessions : /\ handle'[r] = IF r = new THEN "held" ELSE handle[r]
                              /\ pane'[r] = IF r = new THEN panes[n].id ELSE pane[r]
                              /\ proc'[r] = IF r = new THEN "running" ELSE proc[r]
       /\ new # None => \A i \in Places : sessions[i] # new
  <2>1. CASE new \in Sessions
    BY <1>1, <1>2, <2>1, SpawnFacts
  <2>2. CASE new = None
    <3>1. Processes /\ UNCHANGED <<proc, handle, pane>>
      BY <1>1, <1>2, <2>2 DEF GridInv
    <3> QED
      BY <1>1, <2>2, <3>1 DEF Processes
  <2> QED
    BY <1>3, <2>1, <2>2
<1>14. Vectors'
  BY <1>6, <1>8, <1>9, <1>10, <1>12 DEF GridInv, Vectors, Respawned
<1>15. Increasing'
  BY <1>7, <1>12 DEF GridInv, Increasing
<1>16. Wired'
  <2>1. \A i \in Places \ {n} : sessions'[i] # None => pane'[sessions'[i]] = panes'[i].id
    BY <1>7, <1>8, <1>13, Facts DEF GridInv, Wired
  <2>2. sessions'[n] # None => pane'[sessions'[n]] = panes'[n].id
    BY <1>3, <1>7, <1>8, <1>13
  <2> QED
    BY <1>12, <2>1, <2>2 DEF Wired
<1>17. Owned'
  <2> SUFFICES ASSUME NEW s \in Sessions
               PROVE  /\ handle'[s] = "held" <=> \E i \in Places : sessions'[i] = s
                      /\ proc'[s] = "running" => handle'[s] = "held"
                      /\ proc'[s] = "absent" => handle'[s] = "none"
    BY <1>12 DEF Owned
  <2>1. (\E i \in Places : sessions'[i] = s) <=> (s = new \/ \E i \in Places : sessions[i] = s)
    BY <1>1, <1>8
  <2> QED
    BY <1>13, <2>1 DEF GridInv, Owned
<1>18. DueIsEmpty' /\ NoneEligible'
  BY <1>1, <1>8, <1>11, <1>12 DEF GridInv, DueIsEmpty, NoneEligible
<1>19. Manned'
  BY <1>3, <1>6, <1>7, <1>8, <1>12 DEF Manned, StaysOrEnds
<1> QED
  BY <1>1, <1>13, <1>14, <1>15, <1>16, <1>17, <1>18, <1>19 DEF Kept, GridInv, VerdictsStay

-----------------------------------------------------------------------------
(* A pane is closed *)

Closed(n) ==
  /\ DropSessions({sessions[n]} \ {None})
  /\ panes' = RemoveAt(panes, n)
  /\ sessions' = RemoveAt(sessions, n)
  /\ pane_task' = RemoveAt(pane_task, n)
  /\ reconnect' = RemoveAt(reconnect, n)
  /\ reconnect_due' = RemoveAt(reconnect_due, n)
  /\ UNCHANGED next_pane_id

LEMMA CloseKeeps ==
  ASSUME GridInv, Manned, NEW n \in Places, Closed(n), StaysOrEnds
  PROVE  Kept
<1> DEFINE from == [i \in 1..(Len(panes) - 1) |-> IF i < n THEN i ELSE i + 1]
<1>1. Len(panes) \in Nat /\ n \in 1..Len(panes)
  BY Facts DEF Places
<1>2. /\ panes' \in Seq(PaneRecord) /\ Len(panes') = Len(panes) - 1
      /\ \A i \in 1..(Len(panes) - 1) : panes'[i] = panes[from[i]]
  <2>1. panes \in Seq(PaneRecord) /\ panes' = RemoveAt(panes, n)
    BY DEF GridInv, Vectors, Closed
  <2> QED
    BY <1>1, <2>1, RemoveFromSeq
<1>3. /\ sessions' \in Seq(Sessions \union {None}) /\ Len(sessions') = Len(panes) - 1
      /\ \A i \in 1..(Len(panes) - 1) : sessions'[i] = sessions[from[i]]
  <2> DEFINE S == Sessions \union {None}
  <2>1. sessions \in Seq(S) /\ Len(sessions) = Len(panes) /\ sessions' = RemoveAt(sessions, n)
    BY DEF GridInv, Vectors, Closed
  <2> HIDE DEF S
  <2>2. /\ RemoveAt(sessions, n) \in Seq(S) /\ Len(RemoveAt(sessions, n)) = Len(panes) - 1
        /\ \A i \in 1..(Len(panes) - 1) :
             RemoveAt(sessions, n)[i] = IF i < n THEN sessions[i] ELSE sessions[i + 1]
    BY <1>1, <2>1, RemoveFromSeq
  <2>3. \A i \in 1..(Len(panes) - 1) : sessions'[i] = sessions[from[i]]
    BY <2>1, <2>2
  <2> QED
    BY <2>1, <2>2, <2>3 DEF S
<1>4. Listed(pane_task') /\ Len(pane_task') = Len(panes) - 1
  <2>1. Listed(pane_task) /\ Len(pane_task) = Len(panes) /\ pane_task' = RemoveAt(pane_task, n)
    BY DEF GridInv, Vectors, Closed
  <2> QED
    BY <1>1, <2>1, RemoveFromListed
<1>5. /\ Listed(reconnect') /\ Len(reconnect') = Len(panes) - 1
      /\ \A i \in 1..(Len(panes) - 1) : reconnect'[i] = reconnect[from[i]]
  <2>1. Listed(reconnect) /\ Len(reconnect) = Len(panes) /\ reconnect' = RemoveAt(reconnect, n)
    BY DEF GridInv, Vectors, Closed
  <2> QED
    BY <1>1, <2>1, RemoveFromListed
<1>6. /\ Listed(reconnect_due') /\ Len(reconnect_due') = Len(panes) - 1
      /\ \A i \in 1..(Len(panes) - 1) : reconnect_due'[i] = reconnect_due[from[i]]
  <2>1. Listed(reconnect_due) /\ Len(reconnect_due) = Len(panes) /\ reconnect_due' = RemoveAt(reconnect_due, n)
    BY DEF GridInv, Vectors, Closed
  <2> QED
    BY <1>1, <2>1, RemoveFromListed
<1>7. /\ Places' = 1..(Len(panes) - 1)
      /\ \A i \in Places' : from[i] \in Places \ {n}
      /\ \A i, j \in Places' : i < j => from[i] < from[j]
      /\ \A k \in Places \ {n} : \E i \in Places' : from[i] = k
  <2>1. Places' = 1..(Len(panes) - 1)
    BY <1>2 DEF Places
  <2>2. \A i \in 1..(Len(panes) - 1) : from[i] \in Places \ {n}
    BY <1>1 DEF Places
  <2>3. \A i, j \in 1..(Len(panes) - 1) : i < j => from[i] < from[j]
    BY <1>1
  <2>4. ASSUME NEW k \in Places \ {n} PROVE \E i \in 1..(Len(panes) - 1) : from[i] = k
    <3>1. CASE k < n
      BY <1>1, <3>1 DEF Places
    <3>2. CASE k > n
      <4>1. k - 1 \in 1..(Len(panes) - 1) /\ from[k - 1] = k
        BY <1>1, <3>2 DEF Places
      <4> QED
        BY <4>1
    <3> QED
      BY <1>1, <3>1, <3>2 DEF Places
  <2> QED
    BY <2>1, <2>2, <2>3, <2>4
<1>8. /\ Processes' /\ UNCHANGED pane
      /\ \A s \in Sessions : handle'[s] = IF s = sessions[n] THEN "dropped" ELSE handle[s]
      /\ \A s \in Sessions : proc'[s] = "running" => proc[s] = "running" /\ s # sessions[n]
      /\ \A s \in Sessions : proc'[s] = "absent" => proc[s] = "absent"
  BY DropFacts DEF Closed
<1>9. UNCHANGED next_pane_id
  BY DEF Closed
<1> HIDE DEF from
<1>moved. ASSUME NEW i \in Places'
      PROVE  /\ from[i] \in Places /\ from[i] # n
             /\ panes'[i] = panes[from[i]] /\ sessions'[i] = sessions[from[i]]
             /\ reconnect'[i] = reconnect[from[i]] /\ reconnect_due'[i] = reconnect_due[from[i]]
  BY <1>2, <1>3, <1>5, <1>6, <1>7
<1>10. Vectors'
  BY <1>2, <1>3, <1>4, <1>5, <1>6, <1>9 DEF GridInv, Vectors
<1>11. Increasing'
  <2>1. ASSUME NEW i \in Places' PROVE panes'[i].id < next_pane_id'
    BY <1>9, <1>moved DEF GridInv, Increasing
  <2>2. ASSUME NEW i \in Places', NEW j \in Places', i < j PROVE panes'[i].id < panes'[j].id
    <3>1. from[i] < from[j]
      BY <1>7, <2>2
    <3> QED
      BY <1>moved, <3>1 DEF GridInv, Increasing
  <2> QED
    BY <2>1, <2>2 DEF Increasing
<1>12. Wired'
  <2> SUFFICES ASSUME NEW i \in Places', sessions'[i] # None
               PROVE  pane'[sessions'[i]] = panes'[i].id
    BY DEF Wired
  <2> QED
    BY <1>8, <1>moved DEF GridInv, Wired
<1>13. Owned'
  <2> SUFFICES ASSUME NEW s \in Sessions
               PROVE  /\ handle'[s] = "held" <=> \E i \in Places' : sessions'[i] = s
                      /\ proc'[s] = "running" => handle'[s] = "held"
                      /\ proc'[s] = "absent" => handle'[s] = "none"
    BY DEF Owned
  <2>1. None \notin Sessions
    BY IdsAreNumbers
  <2>2. /\ handle[s] = "held" <=> \E i \in Places : sessions[i] = s
        /\ proc[s] = "running" => handle[s] = "held"
        /\ proc[s] = "absent" => handle[s] = "none"
    BY DEF GridInv, Owned
  <2>3. (\E i \in Places' : sessions'[i] = s) <=> \E k \in Places \ {n} : sessions[k] = s
    BY <1>3, <1>7
  <2>4. s = sessions[n] => handle[s] = "held" /\ ~\E k \in Places \ {n} : sessions[k] = s
    BY <2>1, <2>2, OneOfEach
  <2> QED
    BY <1>8, <2>2, <2>3, <2>4
<1>14. DueIsEmpty' /\ NoneEligible'
  <2>1. ASSUME NEW i \in Places', reconnect_due'[i] # None PROVE sessions'[i] = None
    BY <1>moved, <2>1 DEF GridInv, DueIsEmpty
  <2>2. ASSUME NEW i \in Places', ~Reconnecting PROVE reconnect'[i] = None
    BY <1>moved, <2>2 DEF GridInv, NoneEligible
  <2> QED
    BY <2>1, <2>2 DEF DueIsEmpty, NoneEligible
<1>15. Manned'
  <2> SUFFICES ASSUME pc' \notin Ending, NEW i \in Places'
               PROVE  panes'[i].state = "Running" <=> sessions'[i] # None
    BY DEF Manned, Ending
  <2> QED
    BY <1>moved DEF Manned, StaysOrEnds
<1>16. VerdictsStay
  <2>1. 1..Len(panes') = Places' /\ 1..Len(panes) = Places
    BY DEF Places
  <2> QED
    BY <1>moved, <2>1, OneOfEach DEF VerdictsStay
<1> QED
  BY <1>8, <1>10, <1>11, <1>12, <1>13, <1>14, <1>15, <1>16 DEF Kept, GridInv

-----------------------------------------------------------------------------
(* The steps of the program, one by one *)

Still == UNCHANGED <<panes, sessions, pane_task, reconnect, reconnect_due, next_pane_id, proc, handle, pane>>

LEMMA StillKeeps ==
  ASSUME GridInv, Manned, Still, StaysOrEnds
  PROVE  Kept
<1>1. Quiet
  BY DEF Still, Quiet, GridInv, Vectors, Processes
<1> QED
  BY <1>1, QuietKeeps

Looking ==
  Started \/ ReapPoll \/ DrainEnd \/ PumpEnd \/ Idle \/ SwitchMode \/ Quit \/ CheckExit \/ LoopFails \/ Stop

LEMMA LookingKeeps == AppInv /\ Looking => AppInv' /\ VerdictsStay
<1> SUFFICES ASSUME AppInv, Looking PROVE AppInv' /\ VerdictsStay
  OBVIOUS
<1>1. Still
  BY DEF Looking, Started, ReapPoll, DrainEnd, PumpEnd, Idle, SwitchMode, Quit, CheckExit, LoopFails, Stop, Event,
         Key, Still, pipeVars, sessionVars, childVars, vecs, userVars
<1>2. StaysOrEnds
  BY DEF Looking, Started, ReapPoll, DrainEnd, PumpEnd, Idle, SwitchMode, Quit, CheckExit, LoopFails, Stop, Event,
         Key, StaysOrEnds, Ending
<1>3. ReapedHere'
  <2>1. CASE ReapPoll
    <3>1. reaped' \subseteq Positions
      BY <2>1 DEF ReapPoll
    <3> QED
      BY <1>1, <3>1, Facts DEF AppInv, ReapedHere, Still, Places
  <2>2. CASE ~ReapPoll
    BY <2>2 DEF Looking, Started, DrainEnd, PumpEnd, Idle, SwitchMode, Quit, CheckExit, LoopFails, Stop, Event, Key,
                ReapedHere
  <2> QED
    BY <2>1, <2>2
<1> QED
  BY <1>1, <1>2, <1>3, StillKeeps DEF AppInv, Kept

Spawning == StartAgent \/ DispatchOne \/ PickAgent

LEMMA SpawningKeeps == AppInv /\ Spawning => AppInv' /\ VerdictsStay
<1> SUFFICES ASSUME AppInv, Spawning PROVE AppInv' /\ VerdictsStay
  OBVIOUS
<1>1. StaysOrEnds /\ ReapedHere'
  BY DEF Spawning, StartAgent, DispatchOne, PickAgent, Event, Key, loopVars, StaysOrEnds, Ending, ReapedHere
<1>2. CASE \E task : SpawnPane(task, None)
  BY <1>1, <1>2, SpawnKeeps DEF AppInv, Kept
<1>3. CASE StartAgent
  <2>1. SpawnPane(None, IF Reconnecting THEN 0 ELSE None)
    BY <1>3 DEF StartAgent
  <2> QED
    BY <1>1, <2>1, SpawnKeeps DEF AppInv, Kept
<1>4. CASE Still
  BY <1>1, <1>4, StillKeeps DEF AppInv, Kept
<1>5. CASE DispatchOne
  BY <1>2, <1>5 DEF DispatchOne
<1>6. CASE PickAgent
  <2>1. CASE Len(panes) < MaxPanes
    BY <1>2, <1>6, <2>1 DEF PickAgent
  <2>2. CASE ~(Len(panes) < MaxPanes)
    BY <1>4, <1>6, <2>2 DEF PickAgent, Still, sessionVars, childVars, vecs
  <2> QED
    BY <2>1, <2>2
<1> QED
  BY <1>3, <1>5, <1>6 DEF Spawning

LEMMA ReapOneKeeps == AppInv /\ ReapOne => AppInv' /\ VerdictsStay
<1> SUFFICES ASSUME AppInv, ReapOne PROVE AppInv' /\ VerdictsStay
  OBVIOUS
<1>1. PICK n \in reaped : ExitApplied(n, code[sessions[n]]) /\ reaped' = reaped \ {n}
  BY DEF ReapOne
<1>2. n \in Places /\ reaped \subseteq Places /\ pc = "reaped"
  BY DEF ReapOne, AppInv, ReapedHere
<1>3. Ended(n)
  BY <1>1, <1>2, ExitEnds DEF AppInv
<1>4. StaysOrEnds
  BY <1>2 DEF StaysOrEnds, Ending
<1>5. ReapedHere'
  BY <1>1, <1>2, <1>3 DEF ReapedHere, Ended, Places
<1> QED
  BY <1>2, <1>3, <1>4, <1>5, EndedKeeps DEF AppInv, Kept

LEMMA DrainOneKeeps == AppInv /\ DrainOne => AppInv' /\ VerdictsStay
<1> SUFFICES ASSUME AppInv, DrainOne PROVE AppInv' /\ VerdictsStay
  OBVIOUS
<1>1. StaysOrEnds /\ ReapedHere'
  BY DEF DrainOne, loopVars, StaysOrEnds, Ending, ReapedHere
<1>2. CASE Still
  BY <1>1, <1>2, StillKeeps DEF AppInv, Kept
<1>3. CASE \E n \in Positions : ExitApplied(n, None)
  <2>1. PICK n \in Places : ExitApplied(n, None)
    BY <1>3, Facts DEF AppInv
  <2>2. Ended(n)
    BY <2>1, ExitEnds DEF AppInv
  <2> QED
    BY <1>1, <2>2, EndedKeeps DEF AppInv, Kept
<1>4. Still \/ \E n \in Positions : ExitApplied(n, None)
  BY DEF DrainOne, PositionsOf, Still, sessionVars, childVars, vecs
<1> QED
  BY <1>2, <1>3, <1>4

LEMMA RespawnOneKeeps == AppInv /\ RespawnOne => AppInv' /\ VerdictsStay
<1> SUFFICES ASSUME AppInv, RespawnOne PROVE AppInv' /\ VerdictsStay
  OBVIOUS
<1>1. StaysOrEnds /\ ReapedHere'
  BY DEF RespawnOne, loopVars, StaysOrEnds, Ending, ReapedHere
<1>2. PICK n \in Places :
        /\ Due(n)
        /\ reconnect_due' = [reconnect_due EXCEPT ![n] = None]
        /\ \/ /\ ~RetriesLeft(n)
              /\ UNCHANGED <<sessionVars, panes, sessions, reconnect>>
           \/ /\ RetriesLeft(n)
              /\ reconnect' = [reconnect EXCEPT ![n] = 0]
              /\ \/ \E s \in Sessions :
                      /\ SpawnSucceeds(s, panes[n].id)
                      /\ panes' = [panes EXCEPT ![n].state = "Running"]
                      /\ sessions' = [sessions EXCEPT ![n] = s]
                 \/ /\ SpawnFails
                    /\ panes' = [panes EXCEPT ![n].state = "Failed"]
                    /\ UNCHANGED sessions
  BY Facts DEF RespawnOne, AppInv
<1>3. UNCHANGED <<pane_task, next_pane_id>>
  BY DEF RespawnOne
<1>4. CASE RetriesLeft(n)
  <2>1. Respawned(n)
    BY <1>2, <1>3, <1>4 DEF Respawned, SpawnSucceeds, SpawnFails, sessionVars, childVars
  <2> QED
    BY <1>1, <2>1, RespawnKeeps DEF AppInv, Kept
<1>5. CASE ~RetriesLeft(n)
  <2> DEFINE q == [reconnect_due EXCEPT ![n] = None]
  <2>1. Listed(reconnect_due) /\ Len(reconnect_due) = Len(panes)
    BY DEF AppInv, GridInv, Vectors
  <2>2. Listed(q)
    BY <2>1, ListedUpdate
  <2>3. Len(q) = Len(reconnect_due)
    BY <2>1, ListedUpdate
  <2>4. \A i \in Places : q[i] # None => reconnect_due[i] # None
    BY <2>1 DEF Listed, Places
  <2>5. reconnect_due' = q
    BY <1>2
  <2>6. UNCHANGED <<panes, sessions, reconnect, proc, handle, pane>>
    BY <1>2, <1>5 DEF sessionVars, childVars
  <2>7. proc' \in [Sessions -> ProcStates] /\ proc' = proc
    BY <2>6 DEF AppInv, GridInv, Processes
  <2> HIDE DEF q
  <2>8. Quiet
    BY <1>3, <2>2, <2>3, <2>4, <2>5, <2>6, <2>7 DEF Quiet
  <2> QED
    BY <1>1, <2>8, QuietKeeps DEF AppInv, Kept
<1> QED
  BY <1>4, <1>5

LEMMA ClosePaneKeeps == AppInv /\ ClosePane => AppInv' /\ VerdictsStay
<1> SUFFICES ASSUME AppInv, ClosePane PROVE AppInv' /\ VerdictsStay
  OBVIOUS
<1>1. StaysOrEnds /\ ReapedHere'
  BY DEF ClosePane, Event, Key, StaysOrEnds, Ending, ReapedHere
<1>2. PICK n \in Places : Closed(n)
  BY Facts DEF ClosePane, Closed, AppInv
<1> QED
  BY <1>1, <1>2, CloseKeeps DEF AppInv, Kept

LEMMA DropNextKeeps == AppInv /\ DropNext => AppInv' /\ VerdictsStay
<1> SUFFICES ASSUME AppInv, DropNext PROVE AppInv' /\ VerdictsStay
  OBVIOUS
<1>1. StaysOrEnds /\ ReapedHere' /\ pc' \in Ending
  BY DEF DropNext, loopVars, StaysOrEnds, Ending, ReapedHere
<1>2. PICK n \in Places : TakeSession(n)
  BY Facts DEF DropNext, AppInv
<1>3. UNCHANGED <<panes, pane_task, reconnect, reconnect_due, next_pane_id>>
  BY DEF DropNext
<1>4. Ended(n)
  BY <1>1, <1>2, <1>3 DEF Ended, AppInv, GridInv, Vectors
<1> QED
  BY <1>1, <1>4, EndedKeeps DEF AppInv, Kept

\* A child that exits, a thread that moves on, a backoff that is over.
LEMMA OutsideKeeps == AppInv /\ (EnvNext \/ BackoffElapses) => AppInv' /\ VerdictsStay
<1> SUFFICES ASSUME AppInv, EnvNext \/ BackoffElapses PROVE AppInv' /\ VerdictsStay
  OBVIOUS
<1>1. UNCHANGED <<pc, reaped, panes, sessions, pane_task, reconnect, next_pane_id, handle, pane>>
  BY DEF EnvNext, ChildNext, ThreadNext, ChildWrites, ChildForks, ChildClosesTty, ChildExits, DescendantExits,
         ReaderPump, ReaderEof, Forward, ForwardExit, childVars, threadVars, BackoffElapses, pipeVars,
         loopVars, vecs
<1>2. StaysOrEnds /\ ReapedHere'
  BY <1>1 DEF StaysOrEnds, AppInv, ReapedHere, Places
<1>3. /\ proc' \in [Sessions -> ProcStates]
      /\ \A s \in Sessions : /\ proc'[s] = "running" => proc[s] = "running"
                             /\ proc'[s] = "absent" => proc[s] = "absent"
  <2>1. proc \in [Sessions -> ProcStates]
    BY DEF AppInv, GridInv, Processes
  <2>2. proc' = proc \/ \E s \in Sessions : proc[s] = "running" /\ proc' = [proc EXCEPT ![s] = "exited"]
    BY DEF EnvNext, ChildNext, ThreadNext, ChildWrites, ChildForks, ChildClosesTty, ChildExits,
           DescendantExits, ReaderPump, ReaderEof, Forward, ForwardExit, childVars, BackoffElapses, pipeVars
  <2> QED
    BY <2>1, <2>2 DEF ProcStates
<1>4. /\ Listed(reconnect_due') /\ Len(reconnect_due') = Len(reconnect_due)
      /\ \A i \in Places : reconnect_due'[i] # None => reconnect_due[i] # None
  <2>1. Listed(reconnect_due) /\ Len(reconnect_due) = Len(panes)
    BY DEF AppInv, GridInv, Vectors
  <2>2. CASE EnvNext
    BY <2>1, <2>2 DEF EnvNext, vecs
  <2>3. CASE BackoffElapses
    <3>1. PICK n \in Positions : /\ reconnect_due[n] = "waiting"
                                 /\ reconnect_due' = [reconnect_due EXCEPT ![n] = "elapsed"]
      BY <2>3 DEF BackoffElapses
    <3> DEFINE q == [reconnect_due EXCEPT ![n] = "elapsed"]
    <3>2. Listed(q)
      BY <2>1, ListedUpdate
    <3>3. Len(q) = Len(reconnect_due)
      BY <2>1, ListedUpdate
    <3>4. \A i \in Places : q[i] # None => reconnect_due[i] # None
      BY <2>1, <3>1, AppAssumption DEF Listed, Places
    <3>5. reconnect_due' = q
      BY <3>1
    <3> HIDE DEF q
    <3> QED
      BY <3>2, <3>3, <3>4, <3>5
  <2> QED
    BY <2>2, <2>3
<1>5. Quiet
  BY <1>1, <1>3, <1>4 DEF Quiet
<1> QED
  BY <1>2, <1>5, QuietKeeps DEF AppInv, Kept

-----------------------------------------------------------------------------

LEMMA AppInitially == AppInit => AppInv
<1> SUFFICES ASSUME AppInit PROVE AppInv
  OBVIOUS
<1>1. /\ panes = <<>> /\ sessions = <<>> /\ pane_task = <<>> /\ reconnect = <<>> /\ reconnect_due = <<>>
      /\ next_pane_id = 0 /\ pc = "start"
      /\ proc = [s \in Sessions |-> "absent"] /\ handle = [s \in Sessions |-> "none"]
      /\ pane = [s \in Sessions |-> None]
  BY DEF AppInit, PipeInit
<1>2. Listed(<<>>) /\ Len(<<>>) = 0
  BY DEF Listed
<1>3. Places = {}
  BY <1>1 DEF Places
<1>4. Vectors
  BY <1>1, <1>2 DEF Vectors
<1>5. Processes
  BY <1>1 DEF Processes, ProcStates, HandleStates
<1>6. Increasing /\ Wired /\ DueIsEmpty /\ NoneEligible /\ Manned
  BY <1>3 DEF Increasing, Wired, DueIsEmpty, NoneEligible, Manned
<1>7. Owned
  BY <1>1, <1>3 DEF Owned
<1>8. ReapedHere
  BY <1>1 DEF ReapedHere
<1> QED
  BY <1>4, <1>5, <1>6, <1>7, <1>8 DEF AppInv, GridInv

LEMMA AppStep == AppInv /\ [AppNext]_appVars => AppInv' /\ VerdictsStay
<1> SUFFICES ASSUME AppInv, [AppNext]_appVars PROVE AppInv' /\ VerdictsStay
  OBVIOUS
<1>1. CASE UNCHANGED appVars
  <2>1. Still /\ StaysOrEnds
    BY <1>1 DEF appVars, pipeVars, vecs, loopVars, Still, StaysOrEnds
  <2>2. ReapedHere'
    BY <1>1 DEF appVars, vecs, loopVars, AppInv, ReapedHere, Places
  <2> QED
    BY <2>1, <2>2, StillKeeps DEF AppInv, Kept
<1>2. CASE UINext
  <2>1. \/ Looking \/ Spawning \/ ReapOne \/ DrainOne \/ RespawnOne \/ ClosePane \/ DropNext
    BY <1>2 DEF UINext, Looking, Spawning
  <2> QED
    BY <2>1, LookingKeeps, SpawningKeeps, ReapOneKeeps, DrainOneKeeps, RespawnOneKeeps, ClosePaneKeeps,
       DropNextKeeps
<1>3. CASE EnvNext \/ BackoffElapses
  BY <1>3, OutsideKeeps
<1> QED
  BY <1>1, <1>2, <1>3 DEF AppNext

LEMMA AppAlways == AppSpec => []AppInv
BY AppInitially, AppStep, PTL DEF AppSpec

\* However panes are spawned, closed and respawned (spawn_one_local,
\* close_focused_pane, respawn), for any number of them: the parallel vectors have
\* one length, ids grow along them, and a slot's session reports under the id of
\* the pane at its position.
THEOREM VectorsStayParallel == AppSpec => []Lockstep
<1>1. AppInv => Lockstep
  <2> SUFFICES ASSUME AppInv PROVE Lockstep
    OBVIOUS
  <2>1. {Len(sessions), Len(pane_task), Len(reconnect), Len(reconnect_due)} = {Len(panes)}
    BY DEF AppInv, GridInv, Vectors
  <2>2. Positions = Places
    BY Facts DEF AppInv
  <2> QED
    BY <2>1, <2>2 DEF Lockstep, AppInv, GridInv, Increasing, Wired
<1> QED
  BY <1>1, AppAlways, PTL

\* Until the program ends a pane is Running exactly while a session is in its slot,
\* the sessions in slots are those held, and every child that runs is one of
\* theirs (apply_update, reap_exited, Drop).
THEOREM ChildrenAreOwned == AppSpec => []RunningOwnsItsChild
<1>1. AppInv => RunningOwnsItsChild
  <2> SUFFICES ASSUME AppInv PROVE RunningOwnsItsChild
    OBVIOUS
  <2>1. Positions = Places
    BY Facts DEF AppInv
  <2> QED
    BY <2>1 DEF RunningOwnsItsChild, AppInv, GridInv, Manned, Owned, Ending
<1> QED
  BY <1>1, AppAlways, PTL

\* Without reconnection the verdict on a pane is final, whichever of the two
\* reports of its exit comes first (apply_update).
THEOREM VerdictsAreFinal == AppSpec => VerdictIsFinal
<1>1. AppInv /\ [AppNext]_appVars =>
        [\A i \in Positions : (panes[i].state # "Running" /\ ~Reconnecting) =>
           \A j \in DOMAIN panes' : panes'[j].id = panes[i].id => panes'[j].state = panes[i].state]_panes
  <2> SUFFICES ASSUME AppInv, [AppNext]_appVars, ~Reconnecting,
                      NEW i \in Positions, panes[i].state # "Running",
                      NEW j \in DOMAIN panes', panes'[j].id = panes[i].id
               PROVE  panes'[j].state = panes[i].state
    OBVIOUS
  <2>1. AppInv' /\ VerdictsStay
    BY AppStep
  <2>2. i \in 1..Len(panes) /\ j \in 1..Len(panes')
    BY <2>1 DEF AppInv, GridInv, Vectors, Positions
  <2> QED
    BY <2>1, <2>2 DEF VerdictsStay
<1> QED
  BY <1>1, AppAlways, PTL DEF AppSpec, VerdictIsFinal

-----------------------------------------------------------------------------
(* The pipeline the application owns *)

\* Taking what is in a slot is the owner's drop, or nothing if the slot is empty.
LEMMA TakingDrops ==
  ASSUME GridInv, PipeTypeOK, JoinsDone, NEW n \in Places, DropSessions({sessions[n]} \ {None}),
         UNCHANGED rxOpen, UNCHANGED bus \/ (bus # <<>> /\ bus' = Tail(bus))
  PROVE  [PipeNext]_pipeVars
<1>1. sessions[n] \in Sessions \union {None} /\ None \notin Sessions
  BY Facts
<1>2. CASE sessions[n] = None
  <2>1. DropSessions({})
    <3>1. {sessions[n]} \ {None} = {}
      BY <1>2
    <3> QED
      BY <3>1
  <2>2. UNCHANGED <<childVars, handle, threadVars, pane>>
    BY <2>1 DEF DropSessions, PipeTypeOK, childVars, threadVars
  <2>3. CASE UNCHANGED bus
    BY <2>2, <2>3 DEF pipeVars, childVars, threadVars
  <2>4. CASE bus # <<>> /\ bus' = Tail(bus)
    BY <2>2, <2>4 DEF OwnerConsumes, OwnerNext, PipeNext
  <2> QED
    BY <2>3, <2>4
<1>3. CASE sessions[n] \in Sessions
  <2>1. {sessions[n]} \ {None} = {sessions[n]}
    BY <1>1, <1>3
  <2>2. DropSessions({sessions[n]})
    BY <2>1
  <2>3. handle[sessions[n]] = "held"
    BY <1>3 DEF GridInv, Owned
  <2> QED
    BY <1>3, <2>2, <2>3 DEF OwnerDrops, OwnerNext, PipeNext
<1> QED
  BY <1>1, <1>2, <1>3

LEMMA SpawningStarts ==
  ASSUME GridInv, JoinsDone, NEW task, NEW retry, SpawnPane(task, retry), UNCHANGED <<bus, rxOpen>>
  PROVE  [PipeNext]_pipeVars
<1>1. CASE \E s \in Sessions : SpawnSession(s, next_pane_id)
  <2>1. next_pane_id \in PaneIds
    BY DEF SpawnPane
  <2> QED
    BY <1>1, <2>1 DEF OwnerSpawns, OwnerNext, PipeNext
<1>2. CASE UNCHANGED sessionVars
  BY <1>2 DEF sessionVars, pipeVars, childVars, threadVars
<1> QED
  BY <1>1, <1>2 DEF SpawnPane, SpawnSucceeds, SpawnFails, NewPaneId

LEMMA AppPipeStep == AppInv /\ PipeTypeOK /\ [AppNext]_appVars => [PipeNext]_pipeVars
<1> SUFFICES ASSUME AppInv, PipeTypeOK, [AppNext]_appVars PROVE [PipeNext]_pipeVars
  OBVIOUS
<1>1. CASE UNCHANGED pipeVars
  BY <1>1
<1>2. CASE EnvNext
  BY <1>2 DEF EnvNext, PipeNext
<1>3. CASE JoinsDone /\ Spawning
  <2>1. UNCHANGED <<bus, rxOpen>>
    BY <1>3 DEF Spawning, StartAgent, DispatchOne, PickAgent
  <2>2. (\E task, retry : SpawnPane(task, retry)) \/ UNCHANGED sessionVars
    BY <1>3 DEF Spawning, StartAgent, DispatchOne, PickAgent
  <2>3. CASE UNCHANGED sessionVars
    BY <1>1, <2>1, <2>3 DEF sessionVars, pipeVars, childVars, threadVars
  <2> QED
    BY <1>3, <2>1, <2>2, <2>3, SpawningStarts DEF AppInv
<1>4. CASE JoinsDone /\ (ReapOne \/ ClosePane \/ DropNext)
  <2>1. UNCHANGED <<bus, rxOpen>>
    BY <1>4 DEF ReapOne, ClosePane, DropNext
  <2>2. \E n \in Places : DropSessions({sessions[n]} \ {None})
    <3>1. CASE ReapOne
      BY <3>1 DEF ReapOne, ExitApplied, TakeSession, AppInv, ReapedHere
    <3>2. CASE ClosePane \/ DropNext
      BY <3>2, Facts DEF ClosePane, DropNext, TakeSession, AppInv
    <3> QED
      BY <1>4, <3>1, <3>2
  <2> QED
    BY <1>4, <2>1, <2>2, TakingDrops DEF AppInv
<1>5. CASE JoinsDone /\ DrainOne
  <2>1. bus # <<>> /\ bus' = Tail(bus) /\ UNCHANGED rxOpen
    BY <1>5 DEF DrainOne
  <2>2. UNCHANGED sessionVars \/ \E n \in Places : DropSessions({sessions[n]} \ {None})
    <3>1. UNCHANGED sessionVars \/ \E n \in Positions : ExitApplied(n, None)
      BY <1>5 DEF DrainOne, PositionsOf
    <3> QED
      BY <3>1, Facts DEF ExitApplied, TakeSession, AppInv
  <2>3. CASE UNCHANGED sessionVars
    BY <1>5, <2>1, <2>3 DEF sessionVars, OwnerConsumes, OwnerNext, PipeNext
  <2> QED
    BY <1>5, <2>1, <2>2, <2>3, TakingDrops DEF AppInv
<1>6. CASE JoinsDone /\ RespawnOne
  <2>1. UNCHANGED <<bus, rxOpen>>
    BY <1>6 DEF RespawnOne
  <2>2. (\E n \in Positions, s \in Sessions : SpawnSession(s, panes[n].id)) \/ UNCHANGED sessionVars
    BY <1>6 DEF RespawnOne, SpawnSucceeds, SpawnFails
  <2>3. CASE \E n \in Positions, s \in Sessions : SpawnSession(s, panes[n].id)
    BY <1>6, <2>1, <2>3, Facts DEF OwnerSpawns, OwnerNext, PipeNext, AppInv
  <2>4. CASE UNCHANGED sessionVars
    BY <1>1, <2>1, <2>4 DEF sessionVars, pipeVars, childVars, threadVars
  <2> QED
    BY <2>2, <2>3, <2>4
<1>7. CASE JoinsDone /\ Stop
  <2>1. UNCHANGED sessionVars /\ UNCHANGED bus /\ rxOpen' = FALSE
    BY <1>7 DEF Stop
  <2>2. CASE rxOpen
    BY <1>7, <2>1, <2>2 DEF OwnerLeaves, OwnerNext, PipeNext, sessionVars
  <2>3. CASE ~rxOpen
    BY <1>1, <2>1, <2>3 DEF sessionVars, pipeVars, childVars, threadVars, PipeTypeOK
  <2> QED
    BY <2>2, <2>3
<1>8. CASE Looking /\ ~Stop
  <2>1. UNCHANGED pipeVars
    BY <1>8 DEF Looking, Started, ReapPoll, DrainEnd, PumpEnd, Idle, SwitchMode, Quit, CheckExit, LoopFails
  <2> QED
    BY <1>1, <2>1
<1>9. CASE BackoffElapses \/ UNCHANGED appVars
  BY <1>1, <1>9 DEF BackoffElapses, appVars
<1> QED
  BY <1>2, <1>3, <1>4, <1>5, <1>6, <1>7, <1>8, <1>9 DEF AppNext, UINext, Looking, Spawning

\* The application uses its sessions and its bus as PtyPipeline's owner may, so all
\* that is proved of the pipeline on its own holds of the one in the application.
LEMMA AppPipeAlways == AppSpec => [](AppInv /\ PipeInv)
<1>1. AppInit => AppInv /\ PipeInv
  BY AppInitially, PipeInitially DEF AppInit
<1>2. (AppInv /\ PipeInv) /\ [AppNext]_appVars => (AppInv /\ PipeInv)'
  <2>1. PipeInv => PipeTypeOK
    BY DEF PipeInv
  <2> QED
    BY <2>1, AppStep, AppPipeStep, PipeStep
<1> QED
  BY <1>1, <1>2, PTL DEF AppSpec

\* Of spawn_one, respawn, reap_exited, apply_update, close_focused_pane and Drop, with
\* the threads as fairly scheduled here as there: AgentApp implements PtyPipeline.
THEOREM OwnsAPipeline == AppSpec => PipeSpec
<1>1. AppInit => PipeInit
  BY DEF AppInit
<1>2. AppInv /\ PipeInv /\ [AppNext]_appVars => [PipeNext]_pipeVars
  BY AppPipeStep DEF PipeInv
<1>3. AppFairness => ThreadFairness
  BY PTL DEF AppFairness
<1> QED
  BY <1>1, <1>2, <1>3, AppPipeAlways, PTL DEF AppSpec, PipeSpec

\* Whatever the application does with its sessions, it is sent all of a child's output
\* before the child's Exit, and nothing of it afterwards.
THEOREM AppStreamIsWhole == AppSpec => []StreamWholeThenExit
BY OwnsAPipeline, StreamIsWhole, PTL

-----------------------------------------------------------------------------
(* The tasks the panes carry *)

\* A pane's task has been released, and a task's release is not taken back.
Carried ==
  \A i \in Places : pane_task[i] # None =>
    pane_task[i] \in Planned /\ tasks[pane_task[i]].status \in {"InProgress", "Done"}

\* What a step may do to the tasks and to the panes' tasks: nothing, a pane without a
\* task, a release with the pane for it, a report, a pane less.
TaskStep ==
  \/ UNCHANGED <<coordVars, pane_task>>
  \/ UNCHANGED coordVars /\ pane_task' = Append(pane_task, None)
  \/ \E t \in Known, agent \in Agents : Release(t, agent) /\ pane_task' = Append(pane_task, t)
  \/ \E n \in Places : pane_task[n] # None /\ ReportDone(pane_task[n]) /\ UNCHANGED pane_task
  \/ \E n \in Places : UNCHANGED coordVars /\ pane_task' = RemoveAt(pane_task, n)

LEMMA TaskSteps == AppInv /\ [AppNext]_appVars => TaskStep
<1> SUFFICES ASSUME AppInv, [AppNext]_appVars PROVE TaskStep
  OBVIOUS
<1>1. Positions = Places
  BY Facts DEF AppInv
<1>2. ASSUME NEW n \in Places, NEW c, ExitApplied(n, c) PROVE TaskStep
  BY <1>2 DEF ExitApplied, ReportExit, TaskStep
<1>3. ASSUME NEW task, NEW retry, SpawnPane(task, retry) PROVE pane_task' = Append(pane_task, task)
  BY <1>3 DEF SpawnPane
<1>4. CASE ReapOne
  BY <1>2, <1>4 DEF ReapOne, AppInv, ReapedHere
<1>5. CASE DrainOne
  BY <1>1, <1>2, <1>5 DEF DrainOne, PositionsOf, TaskStep, vecs
<1>6. CASE StartAgent \/ PickAgent
  BY <1>3, <1>6 DEF StartAgent, PickAgent, TaskStep, vecs
<1>7. CASE DispatchOne
  BY <1>3, <1>7 DEF DispatchOne, TaskStep
<1>8. CASE ClosePane
  BY <1>1, <1>8 DEF ClosePane, TaskStep
<1>9. CASE RespawnOne \/ DropNext \/ EnvNext \/ BackoffElapses \/ UNCHANGED appVars
  BY <1>9 DEF RespawnOne, DropNext, EnvNext, BackoffElapses, appVars, vecs, TaskStep
<1>10. CASE Looking
  BY <1>10 DEF Looking, Started, ReapPoll, DrainEnd, PumpEnd, Idle, SwitchMode, Quit, CheckExit, LoopFails, Stop, vecs,
             TaskStep
<1> QED
  BY <1>4, <1>5, <1>6, <1>7, <1>8, <1>9, <1>10 DEF AppNext, UINext, Looking

LEMMA CarriedStep ==
  AppInv /\ AppInv' /\ LoopInv /\ Carried /\ TaskStep => [LoopNext]_coordVars /\ Carried'
<1> SUFFICES ASSUME AppInv, AppInv', LoopInv, Carried, TaskStep PROVE [LoopNext]_coordVars /\ Carried'
  OBVIOUS
<1>1. /\ Listed(pane_task) /\ Len(pane_task) \in Nat /\ Len(pane_task) = Len(panes)
      /\ Places = 1..Len(pane_task) /\ Places' = 1..Len(pane_task')
  BY DEF AppInv, GridInv, Vectors, Places, Listed
<1>2. Known = Planned /\ Planned \subseteq Nat
  BY KnownIsPlanned DEF Planned
<1>3. CASE UNCHANGED <<coordVars, pane_task>>
  BY <1>1, <1>3 DEF coordVars, Carried
<1>4. CASE UNCHANGED coordVars /\ pane_task' = Append(pane_task, None)
  <2>1. \A i \in Places' : pane_task'[i] # None => i \in Places /\ pane_task'[i] = pane_task[i]
    BY <1>1, <1>4, AppendToListed
  <2> QED
    BY <1>4, <2>1 DEF coordVars, Carried
<1>5. ASSUME NEW t \in Known, NEW agent \in Agents, Release(t, agent), pane_task' = Append(pane_task, t)
      PROVE  [LoopNext]_coordVars /\ Carried'
  <2>1. \A i \in Places' : (i \in Places /\ pane_task'[i] = pane_task[i]) \/ pane_task'[i] = t
    BY <1>1, <1>5, AppendToListed
  <2>2. /\ tasks[t].status = "Pending" /\ tasks'[t].status = "InProgress"
        /\ \A u \in Planned : u # t => tasks'[u] = tasks[u]
    BY <1>2, <1>5, ReleaseShape
  <2>3. LoopNext
    BY <1>2, <1>5 DEF LoopNext
  <2> QED
    BY <1>2, <2>1, <2>2, <2>3 DEF Carried
<1>6. ASSUME NEW n \in Places, pane_task[n] # None, ReportDone(pane_task[n]), UNCHANGED pane_task
      PROVE  [LoopNext]_coordVars /\ Carried'
  <2>1. Report(pane_task[n]) /\ pane_task[n] \in Planned
    BY <1>2, <1>6 DEF Report, Carried
  <2>2. /\ tasks'[pane_task[n]].status = "Done"
        /\ \A u \in Planned : u # pane_task[n] => tasks'[u] = tasks[u]
    BY <2>1, ReportShape
  <2>3. LoopNext
    BY <2>1 DEF LoopNext
  <2> QED
    BY <1>1, <1>6, <2>2, <2>3 DEF Carried
<1>7. ASSUME NEW n \in Places, UNCHANGED coordVars, pane_task' = RemoveAt(pane_task, n)
      PROVE  [LoopNext]_coordVars /\ Carried'
  <2>1. \A i \in Places' : \E j \in Places : pane_task'[i] = pane_task[j]
    <3>1. n \in 1..Len(pane_task)
      BY <1>1
    <3>2. /\ Len(pane_task') = Len(pane_task) - 1
          /\ \A i \in 1..(Len(pane_task) - 1) :
               pane_task'[i] = IF i < n THEN pane_task[i] ELSE pane_task[i + 1]
      BY <1>1, <1>7, <3>1, RemoveFromListed
    <3> QED
      BY <1>1, <3>1, <3>2
  <2> QED
    BY <1>7, <2>1 DEF coordVars, Carried
<1> QED
  BY <1>3, <1>4, <1>5, <1>6, <1>7 DEF TaskStep

TaskedInv == AppInv /\ LoopInv /\ Carried

LEMMA TaskedInitially == AppInit => TaskedInv
<1>1. AppInit => Places = {}
  BY DEF AppInit, Places
<1> QED
  BY <1>1, AppInitially, InitLoopInv DEF AppInit, TaskedInv, Carried

LEMMA TaskedStep == TaskedInv /\ [AppNext]_appVars => TaskedInv' /\ [LoopNext]_coordVars
BY AppStep, TaskSteps, CarriedStep, NextLoopInv DEF TaskedInv

LEMMA TaskedAlways == AppSpec => []TaskedInv
BY TaskedInitially, TaskedStep, PTL DEF AppSpec

\* pump_orchestration releases, and apply_update reports, only as CoordinatorLoop says:
\* a report is always of a task that was released, whichever path it comes by, with
\* any number of agents, failed spawns, closed panes and reconnects.
THEOREM AppDrivesTheLoop == AppSpec => DrivesTheLoop
<1>1. AppInit => LoopInit
  BY DEF AppInit
<1> QED
  BY <1>1, TaskedStep, TaskedAlways, PTL DEF AppSpec, DrivesTheLoop, LoopSpec

\* So the whole application runs its plan as OrchestratedRun says.
THEOREM AppImplementsRun == AppSpec => ImplementsRun
BY AppDrivesTheLoop, LoopRefinesRun, PTL DEF DrivesTheLoop

\* And in the default, sequential mode at most one agent works at any time.
THEOREM AppWorksInOrder == AppSpec => []WorksInOrder
BY AppImplementsRun, InOrder, PTL

-----------------------------------------------------------------------------
(***************************************************************************)
(* The pane a task has, in a run where every spawn succeeds and nobody     *)
(* closes a pane.                                                          *)
(***************************************************************************)
Orderly == ~SpawnMayFail /\ "x" \notin Keys

\* A task has at most one pane, which is not one that is respawned and which ends
\* with its task; a task in progress has one.
Staffed ==
  /\ \A i \in Places : pane_task[i] # None =>
       /\ reconnect[i] = None
       /\ panes[i].state = "Running" <=> tasks[pane_task[i]].status = "InProgress"
  /\ \A i, j \in Places : (pane_task[i] # None /\ pane_task[i] = pane_task[j]) => i = j
  /\ \A t \in Planned : tasks[t].status = "InProgress" => \E i \in Places : pane_task[i] = t

\* The panes that carry tasks are left alone, and so are the tasks.
StaffStill ==
  /\ UNCHANGED <<coordVars, pane_task>>
  /\ Len(panes') = Len(panes)
  /\ \A i \in Places : reconnect[i] = None => reconnect'[i] = None /\ panes'[i].state = panes[i].state

LEMMA StaffStillKeeps ==
  ASSUME TaskedInv, Staffed, StaffStill
  PROVE  Staffed'
<1>1. Places' = Places /\ UNCHANGED <<tasks, pane_task>>
  BY DEF StaffStill, Places, coordVars
<1> QED
  BY <1>1 DEF Staffed, StaffStill

LEMMA ExitStaff ==
  ASSUME TaskedInv, Staffed, NEW n \in Places, NEW c, ExitApplied(n, c)
  PROVE  Staffed'
<1>1. /\ Places' = Places /\ UNCHANGED pane_task /\ \A i \in Places \ {n} : panes'[i] = panes[i]
      /\ panes'[n].state # "Running"
      /\ \A i \in Places : reconnect[i] = None => reconnect'[i] = None
  <2>1. Ended(n) /\ panes'[n].state # "Running"
    BY ExitEnds DEF TaskedInv, AppInv
  <2>2. \A i \in Places : reconnect[i] = None => reconnect'[i] = None
    BY ExitEnds DEF TaskedInv, AppInv
  <2> QED
    BY <2>1, <2>2 DEF Ended, Places, ExitApplied
<1>2. CASE pane_task[n] = None
  <2>1. UNCHANGED tasks
    BY <1>2 DEF ExitApplied, ReportExit, coordVars
  <2> QED
    BY <1>1, <1>2, <2>1 DEF Staffed
<1>3. CASE pane_task[n] # None
  <2> DEFINE t == pane_task[n]
  <2>1. ReportDone(t)
    <3>1. ~RetriesLeft(n)
      BY <1>3 DEF Staffed, RetriesLeft
    <3> QED
      BY <1>3, <3>1 DEF ExitApplied, ReportExit
  <2>2. t \in Planned /\ Report(t)
    <3>1. t \in Planned /\ t \in Known /\ tasks[t].status \in {"InProgress", "Done"}
      BY <1>3, KnownIsPlanned DEF TaskedInv, Carried
    <3> QED
      BY <2>1, <3>1 DEF Report
  <2>3. tasks'[t].status = "Done" /\ \A u \in Planned : u # t => tasks'[u] = tasks[u]
    BY <2>2, ReportShape DEF TaskedInv
  <2>4. \A i \in Places : pane_task[i] # None => pane_task[i] \in Planned
    BY DEF TaskedInv, Carried
  <2>5. \A i \in Places \ {n} : pane_task[i] # None => pane_task[i] # t
    BY <1>3 DEF Staffed
  <2> HIDE DEF t
  <2> DEFINE ok(i) == /\ reconnect'[i] = None
                      /\ panes'[i].state = "Running" <=> tasks'[pane_task[i]].status = "InProgress"
  <2>6. \A i \in Places : pane_task[i] # None => ok(i)
    <3>1. ok(n)
      BY <1>1, <1>3, <2>3 DEF Staffed, t
    <3>2. ASSUME NEW i \in Places \ {n}, pane_task[i] # None PROVE ok(i)
      BY <1>1, <2>3, <2>4, <2>5, <3>2 DEF Staffed
    <3> QED
      BY <3>1, <3>2
  <2>7. \A u \in Planned : tasks'[u].status = "InProgress" => \E i \in Places : pane_task[i] = u
    BY <2>3 DEF Staffed
  <2> QED
    BY <1>1, <2>6, <2>7 DEF Staffed
<1> QED
  BY <1>2, <1>3

\* A pane that does not fail to start: with no task, or with the one released for it.
LEMMA SpawnStaff ==
  ASSUME TaskedInv, Staffed, ~SpawnMayFail, NEW task, NEW retry, SpawnPane(task, retry),
         \/ task = None /\ UNCHANGED coordVars
         \/ task \in Known /\ retry = None /\ \E agent \in Agents : Release(task, agent)
  PROVE  Staffed'
<1> DEFINE last == Len(panes) + 1
<1>1. /\ panes \in Seq(PaneRecord) /\ Listed(pane_task) /\ Listed(reconnect) /\ next_pane_id \in PaneIds
      /\ Len(pane_task) = Len(panes) /\ Len(reconnect) = Len(panes) /\ Len(panes) \in Nat
  BY DEF TaskedInv, AppInv, GridInv, Vectors, SpawnPane, Listed
<1>2. [id |-> next_pane_id, state |-> "Running"] \in PaneRecord
  BY <1>1 DEF PaneRecord, AgentState
<1>3. panes' = Append(panes, [id |-> next_pane_id, state |-> "Running"])
  BY DEF SpawnPane, SpawnFails, NewPaneId
<1>4. /\ Len(panes') = last /\ \A i \in Places : panes'[i] = panes[i]
      /\ panes'[last] = [id |-> next_pane_id, state |-> "Running"]
  BY <1>1, <1>2, <1>3 DEF Places
<1>5. panes'[last].state = "Running"
  BY <1>4
<1>6. (\A i \in Places : pane_task'[i] = pane_task[i]) /\ pane_task'[last] = task
  BY <1>1, AppendToListed DEF SpawnPane, Places
<1>7. (\A i \in Places : reconnect'[i] = reconnect[i]) /\ reconnect'[last] = retry
  BY <1>1, AppendToListed DEF SpawnPane, Places
<1>8. Places' = Places \union {last} /\ last \notin Places
  BY <1>1, <1>4 DEF Places
<1> HIDE DEF last
<1>9. CASE task = None /\ UNCHANGED coordVars
  <2>1. UNCHANGED tasks
    BY <1>9 DEF coordVars
  <2> QED
    BY <1>4, <1>6, <1>7, <1>8, <1>9, <2>1 DEF Staffed
<1>10. CASE task \in Known /\ retry = None /\ \E agent \in Agents : Release(task, agent)
  <2>1. task \in Planned /\ Known = Planned
    BY <1>10, KnownIsPlanned DEF TaskedInv
  <2>2. /\ tasks[task].status = "Pending" /\ tasks'[task].status = "InProgress"
        /\ \A u \in Planned : u # task => tasks'[u] = tasks[u]
    BY <1>10, <2>1, ReleaseShape DEF TaskedInv
  <2>3. \A i \in Places : pane_task[i] # None => pane_task[i] \in Planned /\ pane_task[i] # task
    BY <2>2 DEF TaskedInv, Carried
  <2>4. ASSUME NEW i \in Places', pane_task'[i] # None
        PROVE  /\ reconnect'[i] = None
               /\ panes'[i].state = "Running" <=> tasks'[pane_task'[i]].status = "InProgress"
    <3>1. CASE i = last
      BY <1>5, <1>6, <1>7, <1>10, <2>2, <3>1
    <3>2. CASE i \in Places
      BY <1>4, <1>6, <1>7, <2>2, <2>3, <2>4, <3>2 DEF Staffed
    <3> QED
      BY <1>8, <3>1, <3>2
  <2>5. \A i, j \in Places' : (pane_task'[i] # None /\ pane_task'[i] = pane_task'[j]) => i = j
    BY <1>6, <1>8, <2>3 DEF Staffed
  <2>6. \A u \in Planned : tasks'[u].status = "InProgress" => \E i \in Places' : pane_task'[i] = u
    <3>1. \A u \in Planned \ {task} : tasks'[u].status = "InProgress" => \E i \in Places : pane_task[i] = u
      BY <2>2 DEF Staffed
    <3> QED
      BY <1>6, <1>8, <3>1
  <2> QED
    BY <2>4, <2>5, <2>6 DEF Staffed
<1> QED
  BY <1>9, <1>10

LEMMA StaffStep == Orderly /\ TaskedInv /\ Staffed /\ [AppNext]_appVars => Staffed'
<1> SUFFICES ASSUME Orderly, TaskedInv, Staffed, [AppNext]_appVars PROVE Staffed'
  OBVIOUS
<1>1. Positions = Places
  BY Facts DEF TaskedInv, AppInv
<1>2. CASE UNCHANGED <<coordVars, pane_task, panes, reconnect>>
  BY <1>2, StaffStillKeeps DEF StaffStill
<1>3. CASE ReapOne
  BY <1>3, ExitStaff DEF ReapOne, TaskedInv, AppInv, ReapedHere
<1>4. CASE DrainOne
  BY <1>1, <1>2, <1>4, ExitStaff DEF DrainOne, PositionsOf, vecs
<1>5. CASE StartAgent
  BY <1>5, SpawnStaff DEF StartAgent, Orderly
<1>6. CASE PickAgent
  BY <1>2, <1>6, SpawnStaff DEF PickAgent, Orderly, vecs
<1>7. CASE DispatchOne
  BY <1>7, SpawnStaff DEF DispatchOne, Orderly
<1>8. CASE RespawnOne
  <2>1. PICK n \in Places :
          /\ reconnect[n] # None
          /\ \/ UNCHANGED <<panes, reconnect>>
             \/ /\ reconnect' = [reconnect EXCEPT ![n] = 0]
                /\ \E st : panes' = [panes EXCEPT ![n] = [panes[n] EXCEPT !.state = st]]
    BY <1>1, <1>8 DEF RespawnOne, Due
  <2>2. UNCHANGED <<coordVars, pane_task>>
    BY <1>8 DEF RespawnOne
  <2>3. CASE UNCHANGED <<panes, reconnect>>
    BY <1>2, <2>2, <2>3
  <2>4. CASE /\ reconnect' = [reconnect EXCEPT ![n] = 0]
             /\ \E st : panes' = [panes EXCEPT ![n] = [panes[n] EXCEPT !.state = st]]
    <3>1. panes \in Seq(PaneRecord) /\ Listed(reconnect) /\ Len(reconnect) = Len(panes)
      BY DEF TaskedInv, AppInv, GridInv, Vectors
    <3>2. \A i \in Places \ {n} : reconnect'[i] = reconnect[i] /\ panes'[i] = panes[i]
      BY <2>4, <3>1 DEF Places, Listed
    <3>3. Len(panes') = Len(panes)
      <4>1. AppInv'
        BY AppStep DEF TaskedInv
      <4>2. Len(pane_task) = Len(panes) /\ Len(pane_task') = Len(panes')
        BY <4>1 DEF TaskedInv, AppInv, GridInv, Vectors
      <4> QED
        BY <2>2, <4>2
    <3> QED
      BY <2>1, <2>2, <3>2, <3>3, StaffStillKeeps DEF StaffStill
  <2> QED
    BY <2>1, <2>3, <2>4
<1>9. CASE DropNext \/ EnvNext \/ BackoffElapses \/ UNCHANGED appVars
  BY <1>2, <1>9 DEF DropNext, EnvNext, BackoffElapses, appVars, vecs
<1>10. CASE Looking
  BY <1>2, <1>10 DEF Looking, Started, ReapPoll, DrainEnd, PumpEnd, Idle, SwitchMode, Quit, CheckExit, LoopFails, Stop, vecs
<1>11. ~ClosePane
  BY DEF Orderly, ClosePane, Key
<1> QED
  BY <1>3, <1>4, <1>5, <1>6, <1>7, <1>8, <1>9, <1>10, <1>11 DEF AppNext, UINext, Looking

\* Where spawns succeed and no pane is closed by hand, a task of any plan is in
\* progress exactly while one pane runs it (spawn_one's pane_task, apply_update).
THEOREM TasksHavePanes ==
  ASSUME ~SpawnMayFail, "x" \notin Keys
  PROVE  AppSpec => []TaskHasItsPane
<1>1. Orderly
  BY DEF Orderly
<1>2. AppInit => TaskedInv /\ Staffed
  <2>1. AppInit => Places = {}
    BY DEF AppInit, Places
  <2>2. AppInit => \A t \in Planned : tasks[t].status # "InProgress"
    BY DEF AppInit, LoopInit, NewTask
  <2> QED
    BY <2>1, <2>2, TaskedInitially DEF Staffed
<1>3. (TaskedInv /\ Staffed) /\ [AppNext]_appVars => (TaskedInv /\ Staffed)'
  BY <1>1, TaskedStep, StaffStep
<1>4. TaskedInv /\ Staffed => TaskHasItsPane
  <2> SUFFICES ASSUME TaskedInv, Staffed, NEW t \in Known
               PROVE  /\ (tasks[t].status = "InProgress") <=> \E i \in Positions : pane_task[i] = t /\ ~Terminal(i)
                      /\ Cardinality({i \in Positions : pane_task[i] = t}) <= 1
    BY DEF TaskHasItsPane
  <2>1. Positions = Places
    BY Facts DEF TaskedInv, AppInv
  <2>2. t \in Planned /\ t # None
    BY KnownIsPlanned, IdsAreNumbers DEF TaskedInv, Planned
  <2>3. (tasks[t].status = "InProgress") <=> \E i \in Places : pane_task[i] = t /\ panes[i].state = "Running"
    BY <2>2 DEF Staffed
  <2>4. Cardinality({i \in Places : pane_task[i] = t}) <= 1
    <3>1. CASE {i \in Places : pane_task[i] = t} = {}
      BY <3>1, FS_EmptySet
    <3>2. ASSUME NEW n \in Places, pane_task[n] = t PROVE {i \in Places : pane_task[i] = t} = {n}
      BY <2>2, <3>2 DEF Staffed
    <3>3. CASE \E n \in Places : pane_task[n] = t
      <4>1. PICK n \in Places : {i \in Places : pane_task[i] = t} = {n}
        BY <3>2, <3>3
      <4>2. Cardinality({n}) = 1
        BY FS_Singleton
      <4> QED
        BY <4>1, <4>2
    <3> QED
      BY <3>1, <3>3
  <2> QED
    BY <2>1, <2>3, <2>4 DEF Terminal
<1> QED
  BY <1>2, <1>3, <1>4, PTL DEF AppSpec

-----------------------------------------------------------------------------
(***************************************************************************)
(* Who kills whom, and where the output goes.                              *)
(***************************************************************************)

\* A session that was spawned has the id of a pane that was handed out and, unless
\* panes are respawned, an id of its own.
Numbered ==
  /\ next_pane_id \in Nat
  /\ \A s \in Sessions : proc[s] # "absent" => pane[s] \in Nat /\ pane[s] < next_pane_id
  /\ ~Reconnecting =>
       \A r, s \in Sessions : (proc[r] # "absent" /\ proc[s] # "absent" /\ pane[r] = pane[s]) => r = s

\* What the sweep found is still there, and still gone, when its turn comes.
StillGone ==
  pc = "reaped" => \A i \in reaped : sessions[i] \in Sessions /\ Gone(sessions[i])

\* The loop listens until it stops, and gets to the end because the user quits,
\* because the screen fails or because nothing is left to run.
ListensToTheEnd ==
  /\ pc # "stopped" => rxOpen
  /\ pc = "teardown" => quit \/ failed \/ \A i \in Places : sessions[i] = None

\* What a step does to the sessions there are, and to the ids.
PaneStep ==
  \/ /\ \A s \in Sessions : proc'[s] = "absent" <=> proc[s] = "absent"
     /\ UNCHANGED pane
     /\ next_pane_id' \in {next_pane_id, next_pane_id + 1}
  \/ \E s \in Sessions : SpawnSession(s, next_pane_id) /\ next_pane_id' = next_pane_id + 1
  \/ /\ Reconnecting
     /\ \E s \in Sessions, n \in Places : SpawnSession(s, panes[n].id)
     /\ UNCHANGED next_pane_id

LEMMA PaneSteps == AppInv /\ [AppNext]_appVars => PaneStep
<1> SUFFICES ASSUME AppInv, [AppNext]_appVars PROVE PaneStep
  OBVIOUS
<1>1. Positions = Places
  BY Facts DEF AppInv
<1>2. CASE UNCHANGED <<proc, pane, next_pane_id>>
  BY <1>2 DEF PaneStep
<1>3. ASSUME NEW n \in Places, DropSessions({sessions[n]} \ {None}), UNCHANGED next_pane_id PROVE PaneStep
  <2>1. \A s \in Sessions : proc'[s] = "absent" <=> proc[s] = "absent"
    BY <1>3 DEF DropSessions, AppInv, GridInv, Processes
  <2> QED
    BY <1>3, <2>1 DEF DropSessions, PaneStep
<1>4. ASSUME NEW task, NEW retry, SpawnPane(task, retry) PROVE PaneStep
  <2>1. CASE \E s \in Sessions : SpawnSession(s, next_pane_id)
    BY <1>4, <2>1 DEF SpawnPane, PaneStep
  <2>2. CASE UNCHANGED sessionVars
    BY <1>4, <2>2 DEF SpawnPane, PaneStep, sessionVars, childVars
  <2> QED
    BY <1>4, <2>1, <2>2 DEF SpawnPane, SpawnSucceeds, SpawnFails, NewPaneId
<1>5. CASE ReapOne
  BY <1>3, <1>5 DEF ReapOne, ExitApplied, TakeSession, AppInv, ReapedHere
<1>6. CASE DrainOne
  BY <1>1, <1>2, <1>3, <1>6 DEF DrainOne, PositionsOf, ExitApplied, TakeSession, sessionVars, childVars
<1>7. CASE StartAgent \/ DispatchOne
  BY <1>4, <1>7 DEF StartAgent, DispatchOne
<1>8. CASE PickAgent
  BY <1>2, <1>4, <1>8 DEF PickAgent, sessionVars, childVars
<1>9. CASE RespawnOne
  <2>1. PICK n \in Places :
          /\ reconnect[n] # None
          /\ UNCHANGED sessionVars \/ \E s \in Sessions : SpawnSession(s, panes[n].id)
    BY <1>1, <1>9 DEF RespawnOne, Due, SpawnSucceeds, SpawnFails
  <2>2. Reconnecting /\ UNCHANGED next_pane_id
    BY <1>9, <2>1 DEF RespawnOne, AppInv, GridInv, NoneEligible
  <2> QED
    BY <1>2, <2>1, <2>2 DEF PaneStep, sessionVars, childVars
<1>10. CASE ClosePane
  BY <1>1, <1>3, <1>10 DEF ClosePane
<1>11. CASE DropNext
  BY <1>1, <1>3, <1>11 DEF DropNext, TakeSession
<1>12. CASE EnvNext
  <2>1. UNCHANGED <<pane, next_pane_id>>
    BY <1>12 DEF EnvNext, ChildNext, ThreadNext, ChildWrites, ChildForks, ChildClosesTty, ChildExits,
           DescendantExits, ReaderPump, ReaderEof, Forward, ForwardExit
  <2>2. proc' = proc \/ \E s \in Sessions : proc[s] = "running" /\ proc' = [proc EXCEPT ![s] = "exited"]
    BY <1>12 DEF EnvNext, ChildNext, ThreadNext, ChildWrites, ChildForks, ChildClosesTty, ChildExits,
           DescendantExits, ReaderPump, ReaderEof, Forward, ForwardExit, childVars
  <2>3. \A s \in Sessions : proc'[s] = "absent" <=> proc[s] = "absent"
    BY <2>2 DEF AppInv, GridInv, Processes
  <2> QED
    BY <2>1, <2>3 DEF PaneStep
<1>13. CASE BackoffElapses \/ UNCHANGED appVars
  BY <1>2, <1>13 DEF BackoffElapses, appVars, pipeVars
<1>14. CASE Looking
  BY <1>2, <1>14 DEF Looking, Started, ReapPoll, DrainEnd, PumpEnd, Idle, SwitchMode, Quit, CheckExit, LoopFails, Stop,
         pipeVars, sessionVars, childVars
<1> QED
  BY <1>5, <1>6, <1>7, <1>8, <1>9, <1>10, <1>11, <1>12, <1>13, <1>14 DEF AppNext, UINext, Looking

LEMMA NumberedStep == AppInv /\ Numbered /\ PaneStep => Numbered'
<1> SUFFICES ASSUME AppInv, Numbered, PaneStep PROVE Numbered'
  OBVIOUS
<1>1. CASE /\ \A s \in Sessions : proc'[s] = "absent" <=> proc[s] = "absent"
           /\ UNCHANGED pane
           /\ next_pane_id' \in {next_pane_id, next_pane_id + 1}
  BY <1>1 DEF Numbered
<1>2. ASSUME NEW s \in Sessions, SpawnSession(s, next_pane_id), next_pane_id' = next_pane_id + 1
      PROVE  Numbered'
  <2>1. \A r \in Sessions : /\ pane'[r] = IF r = s THEN next_pane_id ELSE pane[r]
                            /\ proc'[r] = IF r = s THEN "running" ELSE proc[r]
    BY <1>2, SpawnFacts DEF AppInv
  <2> QED
    BY <1>2, <2>1 DEF Numbered
<1>3. ASSUME Reconnecting, NEW s \in Sessions, NEW n \in Places, SpawnSession(s, panes[n].id),
             UNCHANGED next_pane_id
      PROVE  Numbered'
  <2>1. panes[n].id \in Nat /\ panes[n].id < next_pane_id
    BY Facts DEF AppInv, GridInv, Increasing
  <2>2. \A r \in Sessions : /\ pane'[r] = IF r = s THEN panes[n].id ELSE pane[r]
                            /\ proc'[r] = IF r = s THEN "running" ELSE proc[r]
    BY <1>3, SpawnFacts DEF AppInv
  <2> QED
    BY <1>3, <2>1, <2>2 DEF Numbered
<1> QED
  BY <1>1, <1>2, <1>3 DEF PaneStep

LEMMA StillGoneStep == AppInv /\ StillGone /\ [AppNext]_appVars => StillGone'
<1> SUFFICES ASSUME AppInv, StillGone, [AppNext]_appVars, pc' = "reaped", NEW i \in reaped'
             PROVE  sessions'[i] \in Sessions /\ Gone(sessions[i])'
  BY DEF StillGone
<1>1. CASE ReapPoll
  <2>1. i \in Positions /\ Reapable(i)
    BY <1>1 DEF ReapPoll
  <2>2. sessions[i] \in Sessions /\ Gone(sessions[i])
    BY <2>1, Facts DEF Reapable, AppInv
  <2>3. UNCHANGED <<sessions, proc>>
    BY <1>1 DEF ReapPoll, vecs, pipeVars
  <2> QED
    BY <2>2, <2>3 DEF Gone
<1>2. CASE ReapOne
  <2>1. PICK n \in reaped : ExitApplied(n, code[sessions[n]]) /\ reaped' = reaped \ {n}
    BY <1>2 DEF ReapOne
  <2>2. pc = "reaped" /\ i \in reaped /\ i # n /\ n \in Places /\ i \in Places
    BY <1>2, <2>1 DEF ReapOne, AppInv, ReapedHere
  <2>3. sessions'[i] = sessions[i]
    BY <2>1, <2>2 DEF ExitApplied, TakeSession, AppInv, GridInv, Vectors, Places
  <2>4. sessions[i] \in Sessions /\ Gone(sessions[i])
    BY <2>2 DEF StillGone
  <2>5. proc'[sessions[i]] = proc[sessions[i]]
    BY <2>1, <2>4 DEF ExitApplied, TakeSession, DropSessions, Gone
  <2> QED
    BY <2>3, <2>4, <2>5 DEF Gone
<1>3. CASE EnvNext
  <2>1. UNCHANGED <<sessions, pc, reaped>>
    BY <1>3 DEF EnvNext, vecs, loopVars
  <2>2. sessions[i] \in Sessions /\ Gone(sessions[i])
    BY <2>1 DEF StillGone
  <2>3. proc' = proc \/ \E s \in Sessions : proc[s] = "running" /\ proc' = [proc EXCEPT ![s] = "exited"]
    BY <1>3 DEF EnvNext, ChildNext, ThreadNext, ChildWrites, ChildForks, ChildClosesTty, ChildExits,
           DescendantExits, ReaderPump, ReaderEof, Forward, ForwardExit, childVars
  <2>4. proc'[sessions[i]] = proc[sessions[i]]
    BY <2>2, <2>3 DEF AppInv, GridInv, Processes, Gone
  <2> QED
    BY <2>1, <2>2, <2>4 DEF Gone
<1>4. CASE BackoffElapses \/ UNCHANGED appVars
  <2>1. UNCHANGED <<sessions, pc, reaped, proc>>
    BY <1>4 DEF BackoffElapses, appVars, vecs, loopVars, pipeVars
  <2> QED
    BY <2>1 DEF StillGone, Gone
<1>5. CASE UINext /\ ~ReapPoll /\ ~ReapOne
  <2>1. pc' # "reaped"
    BY <1>5 DEF UINext, StartAgent, Started, DrainOne, DrainEnd, DispatchOne, RespawnOne, PumpEnd, Idle,
           SwitchMode, PickAgent, ClosePane, Quit, CheckExit, LoopFails, DropNext, Stop, Key, Event, loopVars
  <2> QED
    BY <2>1
<1> QED
  BY <1>1, <1>2, <1>3, <1>4, <1>5 DEF AppNext

LEMMA ListensStep == AppInv /\ ListensToTheEnd /\ [AppNext]_appVars => ListensToTheEnd'
<1> SUFFICES ASSUME AppInv, ListensToTheEnd, [AppNext]_appVars PROVE ListensToTheEnd'
  OBVIOUS
<1>1. pc' # "stopped" => rxOpen'
  <2>1. CASE Stop
    BY <2>1 DEF Stop
  <2>2. CASE UINext /\ ~Stop
    BY <2>2 DEF UINext, StartAgent, Started, ReapPoll, ReapOne, DrainOne, DrainEnd, DispatchOne, RespawnOne, PumpEnd, Idle,
           SwitchMode, PickAgent, ClosePane, Quit, CheckExit, LoopFails, DropNext, Key, Event, loopVars, pipeVars,
           ListensToTheEnd
  <2>3. CASE EnvNext
    BY <2>3 DEF EnvNext, ChildNext, ThreadNext, ChildWrites, ChildForks, ChildClosesTty, ChildExits,
           DescendantExits, ReaderPump, ReaderEof, Forward, ForwardExit, loopVars, ListensToTheEnd
  <2>4. CASE BackoffElapses \/ UNCHANGED appVars
    BY <2>4 DEF BackoffElapses, appVars, loopVars, pipeVars, ListensToTheEnd
  <2> QED
    BY <2>1, <2>2, <2>3, <2>4 DEF AppNext
<1>2. pc' = "teardown" => quit' \/ failed' \/ \A i \in Places' : sessions'[i] = None
  <2> SUFFICES ASSUME pc' = "teardown" PROVE quit' \/ failed' \/ \A i \in Places' : sessions'[i] = None
    OBVIOUS
  <2>1. CASE CheckExit
    <3>1. UNCHANGED <<quit, sessions, panes>> /\ (ShouldAutoExit \/ quit)
      BY <2>1 DEF CheckExit, userVars, vecs
    <3>2. Places = DOMAIN sessions
      BY DEF Places, AppInv, GridInv, Vectors
    <3> QED
      BY <3>1, <3>2 DEF ShouldAutoExit, AllSessionsGone, Places
  <2>2. CASE DropNext
    <3>1. UNCHANGED <<quit, failed, pc, panes>> /\ pc = "teardown" /\ \E n \in Places : sessions[n] # None
      BY <2>2, Facts DEF DropNext, userVars, loopVars, AppInv
    <3> QED
      BY <3>1 DEF ListensToTheEnd
  <2>3. CASE LoopFails
    BY <2>3 DEF LoopFails
  <2>4. CASE UINext /\ ~CheckExit /\ ~LoopFails /\ ~DropNext
    BY <2>4 DEF UINext, StartAgent, Started, ReapPoll, ReapOne, DrainOne, DrainEnd, DispatchOne, RespawnOne, PumpEnd, Idle,
           SwitchMode, PickAgent, ClosePane, Quit, Stop, Key, Event, loopVars
  <2>5. CASE EnvNext \/ BackoffElapses \/ UNCHANGED appVars
    <3>1. UNCHANGED <<pc, quit, failed, sessions, panes>>
      BY <2>5 DEF EnvNext, BackoffElapses, appVars, loopVars, userVars, vecs
    <3> QED
      BY <3>1 DEF ListensToTheEnd, Places
  <2> QED
    BY <2>1, <2>2, <2>3, <2>4, <2>5 DEF AppNext
<1> QED
  BY <1>1, <1>2 DEF ListensToTheEnd

FullInv == AppInv /\ PipeInv /\ Numbered /\ StillGone /\ ListensToTheEnd

LEMMA FullAlways == AppSpec => []FullInv
<1>1. AppInit => FullInv
  <2>1. AppInit => Numbered /\ StillGone /\ ListensToTheEnd
    BY DEF AppInit, PipeInit, Numbered, StillGone, ListensToTheEnd
  <2> QED
    BY <2>1, AppInitially, PipeInitially DEF AppInit, FullInv
<1>2. FullInv /\ [AppNext]_appVars => FullInv'
  <2>1. PipeInv => PipeTypeOK
    BY DEF PipeInv
  <2> QED
    BY <2>1, AppStep, AppPipeStep, PipeStep, PaneSteps, NumberedStep, StillGoneStep, ListensStep DEF FullInv
<1> QED
  BY <1>1, <1>2, PTL DEF AppSpec

\* Dropping a slot's session kills no other.
LEMMA KillsItsOwn ==
  ASSUME NEW n \in Places, DropSessions({sessions[n]} \ {None}), NEW s \in Sessions,
         proc[s] = "running", proc'[s] = "killed"
  PROVE  sessions[n] = s
BY DEF DropSessions

\* Whose Exit is applied to a pane that runs a session, if panes are not respawned.
LEMMA ExitIsItsOwn ==
  ASSUME FullInv, ~Reconnecting, NEW n \in Places, NEW s \in Sessions, sessions[n] = s,
         rxOpen, bus # <<>>, Head(bus).kind = "Exit", Head(bus).pane = panes[n].id
  PROVE  tty[s] = {}
<1> DEFINE u == Head(bus)
<1>1. bus \in Seq(Update) /\ 1 \in DOMAIN bus /\ u = bus[1] /\ u \in Update
  BY DEF FullInv, PipeInv, PipeTypeOK
<1>2. u.src \in Sessions
  BY <1>1 DEF Update
<1>3. forwarder[u.src] = "done" /\ proc[u.src] # "absent" /\ u.pane = pane[u.src]
  BY <1>1 DEF FullInv, PipeInv, ExitMeansDone, Addressed
<1>4. pane[s] = panes[n].id /\ proc[s] # "absent"
  <2>1. s # None
    BY IdsAreNumbers
  <2>2. handle[s] = "held"
    BY DEF FullInv, AppInv, GridInv, Owned
  <2> QED
    BY <2>1, <2>2 DEF FullInv, AppInv, GridInv, Owned, Wired
<1>5. s = u.src
  BY <1>2, <1>3, <1>4 DEF FullInv, Numbered
<1> QED
  BY <1>2, <1>3, <1>5 DEF FullInv, PipeInv, Winding, WindsDown

\* Where panes are not respawned, no Exit of an earlier agent and no mix-up of positions
\* kills an agent: only closing its pane, quitting, a failed screen, or its own end (Drop for PtySession,
\* reap_exited, apply_update, close_focused_pane).
THEOREM KillsOnPurpose ==
  ASSUME ~Reconnecting
  PROVE  AppSpec => KilledOnlyOnPurpose
<1> DEFINE Purpose ==
      \A s \in Sessions : (proc[s] = "running" /\ proc'[s] = "killed") =>
        \/ pc = "input" /\ \A i \in DOMAIN panes' : panes'[i].id # pane[s]
        \/ pc = "teardown" /\ (quit \/ failed)
        \/ "child" \notin tty[s]
<1>1. FullInv /\ [AppNext]_appVars => [Purpose]_proc
  <2> SUFFICES ASSUME FullInv, [AppNext]_appVars, NEW s \in Sessions, proc[s] = "running", proc'[s] = "killed"
               PROVE  \/ pc = "input" /\ \A i \in DOMAIN panes' : panes'[i].id # pane[s]
                      \/ pc = "teardown" /\ (quit \/ failed)
                      \/ "child" \notin tty[s]
    OBVIOUS
  <2>1. Positions = Places /\ s # None
    BY Facts, IdsAreNumbers DEF FullInv, AppInv
  <2>2. CASE ReapOne
    <3>1. PICK n \in reaped : ExitApplied(n, code[sessions[n]])
      BY <2>2 DEF ReapOne
    <3>2. n \in Places /\ Gone(sessions[n])
      BY <2>2 DEF ReapOne, FullInv, AppInv, ReapedHere, StillGone
    <3> QED
      BY <3>1, <3>2, KillsItsOwn DEF ExitApplied, TakeSession, Gone
  <2>3. CASE DrainOne
    <3>1. PICK n \in Places : ExitApplied(n, None) /\ Head(bus).kind = "Exit" /\ Head(bus).pane = panes[n].id
      BY <2>1, <2>3 DEF DrainOne, PositionsOf, sessionVars, childVars
    <3>2. sessions[n] = s
      BY <3>1, KillsItsOwn DEF ExitApplied, TakeSession
    <3>3. rxOpen /\ bus # <<>>
      BY <2>3 DEF DrainOne, FullInv, ListensToTheEnd
    <3>4. tty[s] = {}
      BY <3>1, <3>2, <3>3, ExitIsItsOwn
    <3> QED
      BY <3>4
  <2>4. CASE ClosePane
    <3>1. PICK n \in Places : Closed(n)
      BY <2>1, <2>4 DEF ClosePane, Closed
    <3>2. sessions[n] = s
      BY <3>1, KillsItsOwn DEF Closed
    <3>3. pane[s] = panes[n].id
      BY <2>1, <3>2 DEF FullInv, AppInv, GridInv, Wired
    <3>4. \A i \in DOMAIN panes' : \E j \in Places \ {n} : panes'[i] = panes[j]
      <4>1. panes \in Seq(PaneRecord) /\ n \in 1..Len(panes) /\ panes' = RemoveAt(panes, n)
        BY <3>1 DEF FullInv, AppInv, GridInv, Vectors, Places, Closed
      <4>2. /\ panes' \in Seq(PaneRecord) /\ Len(panes') = Len(panes) - 1
            /\ \A i \in 1..(Len(panes) - 1) : panes'[i] = IF i < n THEN panes[i] ELSE panes[i + 1]
        BY <4>1, RemoveFromSeq
      <4>3. Len(panes) \in Nat /\ DOMAIN panes' = 1..(Len(panes) - 1)
        BY <4>1, <4>2
      <4> QED
        BY <4>1, <4>2, <4>3 DEF Places
    <3>5. \A j \in Places \ {n} : panes[j].id # panes[n].id
      BY OneOfEach DEF FullInv, AppInv
    <3>6. pc = "input"
      BY <2>4 DEF ClosePane, Key, Event
    <3> QED
      BY <3>3, <3>4, <3>5, <3>6
  <2>5. CASE DropNext
    <3>1. pc = "teardown" /\ \E n \in Places : sessions[n] # None
      BY <2>1, <2>5 DEF DropNext
    <3> QED
      BY <3>1 DEF FullInv, ListensToTheEnd
  <2>6. CASE EnvNext
    <3>1. proc' = proc \/ \E r \in Sessions : proc' = [proc EXCEPT ![r] = "exited"]
      BY <2>6 DEF EnvNext, ChildNext, ThreadNext, ChildWrites, ChildForks, ChildClosesTty, ChildExits,
             DescendantExits, ReaderPump, ReaderEof, Forward, ForwardExit, childVars
    <3> QED
      BY <3>1 DEF FullInv, AppInv, GridInv, Processes
  <2>7. CASE Spawning \/ RespawnOne
    <3>1. UNCHANGED proc \/ \E r \in Sessions : proc' = [proc EXCEPT ![r] = "running"]
      BY <2>7 DEF Spawning, StartAgent, DispatchOne, PickAgent, RespawnOne, SpawnPane, SpawnSucceeds, SpawnFails,
             SpawnSession, sessionVars, childVars
    <3> QED
      BY <3>1 DEF FullInv, AppInv, GridInv, Processes
  <2>8. CASE Looking \/ BackoffElapses \/ UNCHANGED appVars
    BY <2>8 DEF Looking, Started, ReapPoll, DrainEnd, PumpEnd, Idle, SwitchMode, Quit, CheckExit, LoopFails, Stop,
           pipeVars, sessionVars, childVars, BackoffElapses, appVars
  <2> QED
    BY <2>2, <2>3, <2>4, <2>5, <2>6, <2>7, <2>8 DEF AppNext, UINext, Looking, Spawning
<1> QED
  BY <1>1, FullAlways, PTL DEF AppSpec, KilledOnlyOnPurpose

-----------------------------------------------------------------------------
(* Where the output goes *)

\* The updates with output of s.
OutputOf(s) == {u \in Update : u.kind = "Output" /\ u.src = s}

\* A session's pane was fed what its forwarder has sent, up to what is on the bus.
Fed(s) == shown[s] + Count(bus, OutputOf(s)) = sent[s]

HasPane(s) == \E i \in Places : panes[i].id = pane[s]

FedInv ==
  /\ shown \in [Sessions -> Nat]
  /\ \A s \in Sessions : proc[s] = "absent" => shown[s] = 0
  /\ \A s \in Sessions : HasPane(s) => Fed(s)

\* What is on the bus is an update of a session that was spawned, for its pane.
LEMMA BusFacts ==
  ASSUME FullInv
  PROVE  /\ bus \in Seq(Update) /\ sent \in [Sessions -> Nat]
         /\ \A k \in DOMAIN bus :
              /\ bus[k] \in Update /\ bus[k].src \in Sessions
              /\ bus[k].kind \in {"Output", "Exit"}
              /\ proc[bus[k].src] # "absent" /\ bus[k].pane = pane[bus[k].src]
<1>1. bus \in Seq(Update) /\ sent \in [Sessions -> Nat]
  BY PipelineAssumption DEF FullInv, PipeInv, PipeTypeOK
<1>2. \A k \in DOMAIN bus : bus[k] \in Update
  BY <1>1
<1> QED
  BY <1>1, <1>2 DEF Update, FullInv, PipeInv, Addressed

LEMMA NothingFromUnborn ==
  ASSUME FullInv, NEW s \in Sessions, proc[s] = "absent", shown[s] = 0
  PROVE  Fed(s)
<1>1. {k \in DOMAIN bus : bus[k] \in OutputOf(s)} = {}
  BY BusFacts DEF OutputOf
<1>2. Count(bus, OutputOf(s)) = 0
  BY <1>1, FS_EmptySet DEF Count
<1>3. sent[s] = 0
  BY DEF FullInv, PipeInv, Winding, Unborn
<1> QED
  BY <1>2, <1>3 DEF Fed

\* Output is fed to the pane as it is taken off the bus, if there is such a pane.
LEMMA DrainFeeds ==
  ASSUME FullInv, FedInv, DrainOne, NEW s \in Sessions
  PROVE  /\ proc[s] = "absent" => shown'[s] = shown[s]
         /\ Fed(s) /\ HasPane(s) => Fed(s)'
         /\ Fed(s) /\ proc[s] = "absent" => Fed(s)'
<1> DEFINE u == Head(bus)
           n == Count(bus, OutputOf(s))
           m == Count(Tail(bus), OutputOf(s))
<1>1. bus # <<>> /\ bus' = Tail(bus) /\ u = bus[1] /\ 1 \in DOMAIN bus
  BY BusFacts DEF DrainOne
<1>2. /\ u \in Update /\ u.src \in Sessions /\ u.kind \in {"Output", "Exit"}
      /\ proc[u.src] # "absent" /\ u.pane = pane[u.src]
  BY <1>1, BusFacts
<1>3. Tail(bus) \in Seq(Update)
  BY <1>1, BusFacts, TailTyped
<1>4. n \in Nat /\ m \in Nat /\ (u \in OutputOf(s) => n = m + 1) /\ (u \notin OutputOf(s) => n = m)
  <2>1. n \in Nat /\ m \in Nat
    BY <1>3, BusFacts, CountIsNat
  <2>2. n = m + IF u \in OutputOf(s) THEN 1 ELSE 0
    BY <1>1, BusFacts, CountTail
  <2> HIDE DEF n, m, u
  <2> QED
    BY <2>1, <2>2
<1>5. u \in OutputOf(s) <=> u.kind = "Output" /\ u.src = s
  BY <1>2 DEF OutputOf
<1>6. UNCHANGED sent
  BY DEF DrainOne, ExitApplied, TakeSession, DropSessions, sessionVars, threadVars
<1>7. (shown' = shown /\ (u.kind = "Output" => PositionsOf(u.pane) = {}))
      \/ (u.kind = "Output" /\ shown' = [shown EXCEPT ![u.src] = @ + 1])
  BY <1>2 DEF DrainOne
<1>8. shown \in [Sessions -> Nat] /\ sent[s] \in Nat
  BY BusFacts DEF FedInv
<1>9. PositionsOf(u.pane) = {} /\ u.src = s => ~HasPane(s)
  BY <1>2, Facts DEF PositionsOf, HasPane, FullInv, AppInv
<1>10. Fed(s)' <=> shown'[s] + m = sent[s]
  BY <1>1, <1>6 DEF Fed, OutputOf
<1>11. Fed(s) <=> shown[s] + n = sent[s]
  BY DEF Fed
<1> HIDE DEF u, n, m
<1>12. CASE u.kind = "Output" /\ shown' = [shown EXCEPT ![u.src] = @ + 1]
  <2>1. shown'[s] = IF s = u.src THEN shown[s] + 1 ELSE shown[s]
    BY <1>2, <1>8, <1>12
  <2>2. CASE s = u.src
    BY <1>2, <1>4, <1>5, <1>8, <1>10, <1>11, <1>12, <2>1, <2>2
  <2>3. CASE s # u.src
    BY <1>4, <1>5, <1>8, <1>10, <1>11, <2>1, <2>3
  <2> QED
    BY <2>2, <2>3
<1>13. CASE shown' = shown /\ (u.kind = "Output" => PositionsOf(u.pane) = {})
  <2>1. u \in OutputOf(s) => ~HasPane(s) /\ proc[s] # "absent"
    BY <1>2, <1>5, <1>9, <1>13
  <2> QED
    BY <1>4, <1>8, <1>10, <1>11, <1>13, <2>1
<1> QED
  BY <1>7, <1>12, <1>13

\* A forwarder counts what it puts on the bus.
LEMMA ForwardFeeds ==
  ASSUME FullInv, FedInv, NEW r \in Sessions, Forward(r) \/ ForwardExit(r), UNCHANGED shown, NEW s \in Sessions
  PROVE  Fed(s) => Fed(s)'
<1> DEFINE n == Count(bus, OutputOf(s))
           add(kind) == [kind |-> kind, pane |-> pane[r], src |-> r]
<1>1. add("Output") \in Update /\ add("Exit") \in Update
  BY DEF Update, FullInv, PipeInv, Attached, Forward, ForwardExit
<1>2. shown[s] \in Nat /\ n \in Nat /\ sent[s] \in Nat /\ sent \in [Sessions -> Nat]
  BY BusFacts, CountIsNat DEF FedInv
<1>3. add("Exit") \notin OutputOf(s) /\ (add("Output") \in OutputOf(s) <=> s = r)
  BY <1>1 DEF OutputOf
<1>4. Count(Append(bus, add("Exit")), OutputOf(s)) = n
  <2>1. Count(Append(bus, add("Exit")), OutputOf(s)) = n + IF add("Exit") \in OutputOf(s) THEN 1 ELSE 0
    BY <1>1, BusFacts, CountAppend
  <2> HIDE DEF n, add
  <2> QED
    BY <1>2, <1>3, <2>1
<1>5. Count(Append(bus, add("Output")), OutputOf(s)) = IF s = r THEN n + 1 ELSE n
  <2>1. Count(Append(bus, add("Output")), OutputOf(s)) = n + IF add("Output") \in OutputOf(s) THEN 1 ELSE 0
    BY <1>1, BusFacts, CountAppend
  <2> HIDE DEF n, add
  <2> QED
    BY <1>2, <1>3, <2>1
<1>6. \/ UNCHANGED <<bus, sent>>
      \/ bus' = Append(bus, add("Exit")) /\ sent' = sent
      \/ bus' = Append(bus, add("Output")) /\ sent' = [sent EXCEPT ![r] = @ + 1]
  BY DEF Forward, ForwardExit
<1>7. Fed(s) <=> shown[s] + n = sent[s]
  BY DEF Fed
<1>8. Fed(s)' <=> shown[s] + Count(bus', OutputOf(s)) = sent'[s]
  BY DEF Fed, OutputOf
<1> HIDE DEF add
<1>9. CASE UNCHANGED <<bus, sent>>
  BY <1>7, <1>8, <1>9
<1>10. CASE bus' = Append(bus, add("Exit")) /\ sent' = sent
  BY <1>4, <1>7, <1>8, <1>10
<1>11. CASE bus' = Append(bus, add("Output")) /\ sent' = [sent EXCEPT ![r] = @ + 1]
  <2>1. sent'[s] = IF s = r THEN sent[s] + 1 ELSE sent[s]
    BY <1>2, <1>11
  <2>2. Count(bus', OutputOf(s)) = IF s = r THEN n + 1 ELSE n
    BY <1>5, <1>11
  <2> HIDE DEF n
  <2> QED
    BY <1>2, <1>7, <1>8, <2>1, <2>2
<1> QED
  BY <1>6, <1>9, <1>10, <1>11

LEMMA FlowStep ==
  ASSUME FullInv, FedInv, [AppNext]_appVars, NEW s \in Sessions
  PROVE  /\ proc[s] = "absent" => shown'[s] = shown[s]
         /\ Fed(s) /\ HasPane(s) => Fed(s)'
         /\ Fed(s) /\ proc[s] = "absent" => Fed(s)'
<1>1. CASE UNCHANGED <<bus, sent, shown>>
  BY <1>1 DEF FedInv, Fed, OutputOf
<1>2. CASE DrainOne
  BY <1>2, DrainFeeds
<1>3. ASSUME NEW r \in Sessions, Forward(r) \/ ForwardExit(r), UNCHANGED shown
      PROVE  (proc[s] = "absent" => shown'[s] = shown[s]) /\ (Fed(s) => Fed(s)')
  BY <1>3, ForwardFeeds
<1>4. CASE EnvNext
  <2>1. UNCHANGED shown
    BY <1>4 DEF EnvNext
  <2>2. UNCHANGED <<bus, sent>> \/ \E r \in Sessions : Forward(r) \/ ForwardExit(r)
    BY <1>4 DEF EnvNext, ChildNext, ThreadNext, ChildWrites, ChildForks, ChildClosesTty, ChildExits,
           DescendantExits, ReaderPump, ReaderEof, threadVars
  <2> QED
    BY <1>1, <1>3, <2>1, <2>2
<1>5. CASE BackoffElapses \/ UNCHANGED appVars
  BY <1>1, <1>5 DEF BackoffElapses, appVars, pipeVars
<1>6. CASE Looking
  <2>1. UNCHANGED <<bus, sent, shown>>
    BY <1>6 DEF Looking, Started, ReapPoll, DrainEnd, PumpEnd, Idle, SwitchMode, Quit, CheckExit, LoopFails, Stop,
           pipeVars, sessionVars, threadVars
  <2> QED
    BY <1>1, <2>1
<1>7. CASE Spawning \/ RespawnOne
  <2>1. UNCHANGED <<bus, shown>>
    BY <1>7 DEF Spawning, StartAgent, DispatchOne, PickAgent, RespawnOne
  <2>2. UNCHANGED sent
    BY <1>7 DEF Spawning, StartAgent, DispatchOne, PickAgent, RespawnOne, SpawnPane, SpawnSucceeds, SpawnFails,
           SpawnSession, sessionVars, threadVars
  <2> QED
    BY <1>1, <2>1, <2>2
<1>8. CASE ReapOne \/ ClosePane \/ DropNext
  <2>1. UNCHANGED <<bus, sent, shown>>
    BY <1>8 DEF ReapOne, ClosePane, DropNext, ExitApplied, TakeSession, DropSessions, threadVars
  <2> QED
    BY <1>1, <2>1
<1> QED
  BY <1>2, <1>4, <1>5, <1>6, <1>7, <1>8 DEF AppNext, UINext, Looking, Spawning

\* Panes keep their ids, and a new one gets the next.
LEMMA IdStep ==
  ASSUME AppInv, [AppNext]_appVars, NEW i \in Places'
  PROVE  (\E j \in Places : panes'[i].id = panes[j].id) \/ panes'[i].id = next_pane_id
<1>1. Positions = Places
  BY Facts DEF AppInv
<1>2. CASE UNCHANGED panes
  BY <1>2 DEF Places
<1>3. ASSUME NEW n \in Places, NEW c, ExitApplied(n, c)
      PROVE  \E j \in Places : panes'[i].id = panes[j].id
  <2>1. Ended(n)
    BY <1>3, ExitEnds DEF AppInv
  <2> QED
    BY <2>1 DEF Ended, Places
<1>4. ASSUME NEW task, NEW retry, SpawnPane(task, retry)
      PROVE  (\E j \in Places : panes'[i].id = panes[j].id) \/ panes'[i].id = next_pane_id
  <2>1. PICK st \in AgentState : panes' = Append(panes, [id |-> next_pane_id, state |-> st])
    BY <1>4 DEF SpawnPane, NewPaneId, AgentState
  <2>2. [id |-> next_pane_id, state |-> st] \in PaneRecord /\ panes \in Seq(PaneRecord)
    BY <1>4 DEF SpawnPane, PaneRecord, AppInv, GridInv, Vectors
  <2>3. i \in Places \/ panes'[i] = [id |-> next_pane_id, state |-> st]
    BY <2>1, <2>2 DEF Places
  <2>4. i \in Places => panes'[i] = panes[i]
    BY <2>1, <2>2 DEF Places
  <2> QED
    BY <2>3, <2>4
<1>5. CASE ReapOne
  BY <1>3, <1>5 DEF ReapOne, AppInv, ReapedHere
<1>6. CASE DrainOne
  BY <1>1, <1>2, <1>3, <1>6 DEF DrainOne, PositionsOf, vecs
<1>7. CASE Spawning
  BY <1>2, <1>4, <1>7 DEF Spawning, StartAgent, DispatchOne, PickAgent, vecs
<1>8. CASE RespawnOne
  <2>1. UNCHANGED panes \/ \E n \in Places, st \in AgentState : panes' = [panes EXCEPT ![n] = [panes[n] EXCEPT !.state = st]]
    BY <1>1, <1>8 DEF RespawnOne, AgentState
  <2>2. ASSUME NEW n \in Places, NEW st \in AgentState, panes' = [panes EXCEPT ![n] = [panes[n] EXCEPT !.state = st]]
        PROVE  \E j \in Places : panes'[i].id = panes[j].id
    <3>1. panes \in Seq(PaneRecord) /\ panes[n] \in PaneRecord
      BY Facts DEF AppInv, GridInv, Vectors
    <3>2. [panes[n] EXCEPT !.state = st] \in PaneRecord /\ [panes[n] EXCEPT !.state = st].id = panes[n].id
      BY <3>1 DEF PaneRecord
    <3>3. i \in Places /\ (panes'[i] = panes[i] \/ panes'[i] = [panes[n] EXCEPT !.state = st])
      BY <2>2, <3>1, <3>2 DEF Places
    <3> QED
      BY <3>2, <3>3
  <2> QED
    BY <1>2, <2>1, <2>2
<1>9. CASE ClosePane
  <2>1. PICK n \in Places : panes' = RemoveAt(panes, n)
    BY <1>1, <1>9 DEF ClosePane
  <2>2. panes \in Seq(PaneRecord) /\ n \in 1..Len(panes)
    BY DEF AppInv, GridInv, Vectors, Places
  <2>3. /\ panes' \in Seq(PaneRecord) /\ Len(panes') = Len(panes) - 1
        /\ \A k \in 1..(Len(panes) - 1) : panes'[k] = IF k < n THEN panes[k] ELSE panes[k + 1]
    BY <2>1, <2>2, RemoveFromSeq
  <2>4. Len(panes) \in Nat /\ i \in 1..(Len(panes) - 1)
    BY <2>2, <2>3 DEF Places
  <2> QED
    BY <2>2, <2>3, <2>4 DEF Places
<1>10. CASE DropNext \/ EnvNext \/ BackoffElapses \/ UNCHANGED appVars \/ Looking
  BY <1>2, <1>10 DEF DropNext, EnvNext, BackoffElapses, appVars, vecs, Looking, Started, ReapPoll, DrainEnd, PumpEnd,
         Idle, SwitchMode, Quit, CheckExit, LoopFails, Stop
<1> QED
  BY <1>5, <1>6, <1>7, <1>8, <1>9, <1>10 DEF AppNext, UINext, Looking, Spawning

LEMMA KeepsItsPane ==
  ASSUME FullInv, [AppNext]_appVars, NEW s \in Sessions, proc[s] # "absent"
  PROVE  pane'[s] = pane[s] /\ proc'[s] # "absent"
<1>1. PaneStep
  BY PaneSteps DEF FullInv
<1>2. ASSUME NEW r \in Sessions, NEW p, SpawnSession(r, p) PROVE pane'[s] = pane[s] /\ proc'[s] # "absent"
  <2>1. r # s
    BY <1>2 DEF SpawnSession
  <2> QED
    BY <1>2, <2>1, SpawnFacts DEF FullInv, AppInv
<1> QED
  BY <1>1, <1>2 DEF PaneStep

\* So a session never comes by a pane that it was not spawned for.
LEMMA NoPaneComesBack ==
  ASSUME FullInv, [AppNext]_appVars, NEW s \in Sessions, proc[s] # "absent", HasPane(s)'
  PROVE  HasPane(s) /\ proc'[s] # "absent"
<1>1. pane'[s] = pane[s] /\ proc'[s] # "absent"
  BY KeepsItsPane
<1>2. pane[s] \in Nat /\ pane[s] < next_pane_id /\ next_pane_id \in Nat
  BY DEF FullInv, Numbered
<1>3. PICK i \in Places' : panes'[i].id = pane[s]
  BY <1>1 DEF HasPane
<1>4. \E j \in Places : panes'[i].id = panes[j].id
  BY <1>2, <1>3, IdStep DEF FullInv
<1> QED
  BY <1>1, <1>3, <1>4 DEF HasPane

LEMMA FedStep == FullInv /\ FedInv /\ [AppNext]_appVars => FedInv'
<1> SUFFICES ASSUME FullInv, FedInv, [AppNext]_appVars PROVE FedInv'
  OBVIOUS
<1>1. shown' \in [Sessions -> Nat]
  <2>1. UNCHANGED shown \/ \E r \in Sessions : shown' = [shown EXCEPT ![r] = @ + 1]
    <3>1. CASE DrainOne
      <4>1. bus # <<>> /\ Head(bus) = bus[1] /\ 1 \in DOMAIN bus
        BY <3>1, BusFacts DEF DrainOne
      <4>2. Head(bus).src \in Sessions
        BY <4>1, BusFacts
      <4> QED
        BY <3>1, <4>2 DEF DrainOne
    <3>2. CASE EnvNext \/ BackoffElapses \/ UNCHANGED appVars \/ Looking \/ Spawning \/ RespawnOne
      BY <3>2 DEF EnvNext, BackoffElapses, appVars, Looking, Started, ReapPoll, DrainEnd, PumpEnd, Idle,
             SwitchMode, Quit, CheckExit, LoopFails, Stop, Spawning, StartAgent, DispatchOne, PickAgent, RespawnOne
    <3>3. CASE ReapOne \/ ClosePane \/ DropNext
      BY <3>3 DEF ReapOne, ClosePane, DropNext
    <3> QED
      BY <3>1, <3>2, <3>3 DEF AppNext, UINext, Looking, Spawning
  <2> QED
    BY <2>1 DEF FedInv
<1>2. ASSUME NEW s \in Sessions, proc'[s] = "absent" PROVE shown'[s] = 0
  <2>1. proc[s] = "absent"
    BY <1>2, KeepsItsPane
  <2> QED
    BY <2>1, FlowStep DEF FedInv
<1>3. ASSUME NEW s \in Sessions, HasPane(s)' PROVE Fed(s)'
  <2>1. CASE proc[s] = "absent"
    BY <2>1, NothingFromUnborn, FlowStep DEF FedInv
  <2>2. CASE proc[s] # "absent"
    BY <1>3, <2>2, NoPaneComesBack, FlowStep DEF FedInv
  <2> QED
    BY <2>1, <2>2
<1> QED
  BY <1>1, <1>2, <1>3 DEF FedInv

\* What an agent printed before it ended is in its pane once its forwarder has ended and
\* the bus holds nothing more of it, although the session is dropped as soon as the
\* process is gone (reap_exited, drain_bus, forward_session, pump_reader).
THEOREM OutputArrives == AppSpec => []NoOutputLost
<1>1. AppInit => FedInv
  <2>1. AppInit => Places = {}
    BY DEF AppInit, Places
  <2>2. AppInit => shown = [s \in Sessions |-> 0]
    BY DEF AppInit
  <2> QED
    BY <2>1, <2>2 DEF FedInv, HasPane
<1>2. FullInv /\ FedInv /\ [AppNext]_appVars => FedInv'
  BY FedStep
<1>3. FullInv /\ FedInv => NoOutputLost
  <2> SUFFICES ASSUME FullInv, FedInv, NEW s \in Sessions, NEW i \in Positions,
                      forwarder[s] = "done", rxOpen, panes[i].id = pane[s],
                      \A k \in DOMAIN bus : bus[k].src # s
               PROVE  shown[s] = wrote[s]
    BY DEF NoOutputLost
  <2>1. HasPane(s)
    BY Facts DEF HasPane, FullInv, AppInv
  <2>2. {k \in DOMAIN bus : bus[k] \in OutputOf(s)} = {}
    BY DEF OutputOf
  <2>3. Count(bus, OutputOf(s)) = 0
    BY <2>2, FS_EmptySet DEF Count
  <2>4. shown[s] \in Nat /\ shown[s] + 0 = sent[s]
    BY <2>1, <2>3 DEF FedInv, Fed
  <2>5. sent[s] = wrote[s]
    BY DEF FullInv, PipeInv, Winding, WindsDown
  <2> QED
    BY <2>4, <2>5
<1> QED
  BY <1>1, <1>2, <1>3, FullAlways, PTL DEF AppSpec

=============================================================================
