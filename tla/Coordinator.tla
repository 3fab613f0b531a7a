----------------------------- MODULE Coordinator -----------------------------
(***************************************************************************)
(* The coordination state machine of src/src/coordinator.rs: a growing     *)
(* list of tasks with dependencies, a status per task, and an inbox of     *)
(* messages.  The Rust type is passive: each public mutator is one action  *)
(* here, callable at any time with any valid id, exactly as the methods    *)
(* are (none of them looks at the status it overwrites).  The discipline   *)
(* of its only live caller, the application loop, is module                *)
(* CoordinatorLoop.                                                        *)
(*                                                                         *)
(* Task specifications, prompts, summaries and questions are abstracted    *)
(* away; a message keeps its sender, its task and its kind.                *)
(***************************************************************************)
EXTENDS Naturals, Sequences

CONSTANTS
  Agents,     (* agent names a caller may offer to dispatch_next             *)
  NoAgent,    (* assignee: None; as a sender, the "?" of report_done/answer  *)
  MaxTasks,   (* bound on add_task                                           *)
  MaxInbox    (* bound on inbox messages                                     *)

ASSUME CoordinatorAssumption ==
  /\ NoAgent \notin Agents
  /\ MaxTasks \in Nat
  /\ MaxInbox \in Nat

VARIABLES
  len,        (* tasks.len(), which is also the next TaskId                  *)
  tasks,      (* the task vector: a function on 0..len-1                     *)
  inbox       (* the audit log                                               *)

coordVars == <<len, tasks, inbox>>

Status == {"Pending", "Dispatched", "InProgress", "AwaitingDecision", "Done", "Failed"}
IsTerminal(status) == status \in {"Done", "Failed"}

TaskIds == 0..(MaxTasks - 1)
Known == 0..(len - 1)

\* deps may name any usize: MaxTasks stands for an id no task will ever have.
DepIds == 0..MaxTasks

Task == [deps : SUBSET DepIds, assignee : Agents \cup {NoAgent}, status : Status]
Message == [from : Agents \cup {NoAgent}, task : TaskIds, kind : {"summary", "reply"}]

NewTask(deps) == [deps |-> deps, assignee |-> NoAgent, status |-> "Pending"]

Init ==
  /\ len = 0
  /\ tasks = [t \in {} |-> NewTask({})]
  /\ inbox = <<>>

-----------------------------------------------------------------------------
(* Queries *)

\* A slip in deps_all_done: an unknown id unblocks.
DepsNoneOpen(deps) == \A d \in deps : d \in Known => tasks[d].status = "Done"

\* An unknown id is unresolved: it blocks.
DepsAllDone(deps) == \A d \in deps : d \in Known /\ tasks[d].status = "Done"

AllDone == \A t \in Known : IsTerminal(tasks[t].status)

Dispatchable(t) == tasks[t].status = "Pending" /\ DepsAllDone(tasks[t].deps)

\* A slip: the newest one first.
IsNewest(t) ==
  /\ t \in Known
  /\ Dispatchable(t)
  /\ \A u \in Known : Dispatchable(u) => u <= t

\* The task dispatch_next finds: the lowest dispatchable id.
IsNext(t) ==
  /\ t \in Known
  /\ Dispatchable(t)
  /\ \A u \in Known : Dispatchable(u) => t <= u

-----------------------------------------------------------------------------
(* Mutators *)

AddTask(deps) ==
  /\ len < MaxTasks
  /\ len' = len + 1
  /\ tasks' = [t \in 0..len |-> IF t = len THEN NewTask(deps) ELSE tasks[t]]
  /\ UNCHANGED inbox

SetStatus(t, status) == tasks' = [tasks EXCEPT ![t].status = status]

\* What report_done and answer share: one message from the assignee or "?".
Post(t, kind) ==
  /\ Len(inbox) < MaxInbox
  /\ inbox' = Append(inbox, [from |-> tasks[t].assignee, task |-> t, kind |-> kind])

DispatchNext(agent) ==
  \E t \in Known :
    /\ IsNext(t)
    /\ tasks' = [tasks EXCEPT ![t].status = "Dispatched", ![t].assignee = agent]
    /\ UNCHANGED <<len, inbox>>

MarkInProgress(t) ==
  /\ SetStatus(t, "InProgress")
  /\ UNCHANGED <<len, inbox>>

ReportDone(t) ==
  /\ Post(t, "summary")
  /\ SetStatus(t, "Done")
  /\ UNCHANGED len

ReportFailed(t) ==
  /\ SetStatus(t, "Failed")
  /\ UNCHANGED <<len, inbox>>

Ask(t) ==
  /\ SetStatus(t, "AwaitingDecision")
  /\ UNCHANGED <<len, inbox>>

\* A plausible slip: requeueing the answered task instead of resuming it.
AnswerRequeues(t) ==
  /\ Post(t, "reply")
  /\ SetStatus(t, "Pending")
  /\ UNCHANGED len

Answer(t) ==
  /\ Post(t, "reply")
  /\ SetStatus(t, "InProgress")
  /\ UNCHANGED len

Next ==
  \/ \E deps \in SUBSET DepIds : AddTask(deps)
  \/ \E agent \in Agents : DispatchNext(agent)
  \/ \E t \in Known : MarkInProgress(t)
  \/ \E t \in Known : ReportDone(t)
  \/ \E t \in Known : ReportFailed(t)
  \/ \E t \in Known : Ask(t)
  \/ \E t \in Known : Answer(t)

Spec == Init /\ [][Next]_coordVars

-----------------------------------------------------------------------------
(* Properties, whatever order the methods are called in *)

\* Ids are dense: the known tasks are exactly 0..len-1.
TypeOK ==
  /\ len \in 0..MaxTasks
  /\ tasks \in [Known -> Task]
  /\ inbox \in Seq(Message)
  /\ \A k \in DOMAIN inbox : inbox[k].task \in Known

\* A task that waits for itself, or for an id that does not exist yet, has never
\* been handed to an agent: a mistyped dependency blocks, it does not unblock.
BadDepNeverDispatched ==
  \A t \in Known :
    (t \in tasks[t].deps \/ \E d \in tasks[t].deps : d \notin Known)
      => tasks[t].assignee = NoAgent

\* A task is dispatched at most once: no sequence of calls, decision gates
\* included, puts it back in the pool or hands it to a second agent.
DispatchedAtMostOnce ==
  [][\A t \in Known :
       /\ tasks[t].assignee # NoAgent => tasks'[t].assignee = tasks[t].assignee
       /\ tasks[t].status # "Pending" => tasks'[t].status # "Pending"]_coordVars

\* The inbox is attributable: a message that names an agent names the agent the
\* task is (still) assigned to, so one task never speaks with two voices.
InboxAttribution ==
  \A k \in DOMAIN inbox :
    inbox[k].from # NoAgent => inbox[k].from = tasks[inbox[k].task].assignee

\* What the doc comment of is_terminal says: Done and Failed are final.
TerminalIsFinal ==
  [][\A t \in Known : IsTerminal(tasks[t].status) => tasks'[t].status = tasks[t].status]_coordVars

=============================================================================
