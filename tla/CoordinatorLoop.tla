--------------------------- MODULE CoordinatorLoop ---------------------------
(***************************************************************************)
(* The coordinator as the application drives it (src/src/app.rs): a plan,  *)
(* then only dispatch_next directly followed by mark_in_progress, and      *)
(* report_done for a task whose pane ended, once or twice, because both    *)
(* the reaper and the forwarder may report one exit.                       *)
(*                                                                         *)
(* AgentApp implements this module and this module implements              *)
(* OrchestratedRun.                                                        *)
(***************************************************************************)
EXTENDS Coordinator, Plans

ASSUME LoopAssumption == NumTasks <= MaxTasks

LoopInit ==
  /\ len = NumTasks
  /\ tasks = [t \in Planned |-> NewTask(Deps(t))]
  /\ inbox = <<>>

\* One turn of the loop in pump_orchestration, the pane aside.
Release(t, agent) ==
  /\ IsNext(t)
  /\ tasks' = [tasks EXCEPT ![t].status = "InProgress", ![t].assignee = agent]
  /\ UNCHANGED <<len, inbox>>

\* The end of apply_update's Exit arm, for the task of the pane that ended.
Report(t) ==
  /\ t \in Known
  /\ tasks[t].status \in {"InProgress", "Done"}
  /\ ReportDone(t)

LoopNext == \E t \in Planned : Report(t) \/ \E agent \in Agents : Release(t, agent)

LoopSpec == LoopInit /\ [][LoopNext]_coordVars

-----------------------------------------------------------------------------
(* The run that the statuses show *)

StageOf(status) ==
  CASE status = "Done" -> "finished"
    [] status = "InProgress" -> "running"
    [] OTHER -> "waiting"

Run == INSTANCE OrchestratedRun WITH stage <- [t \in Planned |-> StageOf(tasks[t].status)]

\* Every plan is run as OrchestratedRun says: the statuses, the assignees and the
\* doubled reports are an implementation of its three stages.
ImplementsRun == Run!RunSafety

\* Driven like this the coordinator works through a chain strictly in order.
WorksInOrder == Run!SequentialOrder

=============================================================================
