--------------------------- MODULE OrchestratedRun ---------------------------
(***************************************************************************)
(* What `orcatui orchestrate` promises of the tasks it was given: each one *)
(* waits until the tasks it depends on have finished, runs once, and       *)
(* finishes.  No panes, processes, statuses or messages: AgentApp, which   *)
(* has all of them, implements this module.                                *)
(***************************************************************************)
EXTENDS Plans

VARIABLE stage   (* per task: waiting, running, finished *)

Startable(t) == stage[t] = "waiting" /\ \A d \in Deps(t) : stage[d] = "finished"

RunInit == stage = [t \in Planned |-> "waiting"]

\* Tasks are released lowest id first.
Start(t) ==
  /\ Startable(t)
  /\ \A u \in Planned : Startable(u) => t <= u
  /\ stage' = [stage EXCEPT ![t] = "running"]

Finish(t) ==
  /\ stage[t] = "running"
  /\ stage' = [stage EXCEPT ![t] = "finished"]

RunNext == \E t \in Planned : Start(t) \/ Finish(t)

\* Safety alone: nothing makes an agent finish.  AgentApp states what follows if
\* they all do.
RunSafety == RunInit /\ [][RunNext]_stage

-----------------------------------------------------------------------------
(* Properties *)

RunTypeOK == stage \in [Planned -> {"waiting", "running", "finished"}]

\* In the default, sequential, mode a task starts only when every earlier one has
\* finished, not just the one it names: at most one agent works at any time.
SequentialOrder ==
  Shape = "chain" =>
    \A t, u \in Planned : (t < u /\ stage[u] # "waiting") => stage[t] = "finished"

=============================================================================
