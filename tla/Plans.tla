------------------------------- MODULE Plans --------------------------------
(***************************************************************************)
(* The two plans of src/src/coordinator.rs: plan_from_spec makes one       *)
(* independent task per line, plan_chain makes each depend on the one      *)
(* before.  Task ids are dense from 0, the texts are left out.             *)
(***************************************************************************)
EXTENDS Naturals

CONSTANTS
  NumTasks,   (* how many tasks the specification was split into *)
  Shape       (* "fanout" (--parallel) or "chain" (the default)  *)

ASSUME PlanAssumption ==
  /\ NumTasks \in Nat
  /\ Shape \in {"fanout", "chain"}

Planned == 0..(NumTasks - 1)

Deps(t) == IF Shape = "chain" /\ t > 0 THEN {t - 1} ELSE {}

=============================================================================
