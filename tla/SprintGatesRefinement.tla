------------------------ MODULE SprintGatesRefinement ------------------------
(***************************************************************************)
(* The gates implement the life of a sprint that SprintLifecycle promises. *)
(* A sprint without a gate row is in the phase its first view will give    *)
(* it; the decisions are the human answers recorded as applied.            *)
(***************************************************************************)
EXTENDS SprintGates

LifecyclePhase(s) == IF Loadable(s) THEN GateOf(s).state.phase ELSE "none"

Applied == {e \in EventIds : events[e] # NoOutcome /\ events[e].outcome = "applied"}

Lifecycle == INSTANCE SprintLifecycle WITH
    status <- [s \in Sprints |-> sprints[s].status],
    phase <- [s \in Sprints |-> LifecyclePhase(s)],
    decisions <- Cardinality(Applied)

(* Every step of the gates is a step of the promised life of a sprint, and *)
(* no phase is passed without a decision of a person recorded for it.      *)
ImplementsLifecycle == Lifecycle!Spec
=============================================================================
