------------------------- MODULE MCSprintGateWorker -------------------------
(* SprintGateWorker on one sprint: values for the constants.               *)
EXTENDS SprintGateWorker, TLC

CONSTANTS s1, w1, w2, e1, e2

PlannedRow == [status |-> "planning", goal |-> "g1", startsOn |-> 1, endsOn |-> 1,
               bufferEndsOn |-> 1, revision |-> 0]

OnePlanned == {[s \in Sprints |-> PlannedRow]}
PlannedOrActive == OnePlanned \cup {[s \in Sprints |-> [PlannedRow EXCEPT !.status = "active"]]}

OneTask == {[t \in Tasks |-> [sprint |-> s1, status |-> "open", text |-> "x"]]}
OneDone == {[t \in Tasks |-> [sprint |-> s1, status |-> "done", text |-> "x"]]}

(* Bounds on the revisions of the gate. *)
Two == [s \in Sprints |-> 2]
Three == [s \in Sprints |-> 3]

WorkerSymmetry == Permutations(Workers)
=============================================================================
