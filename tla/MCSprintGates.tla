---------------------------- MODULE MCSprintGates ----------------------------
(* SprintGates on a small team: values for the constants.                  *)
EXTENDS SprintGatesRefinement, TLC

CONSTANTS s1, s2, t1, e1, e2, e3

(* Periods with room to extend. *)
BufferedPlans ==
    {[startsOn |-> 1, endsOn |-> 1, bufferEndsOn |-> 2],
     [startsOn |-> 2, endsOn |-> 2, bufferEndsOn |-> 3],
     [startsOn |-> 3, endsOn |-> 3, bufferEndsOn |-> 3]}

NoSprints == [s \in Sprints |-> Absent]

ActiveRow == [status |-> "active", goal |-> "g1", startsOn |-> 1, endsOn |-> 1,
              bufferEndsOn |-> 1, revision |-> 0]

PlannedRow == [ActiveRow EXCEPT !.status = "planning", !.startsOn = 2, !.endsOn = 2,
                                !.bufferEndsOn = 2]

(* Installations that start empty, or with a sprint activated before gates *)
(* existed.                                                                *)
FreshOrLegacy == {NoSprints, [NoSprints EXCEPT ![s1] = ActiveRow]}

(* A legacy sprint under way, its successor already planned. *)
LegacyWithSuccessor == {[NoSprints EXCEPT ![s1] = ActiveRow, ![s2] = PlannedRow]}

TaskRows(sprint, status) ==
    {[t \in Tasks |-> [sprint |-> sprint, status |-> status, text |-> x]] : x \in Texts}

FreeTasks == TaskRows(NoSprint, "open")
TasksDone == TaskRows(s1, "done")
TasksUnderWay == FreeTasks \cup TaskRows(s1, "open")

(* Nothing active yet, two sprints planned beside each other. *)
BothPlanned == {[NoSprints EXCEPT ![s1] = [PlannedRow EXCEPT !.startsOn = 1, !.endsOn = 1,
                                                             !.bufferEndsOn = 1],
                                  ![s2] = PlannedRow]}

(* The same with a day for the first to extend into, which the second has. *)
BothBuffered == {[rows EXCEPT ![s1].bufferEndsOn = 2] : rows \in BothPlanned}

(* Those, or the second still to be created.                               *)
OneOrBothBuffered == BothBuffered \cup {[rows EXCEPT ![s2] = Absent] : rows \in BothBuffered}

(* Bounds on the revisions of the gates. *)
LongFirst == [s \in Sprints |-> IF s = s1 THEN 5 ELSE 2]
FiveEach == [s \in Sprints |-> 5]
TwoEach == [s \in Sprints |-> 2]

EventSymmetry == Permutations(EventIds)
=============================================================================
