---------------------------- MODULE MCTaskEditing ----------------------------
(* TaskEditing on a small team: values for the constants.                  *)
EXTENDS TaskEditing, TLC

CONSTANTS s1, s2, r1, r2

Planned(day) == [status |-> "planning", goal |-> "g1", startsOn |-> day, endsOn |-> day,
                 bufferEndsOn |-> day, revision |-> 0]

BothPlanned == {[s \in Sprints |-> Planned(IF s = s1 THEN 1 ELSE 2)]}

AllFree == {[t \in Tasks |-> [sprint |-> NoSprint, status |-> "open", text |-> "x"]]}

EditorSymmetry == Permutations(Editors)
=============================================================================
