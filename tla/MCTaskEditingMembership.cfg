\* The documented rule on membership, against two overlapping requests.
CONSTANTS
    s1 = s1
    s2 = s2
    r1 = r1
    r2 = r2
    Sprints = {s1, s2}
    Tasks = {"t1"}
    Goals = {"g1"}
    TaskStatuses = {"open"}
    Texts = {"x"}
    Days = {1, 2}
    Plans = {}
    NoSprint = NoSprint
    StartRows <- BothPlanned
    StartTasks <- AllFree
    MaxRowRevision = 4
    Editors = {r1, r2}
    NoEdit = NoEdit
SPECIFICATION EditSpec
SYMMETRY EditorSymmetry
PROPERTIES
    MembershipOnlyThroughPlanning
CHECK_DEADLOCK FALSE
