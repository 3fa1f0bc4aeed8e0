\* A sprint that was active before gates existed, taken to its closing and the start of its successor.
CONSTANTS
    s1 = s1
    s2 = s2
    t1 = t1
    e1 = e1
    e2 = e2
    e3 = e3
    Sprints = {s1, s2}
    Tasks = {t1}
    Goals = {"g1"}
    TaskStatuses = {"open", "done"}
    StartTasks <- TasksDone
    Texts = {"x"}
    Days = {1, 2}
    Plans = {}
    NoSprint = NoSprint
    StartRows <- LegacyWithSuccessor
    MaxRowRevision = 1
    EventIds = {e1, e2, e3}
    Actors = {"leader"}
    Asked = {"approve"}
    Leaders = {"leader"}
    NoGate = NoGate
    NoOutcome = NoOutcome
    NoMessage = NoMessage
    NoEvent = NoEvent
    NoPlan = NoPlan
    NoFingerprint = NoFingerprint
    MaxUndecided = 1
    MaxGateRevision <- LongFirst
SPECIFICATION Spec
SYMMETRY EventSymmetry
INVARIANTS
    TypeOK
    PhaseMatchesStatus
    RecordsComplete
    NextPlanLoadable
PROPERTIES
    ClosesOnlyIntoNext
    ImplementsLifecycle
CHECK_DEADLOCK FALSE
