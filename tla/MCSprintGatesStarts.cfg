\* Sprints created, moved and started around each other by approvals at the same time.
CONSTANTS
    s1 = s1
    s2 = s2
    t1 = t1
    e1 = e1
    e2 = e2
    e3 = e3
    Sprints = {s1, s2}
    Tasks = {t1}
    Goals = {"g1"}
    TaskStatuses = {"open"}
    StartTasks <- FreeTasks
    Texts = {"x"}
    Days = {1, 2, 3}
    Plans <- BufferedPlans
    NoSprint = NoSprint
    StartRows <- OneOrBothBuffered
    MaxRowRevision = 1
    EventIds = {e1, e2}
    Actors = {"leader"}
    Asked = {"approve"}
    Leaders = {"leader"}
    NoGate = NoGate
    NoOutcome = NoOutcome
    NoMessage = NoMessage
    NoEvent = NoEvent
    NoPlan = NoPlan
    NoFingerprint = NoFingerprint
    MaxUndecided = 2
    MaxGateRevision <- TwoEach
SPECIFICATION Spec
SYMMETRY EventSymmetry
INVARIANTS
    AtMostOneActive
    PeriodsDisjoint
CHECK_DEADLOCK FALSE
