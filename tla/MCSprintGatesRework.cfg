\* One sprint, every human action, tasks and goal changing under the people who judge them.
CONSTANTS
    s1 = s1
    s2 = s2
    t1 = t1
    e1 = e1
    e2 = e2
    e3 = e3
    Sprints = {s1}
    Tasks = {t1}
    Goals = {"g1", "g2"}
    TaskStatuses = {"open", "done", "cancelled"}
    StartTasks <- TasksUnderWay
    Texts = {"x"}
    Days = {1, 2}
    Plans = {}
    NoSprint = NoSprint
    StartRows <- FreshOrLegacy
    MaxRowRevision = 1
    EventIds = {e1, e2, e3}
    Actors = {"leader"}
    Asked = {"approve", "reject", "hold", "resume", "resubmit"}
    Leaders = {"leader"}
    NoGate = NoGate
    NoOutcome = NoOutcome
    NoMessage = NoMessage
    NoEvent = NoEvent
    NoPlan = NoPlan
    NoFingerprint = NoFingerprint
    MaxUndecided = 1
    MaxGateRevision <- FiveEach
SPECIFICATION Spec
SYMMETRY EventSymmetry
INVARIANTS
    AcceptedGoalPinned
    AppliedOnceOnWhatWasSeen
PROPERTIES
    OutcomeStable
    ReworkNeedsResubmission
CHECK_DEADLOCK FALSE
