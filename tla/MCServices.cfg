\* One component per behaviour; the bounds of second instances are in the module.
CONSTANTS
    a1 = a1
    a2 = a2
    b1 = b1
    b2 = b2
    s1 = s1
    s2 = s2
    None = None
    NoRow = NoRow
    NoKey = NoKey
    Keys = {b1, b2}
    Processes = {a1, a2}
    Unusable = {b2}
    MaxAttempts = 2
    Batch = 1
    MaxFaults = 1
    Requests = {a1, a2}
    Members = {"owner", b1, b2}
    Owner = "owner"
    Nobody = None
    Unsaid = NoRow
    NoTask = NoKey
    Priorities = {0, 1, 2}
    MaxUpdatedAt = 3
    MaxUntold = 1
    Sprints = {s1, s2}
    Tasks = {"t1"}
    Goals = {"g1", "g2"}
    TaskStatuses = {"open", "done"}
    Texts = {"x", "y"}
    Days = {1, 2, 3}
    Plans <- TwoPlans
    NoSprint = None
    StartRows <- Tables
    StartTasks <- Attached
    MaxRowRevision = 3
    Planners = {a1, a2}
    NoDraft = NoRow
    Editors = {a1, a2}
    NoEdit = None
    Delegations = {b1, b2}
    Callers = {a1, a2}
    MaxCallFaults = 2
    Servers = {b1, b2}
    Readers = {a1, a2}
    TtlSec = 1
    MaxVersion = 1
    MaxTime = 1
    MaxCacheFaults = 0
    LinkedTasks = {b1, b2}
    People = {"leader"}
    MaxRevision = 2
    MaxEdits = 3
    Codes = {a1, a2}
    Teams = {b1, b2}
    NamingTasks = {"task"}
    Namers = {"person"}
    MaxChanges = 2
    MaxNamings = 1
    MaxFailedTicks = 1
    Fields = {"status", "labels"}
    Written = {"status"}
    FieldTexts = {"x", "y"}
    Resolvers = {a1, a2}
    Overlap = {}
    MaxLocalEdits = 2
    MaxOutside = 2
    MaxWritebackFaults = 1
    BacklogTasks = {1, 2, 3, 4}
    StartBacklogs <- StartPlans
    Durations = {3}
    Estimates = {150}
    MaxBacklogEdits = 2
    MaxRecomputeFaults = 1
    ComputedPath <- PathOf
    MeantPath <- PathMeantBy
SPECIFICATION ServicesSpec
SYMMETRY ServicesSymmetry
INVARIANTS
    SentWasReceived
    ListsFreshEnough
    OnlyWhatHappened
    NothingForgotten
    StoredIsCurrent
    CompletedWasAccepted
    TasksFollow
PROPERTIES
    FailedStays
    UnracedRequestKeepsMembership
    ChangesWhatWasSeen
    PlansKept
    KeptWhileUnchanged
    ExecutionKept
CHECK_DEADLOCK FALSE
