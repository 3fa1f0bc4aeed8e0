\* Two workers on the same team, answers on Discord and at the phase screen, with a failed
\* call or a crash.
CONSTANTS
    s1 = s1
    w1 = w1
    w2 = w2
    e1 = e1
    e2 = e2
    Sprints = {s1}
    Tasks = {}
    Goals = {"g1"}
    TaskStatuses = {"open"}
    Texts = {"x"}
    Days = {1}
    Plans = {}
    NoSprint = NoSprint
    StartRows <- OnePlanned
    StartTasks <- OneTask
    MaxRowRevision = 1
    EventIds = {e1, e2}
    Actors = {"discord", "leader", "admin"}
    Leaders = {"leader"}
    Discord = "discord"
    Screen = {"admin"}
    Asked = {"approve", "hold"}
    NoGate = NoGate
    NoOutcome = NoOutcome
    NoMessage = NoMessage
    NoEvent = NoEvent
    NoPlan = NoPlan
    NoFingerprint = NoFingerprint
    NoResult = NoResult
    MaxUndecided = 1
    MaxGateRevision <- Three
    Workers = {w1, w2}
    MaxFaults = 1
    MaxMoves = 0
SPECIFICATION WorkerSpec
SYMMETRY WorkerSymmetry
INVARIANTS
    PublishedAsCommitted
    AckMatchesOutcome
