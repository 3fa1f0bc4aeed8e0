\* The rule on lost acks, against a team moved to chat while an ack is lost.
CONSTANTS
    s1 = s1
    w1 = w1
    w2 = w2
    e1 = e1
    e2 = e2
    Sprints = {s1}
    Tasks = {"t1"}
    Goals = {"g1"}
    TaskStatuses = {"open"}
    Texts = {"x"}
    Days = {1}
    Plans = {}
    NoSprint = NoSprint
    StartRows <- OnePlanned
    StartTasks <- OneTask
    MaxRowRevision = 1
    EventIds = {e1}
    Actors = {"discord", "leader", "admin"}
    Leaders = {"leader"}
    Discord = "discord"
    Screen = {"admin"}
    Asked = {"approve"}
    NoGate = NoGate
    NoOutcome = NoOutcome
    NoMessage = NoMessage
    NoEvent = NoEvent
    NoPlan = NoPlan
    NoFingerprint = NoFingerprint
    NoResult = NoResult
    MaxUndecided = 1
    MaxGateRevision <- Two
    Workers = {w1}
    MaxFaults = 1
    MaxMoves = 1
SPECIFICATION WorkerSpec
INVARIANTS
    AppliedNeverAckedRejected
