\* One worker on a planned or active sprint with a task done, answers on Discord and at the
\* phase screen, a failed call or a crash, and the team moved to chat and back.
CONSTANTS
    s1 = s1
    w1 = w1
    w2 = w2
    e1 = e1
    e2 = e2
    Sprints = {s1}
    Tasks = {"t1"}
    Goals = {"g1"}
    TaskStatuses = {"open", "done"}
    Texts = {"x"}
    Days = {1}
    Plans = {}
    NoSprint = NoSprint
    StartRows <- PlannedOrActive
    StartTasks <- OneDone
    MaxRowRevision = 1
    EventIds = {e1}
    Actors = {"discord", "leader", "admin"}
    Leaders = {"leader"}
    Discord = "discord"
    Screen = {"admin"}
    Asked = {"approve", "reject"}
    NoGate = NoGate
    NoOutcome = NoOutcome
    NoMessage = NoMessage
    NoEvent = NoEvent
    NoPlan = NoPlan
    NoFingerprint = NoFingerprint
    NoResult = NoResult
    MaxUndecided = 1
    MaxGateRevision <- Two
    Workers = {w1}
    MaxFaults = 1
    MaxMoves = 2
SPECIFICATION FairWorkerSpec
PROPERTIES
    EveryAnswerAcked
    LatestPublished
