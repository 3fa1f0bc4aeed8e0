\* One part of sprint chat per behaviour; the bounds of second instances are in the module.
CONSTANTS
    w1 = w1
    w2 = w2
    o1 = o1
    o2 = o2
    one = one
    thread = thread
    Nobody = Nobody
    Workers = {w1, w2}
    Operations = {o1, o2}
    Pieces = 2
    MaxRetries = 1
    MaxFaults = 3
    ChannelWorkers = {one}
    ChannelRooms = {root, thread}
    Root = root
    PageSize = 1
    MaxRevision = 1
    MaxPosts = 2
    MaxChannelFaults = 1
    IntakeWorkers = {one}
    Commands = {1}
    Sources = {}
    Replies = {2}
    Target <- OfItself
    ThreadOf <- OfTheCommand
    Watched = {1}
    Window = 1
    MaxVersion = 2
    MaxIntakeFaults = 1
    RemarkWorkers = {w1, w2}
    MaxMessages = 2
    MaxSettings = 4
    MaxOverlaps = 1
SPECIFICATION UnionSpec
SYMMETRY ChatSymmetry
INVARIANTS
    PostedOncePerDecision
    SentIsThere
    LogHasNoHoles
    FinalBeforeArchive
    IntakeIsCurrent
PROPERTIES
    ConfirmedWhatWasSeen
    RemarkIsCurrent
