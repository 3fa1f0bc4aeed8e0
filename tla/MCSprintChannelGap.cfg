\* A tick that fails between two pages of a closing channel.
CONSTANTS
    w1 = w1
    root = root
    Root = root
    Workers = {w1}
    Rooms = {root}
    PageSize = 2
    MaxRevision = 2
    MaxPosts = 3
    MaxFaults = 1
SPECIFICATION ChannelSpec
INVARIANTS
    ArchivedWithLogs
