\* One component per behaviour; the bounds are in the module.
CONSTANTS
    p1 = p1
    p2 = p2
    k1 = k1
    k2 = k2
    root = root
    NoRow = NoRow
    NoKey = NoKey
    None = None
SPECIFICATION FairProgressSpec
PROPERTIES
    EverySettles
    ClosedIsArchived
    DeletedGoesAway
    EverySyncAgrees
