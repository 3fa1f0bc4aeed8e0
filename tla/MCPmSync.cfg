\* Nothing overlaps and nothing fails.
CONSTANTS
    r1 = r1
    None = None
    Fields = {"status", "labels"}
    Written = {"status"}
    Texts = {"x", "y"}
    Resolvers = {r1}
    Overlap = {}
    MaxEdits = 2
    MaxOutside = 2
    MaxFaults = 0
SPECIFICATION PmSpec
PROPERTIES
    UnsentIsKept
