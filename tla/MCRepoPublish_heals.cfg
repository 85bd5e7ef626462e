CONSTANTS
    Edits = {e1}
    Pushes = {p1}
    Syncs = {s1}
    Files = {f1, f2}
    Blobs = {b1}
    Branches <- MainOnly
    HeadBranch <- OnMain
    Faults <- AllButCut
    Overlap = {}
    NoSync = NoSync
    NoCommit = NoCommit
    Absent = Absent
SPECIFICATION Spec
PROPERTIES
    OkMeansServed
CHECK_DEADLOCK FALSE
SYMMETRY Interchangeable
