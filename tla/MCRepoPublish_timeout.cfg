CONSTANTS
    Edits = {}
    Pushes = {}
    Syncs = {s1, s2}
    Files = {f1, f2}
    Blobs = {b1}
    Branches <- MainOnly
    HeadBranch <- OnMain
    Faults <- TimeoutsOnly
    Overlap = {s1, s2}
    NoSync = NoSync
    NoCommit = NoCommit
    Absent = Absent
SPECIFICATION Spec
INVARIANTS
    ImportPublicationsSerialized
CHECK_DEADLOCK FALSE
