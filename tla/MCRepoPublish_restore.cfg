CONSTANTS
    Edits = {e1, e2, e3}
    Pushes = {}
    Syncs = {}
    Files = {f1, f2}
    Blobs = {b1}
    Branches <- MainOnly
    HeadBranch <- OnMain
    Faults <- NoFaults
    Overlap = {}
    NoSync = NoSync
    NoCommit = NoCommit
    Absent = Absent
SPECIFICATION Spec
INVARIANTS
    RestoreMatchesRevision
CHECK_DEADLOCK FALSE
