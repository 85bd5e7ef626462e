CONSTANTS
    Edits = {e1, e2}
    Pushes = {}
    Syncs = {}
    Files = {f1, f2}
    Blobs = {b1, b2}
    Branches <- MainOnly
    HeadBranch <- OnMain
    Faults <- FaultKinds
    Overlap = {e1, e2}
    NoSync = NoSync
    NoCommit = NoCommit
    Absent = Absent
SPECIFICATION Spec
INVARIANTS
    TypeOK
    EditsNeverLost
    ServedWasPushed
    IndexIsARevision
CHECK_DEADLOCK FALSE
SYMMETRY Interchangeable
