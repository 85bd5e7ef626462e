CONSTANTS
    Edits = {e1}
    Pushes = {p1}
    Syncs = {s1, s2}
    Files = {f1, f2}
    Blobs = {b1}
    Branches <- MainOnly
    HeadBranch <- OnMain
    Faults <- NoFaults
    Overlap = {s1, s2}
    NoSync = NoSync
    NoCommit = NoCommit
    Absent = Absent
SPECIFICATION FairSpec
INVARIANTS
    DerivedStateAgrees
    ServesLatest
PROPERTIES
    EditsStartFromServed
    ImplementsPublishedRepo
CHECK_DEADLOCK FALSE
