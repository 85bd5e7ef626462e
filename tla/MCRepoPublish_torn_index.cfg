CONSTANTS
    Edits = {e1, e2}
    Pushes = {}
    Syncs = {}
    Files = {f1, f2}
    Blobs = {b1}
    Branches <- MainOnly
    HeadBranch <- OnMain
    Faults <- CrashOnly
    Overlap = {}
    NoSync = NoSync
    NoCommit = NoCommit
    Absent = Absent
SPECIFICATION Spec
INVARIANTS
    ListingReplacedAtomically
CHECK_DEADLOCK FALSE
