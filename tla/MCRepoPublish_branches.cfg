CONSTANTS
    Edits = {e1}
    Pushes = {}
    Syncs = {s1}
    Files = {f1, f2}
    Blobs = {b1}
    Branches <- MainAndMaster
    HeadBranch <- OnMaster
    Faults <- NoFaults
    Overlap = {}
    NoSync = NoSync
    NoCommit = NoCommit
    Absent = Absent
SPECIFICATION Spec
PROPERTIES
    EditsStartFromServed
CHECK_DEADLOCK FALSE
