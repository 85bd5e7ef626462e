CONSTANTS
    Edits = {e1}
    Pushes = {}
    Syncs = {s1, s2}
    Files = {f1}
    Blobs = {b1}
    Branches <- MainOnly
    HeadBranch <- OnMain
    Faults <- FaultsAnswered
    Overlap = {e1, s1, s2}
    NoSync = NoSync
    NoCommit = NoCommit
    Absent = Absent
SPECIFICATION FairSpec
INVARIANTS
    SyncsSerialized
    CallingOrder
    OneImportAtATime
    ServedWasPushed
PROPERTIES
    EveryRequestIsAnswered
CHECK_DEADLOCK FALSE
