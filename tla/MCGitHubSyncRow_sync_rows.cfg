\* Two requests and three passes of the job on one row, every failure and a crash.
CONSTANTS
    Syncs = {u1, u2, r1, r2, r3}
    Starts = {u1, u2}
    NoSync = NoSync
    Sources = {a, b}
    NoSource = NoSource
    MaxRetries = 2
    Crashes = 1
SPECIFICATION FairSpec
INVARIANTS
    TypeOK
    RetryBudget
    SyncingMeansUnderway
    RowNamesImport
    SuccessIsConfigured
PROPERTY SyncingEnds
CHECK_DEADLOCK FALSE
