\* Two requests and one pass of the job, no crash.
CONSTANTS
    Syncs = {u1, u2, r1}
    Starts = {u1, u2}
    NoSync = NoSync
    Sources = {a, b}
    NoSource = NoSource
    MaxRetries = 2
    Crashes = 0
SPECIFICATION Spec
INVARIANT SuccessImportsSelection
CHECK_DEADLOCK FALSE
