--------------------------- MODULE GitHubSyncRow ---------------------------
(***************************************************************************)
(* The github_syncs row of one repository, and the two parties that write  *)
(* it: POST /:repoId/github-sync (routes/repos.ts) and the retry job       *)
(* (services/githubSyncRetry.ts) that the scheduler starts                 *)
(* (services/scheduler.ts).  Both read the row, wait for GitHub, write the *)
(* row, call syncGitHubRepo, whose lock is RepoSyncLock, and write the row *)
(* again when the call settles.  An import itself is two steps here, the   *)
(* repository being changed and the call settling; RepoPublish has the     *)
(* rest of it.                                                             *)
(*                                                                         *)
(* Steps are cut where the code waits for the network, a process or the    *)
(* disk: the database driver is synchronous.                               *)
(***************************************************************************)
EXTENDS RepoSyncLock

CONSTANTS Starts,      \* POST requests; the other members of Syncs are retries
          Sources,     \* what a sync may be configured with: URL, branch, path
          NoSource,    \* there is no row, hence no configuration
          MaxRetries,  \* GITHUB_SYNC_MAX_RETRIES
          Crashes      \* bound: how often the server process dies

Retries == Syncs \ Starts

ASSUME GitHubSyncRowAssumption ==
    /\ Starts \subseteq Syncs
    /\ NoSource \notin Sources
    /\ MaxRetries \in Nat \ {0}
    /\ Crashes \in Nat

VARIABLES
    row,       \* the row: status, source, count (retry_count), commit (last_commit_sha)
    imported,  \* the sync whose tree the repository holds
    pc,        \* where each sync is
    want,      \* the configuration a sync imports
    saw,       \* POST: a row was read; retry: the retry_count that was read
    inFlight,  \* the scheduler's in-flight set contains the job
    attempts,  \* history: retries since a user asked or a retry succeeded
    stale,     \* history: a user reconfigured the row a retry had already read
    crashes    \* history: how often the process has died

rowVars == <<row, imported>>
taskVars == <<pc, want, saw>>
historyVars == <<attempts, stale, crashes>>
vars == <<rowVars, taskVars, inFlight, historyVars, lockVars>>

Statuses == {"none", "syncing", "success", "error", "failed"}
PcStates == {"idle", "read", "picked", "token", "called", "imported", "done"}

NoRow == [status |-> "none", source |-> NoSource, count |-> 0, commit |-> NoSync]

Underway(s) == pc[s] \notin {"idle", "done"}

\* The retry has read the row and has not yet queued its import.
Preparing(r) == r \in Retries /\ pc[r] \in {"picked", "token"}

Init ==
    /\ row = NoRow
    /\ imported = NoSync
    /\ pc = [s \in Syncs |-> "idle"]
    /\ want = [s \in Syncs |-> NoSource]
    /\ saw = [s \in Syncs |-> 0]
    /\ inFlight = FALSE
    /\ attempts = 0 /\ stale = FALSE /\ crashes = 0
    /\ LockInit

-----------------------------------------------------------------------------
(* POST /:repoId/github-sync *)

\* Read the row; what the body leaves out is taken from it.  The credential and
\* the list of accessible repositories come from GitHub.
StartRead(s) ==
    /\ pc[s] = "idle"
    /\ pc' = [pc EXCEPT ![s] = "read"]
    /\ \E src \in Sources : want' = [want EXCEPT ![s] = src]
    /\ saw' = [saw EXCEPT ![s] = IF row.status = "none" THEN 0 ELSE 1]
    /\ UNCHANGED <<rowVars, inFlight, historyVars, lockVars>>

\* No credential, no access to the repository, or the insert meets the row that
\* another first sync has inserted: the row is left alone.
StartRefused(s) ==
    /\ pc[s] = "read"
    /\ pc' = [pc EXCEPT ![s] = "done"]
    /\ UNCHANGED <<rowVars, want, saw, inFlight, historyVars, lockVars>>

\* Update or insert the row and queue the import.
WriteAndCall(s, source) ==
    /\ pc[s] = "read"
    /\ saw[s] = 0 => row.status = "none"
    /\ row' = [row EXCEPT !.status = "syncing", !.source = source]
    /\ pc' = [pc EXCEPT ![s] = "called"]
    /\ attempts' = 0
    /\ stale' = (stale \/ \E r \in Syncs : Preparing(r))
    /\ Call(s)
    /\ UNCHANGED <<imported, want, saw, inFlight, crashes>>

\* Mutant: an existing row keeps its configuration.
StartCallUnconfigured(s) ==
    WriteAndCall(s, IF saw[s] = 1 THEN row.source ELSE want[s])

StartCall(s) == WriteAndCall(s, want[s])

-----------------------------------------------------------------------------
(* The retry job *)

\* A tick of the job's timer whose pass selects the row.
Pick(r) ==
    /\ pc[r] = "idle"
    /\ pc' = [pc EXCEPT ![r] = "picked"]
    /\ want' = [want EXCEPT ![r] = row.source]
    /\ saw' = [saw EXCEPT ![r] = row.count]
    /\ inFlight' = TRUE
    /\ UNCHANGED <<rowVars, historyVars, lockVars>>

\* Mutants: no in-flight set; retry_count <= maxRetries.
TickOverlapping(r) == row.status = "error" /\ row.count < MaxRetries /\ Pick(r)
TickOneTooMany(r) == ~inFlight /\ row.status = "error" /\ row.count <= MaxRetries /\ Pick(r)

Tick(r) == ~inFlight /\ row.status = "error" /\ row.count < MaxRetries /\ Pick(r)

\* The rows before this one in the batch are done.  The configuration the job
\* goes on with is the one it has read.
RetryBegin(r) ==
    /\ pc[r] = "picked"
    /\ pc' = [pc EXCEPT ![r] = "token"]
    /\ row' = [row EXCEPT !.status = "syncing"]
    /\ UNCHANGED <<imported, want, saw, inFlight, historyVars, lockVars>>

\* Mutant: the row is skipped as it is.
RetrySkips(r) ==
    /\ pc[r] = "token"
    /\ pc' = [pc EXCEPT ![r] = "done"]
    /\ UNCHANGED <<rowVars, want, saw, inFlight, historyVars, lockVars>>

\* The user who configured the sync has no credential (any more).
RetryNoToken(r) ==
    /\ pc[r] = "token"
    /\ pc' = [pc EXCEPT ![r] = "done"]
    /\ row' = [row EXCEPT !.status = "failed", !.count = MaxRetries]
    /\ UNCHANGED <<imported, want, saw, inFlight, historyVars, lockVars>>

RetryCall(r) ==
    /\ pc[r] = "token"
    /\ pc' = [pc EXCEPT ![r] = "called"]
    /\ attempts' = attempts + 1
    /\ Call(r)
    /\ UNCHANGED <<rowVars, want, saw, inFlight, stale, crashes>>

\* The pass has gone through its batch.
EndPass ==
    /\ inFlight
    /\ \A r \in Retries : ~Underway(r)
    /\ inFlight' = FALSE
    /\ UNCHANGED <<rowVars, taskVars, historyVars, lockVars>>

-----------------------------------------------------------------------------
(* The import, and the row when it settles *)

ImportStart(s) ==
    /\ pc[s] = "called"
    /\ Start(s)
    /\ UNCHANGED <<rowVars, taskVars, inFlight, historyVars>>

\* Pushed, extracted, indexed, head_sha set; the temporary clone is removed next.
ImportDone(s) ==
    /\ pc[s] = "called" /\ syncState[s] = "running"
    /\ pc' = [pc EXCEPT ![s] = "imported"]
    /\ imported' = s
    /\ UNCHANGED <<row, want, saw, inFlight, historyVars, lockVars>>

\* A retry's success gives the row its budget back; a request's leaves the count.
Succeeded(s) ==
    [row EXCEPT !.status = "success", !.commit = s,
                !.count = IF s \in Retries THEN 0 ELSE @]

\* A retry's failure counts from the retry_count it had read, and is final when
\* the budget is used up.
Failed(s) ==
    IF s \in Starts
    THEN [row EXCEPT !.status = "error"]
    ELSE [row EXCEPT !.count = saw[s] + 1,
                     !.status = IF saw[s] + 1 >= MaxRetries THEN "failed" ELSE "error"]

\* The handler awaits the call since before the next sync was queued, so it
\* writes the row before the next import begins.
ImportSettles(s) ==
    /\ pc[s] = "imported"
    /\ Settle(s)
    /\ pc' = [pc EXCEPT ![s] = "done"]
    /\ row' = Succeeded(s)
    /\ attempts' = IF s \in Retries THEN 0 ELSE attempts
    /\ UNCHANGED <<imported, want, saw, inFlight, stale, crashes>>

\* Mutant: the error is swallowed.
ImportFailsUnseen(s) ==
    /\ pc[s] = "called"
    /\ Settle(s)
    /\ pc' = [pc EXCEPT ![s] = "done"]
    /\ UNCHANGED <<rowVars, want, saw, inFlight, historyVars>>

\* GitHub, git or the disk fails; when the push had gone through, its hook has
\* published the tree all the same.
ImportFails(s) ==
    /\ pc[s] = "called"
    /\ Settle(s)
    /\ pc' = [pc EXCEPT ![s] = "done"]
    /\ row' = Failed(s)
    /\ imported' \in {imported, s}
    /\ UNCHANGED <<want, saw, inFlight, historyVars>>

ImportForgets(s) == Forget(s) /\ UNCHANGED <<rowVars, taskVars, inFlight, historyVars>>

\* The process dies and is started again: the row is all that is left.
Crash ==
    /\ crashes < Crashes
    /\ crashes' = crashes + 1
    /\ pc' = [s \in Syncs |-> IF Underway(s) THEN "done" ELSE pc[s]]
    /\ inFlight' = FALSE
    /\ LockRestart
    /\ UNCHANGED <<rowVars, want, saw, attempts, stale>>

-----------------------------------------------------------------------------

StartStep(s) == StartRead(s) \/ StartRefused(s) \/ StartCall(s)
RetryStep(r) == RetryBegin(r) \/ RetryNoToken(r) \/ RetryCall(r)
ImportStep(s) == ImportStart(s) \/ ImportDone(s) \/ ImportSettles(s) \/ ImportFails(s)

Next ==
    \/ \E s \in Starts : StartStep(s)
    \/ \E r \in Retries : Tick(r) \/ RetryStep(r)
    \/ \E s \in Syncs : ImportStep(s) \/ ImportForgets(s)
    \/ EndPass
    \/ Crash

Spec == Init /\ [][Next]_vars

\* What has begun goes on: git processes end or are killed (spawnGroup), requests
\* to GitHub end (the code sets them no timeout, the runtime does), and promises
\* settle.  Ticks are not fair: the scheduler may be switched off.
Fairness ==
    /\ \A s \in Starts : WF_vars(StartRefused(s) \/ StartCall(s))
    /\ \A r \in Retries : WF_vars(RetryStep(r))
    /\ \A s \in Syncs : WF_vars(ImportStep(s))

FairSpec == Spec /\ Fairness

-----------------------------------------------------------------------------
(* Properties *)

TypeOK ==
    /\ row \in [status : Statuses, source : Sources \cup {NoSource},
                count : 0 .. MaxRetries, commit : Syncs \cup {NoSync}]
    /\ imported \in Syncs \cup {NoSync}
    /\ pc \in [Syncs -> PcStates]
    /\ want \in [Syncs -> Sources \cup {NoSource}]
    /\ saw \in [Syncs -> 0 .. MaxRetries]
    /\ inFlight \in BOOLEAN
    /\ attempts \in Nat /\ stale \in BOOLEAN /\ crashes \in Nat
    /\ LockTypeOK

\* The job gives up: between one thing a user asks for, or one retry that works,
\* and the next it imports at most MaxRetries times, and once more for each time
\* the process died, although it counts in a row that requests write too and that
\* it read before it waited (githubSyncRetry.ts:34-35, "cannot be retried forever").
RetryBudget == attempts <= MaxRetries + crashes

\* "syncing" is never left behind: some request or the job is still at work on
\* the row, unless the process has died meanwhile.
SyncingMeansUnderway == row.status = "syncing" => crashes > 0 \/ \E s \in Syncs : Underway(s)

\* Of several syncs that overlap, the row names the one whose tree the
\* repository holds, whichever handler writes the row last.
RowNamesImport ==
    row.status = "success" /\ crashes = 0 /\ (\A s \in Syncs : pc[s] # "imported")
        => row.commit = imported

\* Once all is quiet, a sync that succeeded imported what the row is configured
\* with, unless a retry was overtaken by a user after it had read the row.
Quiet == \A s \in Syncs : ~Underway(s)
SuccessIsConfigured ==
    row.status = "success" /\ Quiet /\ crashes = 0 /\ ~stale => want[row.commit] = row.source

\* The same without the exception: what the row says of itself
\* (docs/self-hosting.md:64, "Sync imports the selected branch").
SuccessImportsSelection ==
    row.status = "success" /\ Quiet /\ crashes = 0 => want[row.commit] = row.source

\* A row does not stay in "syncing", which no sweep would pick up again: the
\* handlers end it, or the process dies.
SyncingEnds == row.status = "syncing" ~> (row.status # "syncing" \/ crashes > 0)
=============================================================================
