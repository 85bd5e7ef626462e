---------------------------- MODULE RepoSyncLock ----------------------------
(***************************************************************************)
(* The per-repository lock of services/githubSync.ts (withRepoSyncLock).   *)
(* There is no mutex object: every call of syncGitHubRepo chains its work  *)
(* onto the promise of the call before it, kept in a map keyed by the      *)
(* repository.  The module follows one repository, hence one map entry.    *)
(* Each member of Syncs is one call, and so one promise.                   *)
(***************************************************************************)
EXTENDS Naturals, Sequences

CONSTANTS Syncs,     \* the calls of syncGitHubRepo for this repository
          NoSync     \* the map has no entry / nothing to wait for

ASSUME NoSyncAssumption == NoSync \notin Syncs

VARIABLES syncState, \* the promise of each call
          previous,  \* the promise a call chained itself onto
          tail,      \* repoSyncLocks.get(repoId)
          queue      \* history variable: unsettled calls in calling order

lockVars == <<syncState, previous, tail, queue>>

SyncStates == {"idle", "waiting", "running", "settled"}

Unsettled(s) == syncState[s] \in {"waiting", "running"}

LockInit ==
    /\ syncState = [s \in Syncs |-> "idle"]
    /\ previous = [s \in Syncs |-> NoSync]
    /\ tail = NoSync
    /\ queue = <<>>

\* Mutant of Call: the new work is not chained.
CallUnchained(s) ==
    /\ syncState[s] = "idle"
    /\ syncState' = [syncState EXCEPT ![s] = "waiting"]
    /\ tail' = s
    /\ queue' = Append(queue, s)
    /\ UNCHANGED previous

\* const previous = get(repoId) ?? resolved; set(repoId, previous.then(fn, fn))
Call(s) ==
    /\ syncState[s] = "idle"
    /\ syncState' = [syncState EXCEPT ![s] = "waiting"]
    /\ previous' = [previous EXCEPT ![s] = tail]
    /\ tail' = s
    /\ queue' = Append(queue, s)

\* Mutant of Start: fn is run at once.
StartAtOnce(s) ==
    /\ syncState[s] = "waiting"
    /\ syncState' = [syncState EXCEPT ![s] = "running"]
    /\ UNCHANGED <<previous, tail, queue>>

\* previous.then(fn, fn): fn starts when the call before has resolved or rejected.
Start(s) ==
    /\ syncState[s] = "waiting"
    /\ previous[s] # NoSync => syncState[previous[s]] = "settled"
    /\ syncState' = [syncState EXCEPT ![s] = "running"]
    /\ UNCHANGED <<previous, tail, queue>>

\* fn returned or threw.
Settle(s) ==
    /\ syncState[s] = "running"
    /\ syncState' = [syncState EXCEPT ![s] = "settled"]
    /\ queue' = Tail(queue)
    /\ UNCHANGED <<previous, tail>>

\* The finally callback: drop the entry when this call is still the last one.
Forget(s) ==
    /\ syncState[s] = "settled"
    /\ tail = s
    /\ tail' = NoSync
    /\ UNCHANGED <<syncState, previous, queue>>

\* The map lives in memory: a restart of the process loses it, and the calls.
LockRestart ==
    /\ syncState' = [s \in Syncs |-> IF Unsettled(s) THEN "settled" ELSE syncState[s]]
    /\ tail' = NoSync
    /\ queue' = <<>>
    /\ UNCHANGED previous

LockNext == \/ \E s \in Syncs : Call(s) \/ Start(s) \/ Settle(s) \/ Forget(s)
            \/ LockRestart

LockSpec == LockInit /\ [][LockNext]_lockVars

-----------------------------------------------------------------------------

LockTypeOK ==
    /\ syncState \in [Syncs -> SyncStates]
    /\ previous \in [Syncs -> Syncs \cup {NoSync}]
    /\ tail \in Syncs \cup {NoSync}
    /\ queue \in Seq(Syncs)

\* At most one call at a time is between its first and its last step, although
\* nothing but the chain of promises orders them and the map entry comes and
\* goes (the comment on repoSyncLocks: "we serialize them").
SyncsSerialized ==
    \A s, t \in Syncs : syncState[s] = "running" /\ syncState[t] = "running" => s = t

\* Calls run in the order in which they were made: only the oldest unsettled
\* call can be running, so no sync overtakes one that was asked for earlier.
CallingOrder ==
    \A s \in Syncs : syncState[s] = "running" => queue # <<>> /\ s = Head(queue)

\* The chain itself, the strengthening that makes the two above inductive:
\* queue lists the unsettled calls, each chained onto the one before it, the
\* map entry is the last of them.
ChainInv ==
    /\ \A i, j \in DOMAIN queue : queue[i] = queue[j] => i = j
    /\ \A s \in Syncs : Unsettled(s) <=> \E i \in DOMAIN queue : queue[i] = s
    /\ \A i \in DOMAIN queue : i > 1 =>
          previous[queue[i]] = queue[i - 1] /\ syncState[queue[i]] = "waiting"
    /\ queue # <<>> => tail = queue[Len(queue)]
    /\ queue = <<>> /\ tail # NoSync => syncState[tail] = "settled"
=============================================================================
