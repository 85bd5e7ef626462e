------------------------ MODULE GitHubSyncRow_proofs ------------------------
(***************************************************************************)
(* What holds of the github_syncs row for any number of requests and       *)
(* passes of the retry job, any budget and any number of crashes.          *)
(***************************************************************************)
EXTENDS GitHubSyncRow, RepoSyncLock_proofs

\* Requests and retries keep to their own control states.
KindInv ==
    \A s \in Syncs : IF s \in Starts THEN pc[s] \notin {"picked", "token"} ELSE pc[s] # "read"

\* The retry_count that a retry has read is the row's for as long as the retry
\* is under way: nobody else changes it, because one pass runs at a time.
AtWork(s) == pc[s] \in {"called", "imported"}
CountInv ==
    /\ \A r, q \in Retries : Underway(r) /\ Underway(q) => r = q
    /\ \A r \in Retries : Underway(r) =>
          inFlight /\ saw[r] = row.count /\ row.count < MaxRetries
    /\ \/ attempts <= row.count + crashes
       \/ /\ attempts <= row.count + crashes + 1
          /\ \E r \in Retries : AtWork(r)

\* Whoever set "syncing" is still there to end it.
RowInv == row.status = "syncing" => crashes > 0 \/ \E s \in Syncs : pc[s] = "token" \/ AtWork(s)

IInv == TypeOK /\ LockInv /\ KindInv /\ CountInv /\ RowInv

RowType == [status : Statuses, source : Sources \cup {NoSource},
            count : 0 .. MaxRetries, commit : Syncs \cup {NoSync}]

-----------------------------------------------------------------------------

LEMMA SyncRowLockSteps == [Next]_vars => [LockNext]_lockVars
<1> SUFFICES ASSUME [Next]_vars PROVE [LockNext]_lockVars
  OBVIOUS
<1>1. ASSUME NEW s \in Starts, StartStep(s) PROVE [LockNext]_lockVars
  BY <1>1, GitHubSyncRowAssumption
     DEF StartStep, StartRead, StartRefused, StartCall, WriteAndCall, LockNext
<1>2. ASSUME NEW r \in Retries, Tick(r) \/ RetryStep(r) PROVE [LockNext]_lockVars
  BY <1>2 DEF Tick, Pick, RetryStep, RetryBegin, RetryNoToken, RetryCall, LockNext, Retries
<1>3. ASSUME NEW s \in Syncs, ImportStep(s) \/ ImportForgets(s) PROVE [LockNext]_lockVars
  BY <1>3 DEF ImportStep, ImportStart, ImportDone, ImportSettles, ImportFails, ImportForgets,
              LockNext
<1>4. CASE EndPass
  BY <1>4 DEF EndPass
<1>5. CASE Crash
  BY <1>5 DEF Crash, LockNext
<1>6. CASE UNCHANGED vars
  BY <1>6 DEF vars
<1> QED
  BY <1>1, <1>2, <1>3, <1>4, <1>5, <1>6 DEF Next

LEMMA SyncRowLockKept == LockInv /\ [Next]_vars => LockInv'
  BY SyncRowLockSteps, LockInvStep

LEMMA SyncRowInit == Init => IInv
<1> SUFFICES ASSUME Init PROVE IInv
  OBVIOUS
<1>1. LockInv
  BY LockInvInit DEF Init
<1>2. TypeOK
  <2>1. 0 \in 0 .. MaxRetries /\ 0 \in Nat
    BY GitHubSyncRowAssumption
  <2>2. row \in RowType
    BY <2>1 DEF Init, RowType, NoRow, Statuses
  <2>3. pc \in [Syncs -> PcStates]
    BY DEF Init, PcStates
  <2>4. want \in [Syncs -> Sources \cup {NoSource}] /\ saw \in [Syncs -> 0 .. MaxRetries]
    BY <2>1 DEF Init
  <2> QED
    BY <1>1, <2>1, <2>2, <2>3, <2>4 DEF Init, TypeOK, RowType, LockInv
<1>3. KindInv /\ CountInv /\ RowInv
  BY GitHubSyncRowAssumption DEF Init, KindInv, CountInv, RowInv, NoRow, Underway, AtWork, Retries
<1> QED
  BY <1>1, <1>2, <1>3 DEF IInv

-----------------------------------------------------------------------------
(* Steps of the requests. *)

LEMMA StartKeeps ==
    ASSUME IInv, LockTypeOK', NEW s \in Starts, StartStep(s)
    PROVE  TypeOK' /\ KindInv' /\ CountInv' /\ RowInv'
<1> USE GitHubSyncRowAssumption DEF IInv
<1>0. s \in Syncs /\ s \notin Retries
  BY DEF Retries
<1>1. CASE StartRead(s)
  <2>1. TypeOK'
    BY <1>0, <1>1 DEF StartRead, TypeOK, PcStates, rowVars, historyVars
  <2>2. KindInv' /\ RowInv'
    BY <1>0, <1>1 DEF StartRead, KindInv, RowInv, AtWork, TypeOK, rowVars, historyVars
  <2>3. \A r \in Retries : pc'[r] = pc[r] /\ saw'[r] = saw[r]
    BY <1>0, <1>1 DEF StartRead, TypeOK, Retries
  <2> QED
    BY <1>1, <2>1, <2>2, <2>3 DEF StartRead, CountInv, Underway, AtWork, rowVars, historyVars
<1>2. CASE StartRefused(s)
  <2>1. TypeOK'
    BY <1>0, <1>2 DEF StartRefused, TypeOK, PcStates, rowVars, historyVars
  <2>2. KindInv' /\ RowInv'
    BY <1>0, <1>2 DEF StartRefused, KindInv, RowInv, AtWork, TypeOK, rowVars, historyVars
  <2>3. \A r \in Retries : pc'[r] = pc[r]
    BY <1>0, <1>2 DEF StartRefused, TypeOK, Retries
  <2> QED
    BY <1>2, <2>1, <2>2, <2>3 DEF StartRefused, CountInv, Underway, AtWork, rowVars, historyVars
<1>3. CASE StartCall(s)
  <2>0. row \in RowType /\ row' = [row EXCEPT !.status = "syncing", !.source = want[s]]
    BY <1>3 DEF StartCall, WriteAndCall, TypeOK, RowType
  <2>1. row' \in RowType /\ row'.count = row.count
    BY <1>0, <2>0 DEF TypeOK, RowType, Statuses
  <2>2. TypeOK'
    BY <1>0, <1>3, <2>1 DEF StartCall, WriteAndCall, TypeOK, PcStates, RowType
  <2>3. KindInv' /\ RowInv'
    BY <1>0, <1>3 DEF StartCall, WriteAndCall, KindInv, RowInv, AtWork, TypeOK
  <2>4. \A r \in Retries : pc'[r] = pc[r]
    BY <1>0, <1>3 DEF StartCall, WriteAndCall, TypeOK, Retries
  <2>5. row.count \in Nat /\ crashes \in Nat
    BY DEF TypeOK
  <2> QED
    BY <1>3, <2>1, <2>2, <2>3, <2>4, <2>5
       DEF StartCall, WriteAndCall, CountInv, Underway, AtWork
<1> QED
  BY <1>1, <1>2, <1>3 DEF StartStep

-----------------------------------------------------------------------------
(* Steps of the job. *)

LEMMA TickKeeps ==
    ASSUME IInv, LockTypeOK', NEW r \in Retries, Tick(r)
    PROVE  TypeOK' /\ KindInv' /\ CountInv' /\ RowInv'
<1> USE GitHubSyncRowAssumption DEF IInv
<1>0. r \in Syncs /\ r \notin Starts
  BY DEF Retries
<1>1. TypeOK'
  BY <1>0 DEF Tick, Pick, TypeOK, PcStates, rowVars, historyVars
<1>2. KindInv' /\ RowInv'
  BY <1>0 DEF Tick, Pick, KindInv, RowInv, AtWork, TypeOK, rowVars, historyVars
<1>3. \A q \in Retries : ~Underway(q)
  BY DEF Tick, CountInv
<1>4. \A q \in Retries : Underway(q)' => q = r
  BY <1>0, <1>3 DEF Tick, Pick, Underway, TypeOK, Retries
<1>5. saw'[r] = row.count /\ row' = row /\ row.count < MaxRetries /\ inFlight'
  BY <1>0 DEF Tick, Pick, TypeOK, rowVars
<1>6. attempts <= row.count + crashes
  BY <1>3 DEF CountInv, AtWork, Underway
<1> QED
  BY <1>1, <1>2, <1>4, <1>5, <1>6 DEF Tick, Pick, CountInv, historyVars

LEMMA RetryKeeps ==
    ASSUME IInv, LockTypeOK', NEW r \in Retries, RetryStep(r)
    PROVE  TypeOK' /\ KindInv' /\ CountInv' /\ RowInv'
<1> USE GitHubSyncRowAssumption DEF IInv
<1>0. r \in Syncs /\ r \notin Starts
  BY DEF Retries
<1>1. Underway(r) /\ ~AtWork(r)
  BY DEF RetryStep, RetryBegin, RetryNoToken, RetryCall, Underway, AtWork
<1>2. /\ inFlight /\ saw[r] = row.count /\ row.count < MaxRetries
      /\ \A q \in Retries : Underway(q) => q = r
      /\ attempts <= row.count + crashes
  BY <1>1 DEF CountInv, AtWork, Underway
<1>3. row.count \in 0 .. MaxRetries /\ attempts \in Nat /\ crashes \in Nat /\ row \in RowType
  BY DEF TypeOK, RowType
<1>4. CASE RetryBegin(r)
  <2>1. row' \in RowType /\ row'.count = row.count
    BY <1>3, <1>4 DEF RetryBegin, RowType, Statuses
  <2>2. TypeOK' /\ KindInv' /\ RowInv'
    BY <1>0, <1>4, <2>1 DEF RetryBegin, TypeOK, PcStates, KindInv, RowInv, RowType, historyVars
  <2>3. \A q \in Retries : Underway(q)' => q = r
    BY <1>0, <1>2, <1>4 DEF RetryBegin, Underway, TypeOK, Retries
  <2> QED
    BY <1>2, <1>3, <1>4, <2>1, <2>2, <2>3 DEF RetryBegin, CountInv, historyVars
<1>5. CASE RetryNoToken(r)
  <2>0. MaxRetries \in 0 .. MaxRetries
    OBVIOUS
  <2>1. row' \in RowType /\ row'.count = MaxRetries /\ row'.status = "failed"
    BY <1>3, <1>5, <2>0 DEF RetryNoToken, RowType, Statuses
  <2>2. TypeOK' /\ KindInv' /\ RowInv'
    BY <1>0, <1>5, <2>1 DEF RetryNoToken, TypeOK, PcStates, KindInv, RowInv, RowType, historyVars
  <2>3. \A q \in Retries : ~Underway(q)'
    BY <1>0, <1>2, <1>5 DEF RetryNoToken, Underway, TypeOK, Retries
  <2> QED
    BY <1>2, <1>3, <1>5, <2>1, <2>2, <2>3 DEF RetryNoToken, CountInv, historyVars
<1>6. CASE RetryCall(r)
  <2>1. TypeOK' /\ KindInv'
    BY <1>0, <1>3, <1>6 DEF RetryCall, TypeOK, PcStates, KindInv, rowVars
  <2>2. AtWork(r)'
    BY <1>0, <1>6 DEF RetryCall, AtWork, TypeOK
  <2>3. RowInv'
    BY <1>0, <2>2 DEF RowInv
  <2>4. \A q \in Retries : Underway(q)' => q = r
    BY <1>0, <1>2, <1>6 DEF RetryCall, Underway, TypeOK, Retries
  <2> QED
    BY <1>2, <1>3, <1>6, <2>1, <2>2, <2>3, <2>4 DEF RetryCall, CountInv, rowVars
<1> QED
  BY <1>4, <1>5, <1>6 DEF RetryStep

-----------------------------------------------------------------------------
(* Steps of the imports. *)

LEMMA ImportKeeps ==
    ASSUME IInv, LockTypeOK', NEW s \in Syncs, ImportStep(s)
    PROVE  TypeOK' /\ KindInv' /\ CountInv' /\ RowInv'
<1> USE GitHubSyncRowAssumption DEF IInv
<1>1. row.count \in 0 .. MaxRetries /\ attempts \in Nat /\ crashes \in Nat /\ row \in RowType
  BY DEF TypeOK, RowType
<1>2. CASE ImportStart(s)
  BY <1>2 DEF ImportStart, TypeOK, KindInv, CountInv, RowInv, Underway, AtWork, rowVars, taskVars,
              historyVars
<1>3. CASE ImportDone(s)
  <2>1. TypeOK' /\ KindInv'
    BY <1>3 DEF ImportDone, TypeOK, PcStates, KindInv, historyVars
  <2>2. \A q \in Syncs : /\ AtWork(q) <=> AtWork(q)'
                         /\ Underway(q) <=> Underway(q)'
                         /\ pc[q] = "token" <=> pc'[q] = "token"
    BY <1>3 DEF ImportDone, AtWork, Underway, TypeOK
  <2> QED
    BY <1>3, <2>1, <2>2 DEF ImportDone, CountInv, RowInv, Retries, historyVars
<1>4. CASE ImportSettles(s) \/ ImportFails(s)
  <2>1. Underway(s) /\ AtWork(s) /\ pc' = [pc EXCEPT ![s] = "done"]
    BY <1>4 DEF ImportSettles, ImportFails, Underway, AtWork
  <2>2. s \in Retries => /\ inFlight /\ saw[s] = row.count /\ row.count < MaxRetries
                         /\ \A q \in Retries : Underway(q) => q = s
    BY <2>1 DEF CountInv
  <2>3. /\ \A q \in Retries : Underway(q)' => Underway(q) /\ q # s
        /\ \A q \in Syncs : q # s => (AtWork(q) <=> AtWork(q)')
    BY <2>1 DEF Underway, AtWork, TypeOK, Retries
  <2>4. /\ row' \in RowType /\ row'.status # "syncing"
        /\ s \notin Retries => row'.count = row.count /\ attempts' = attempts
        /\ s \in Retries => \/ attempts' = 0
                            \/ row'.count = row.count + 1 /\ attempts' = attempts
    <3>0. 0 \in 0 .. MaxRetries /\ Retries = Syncs \ Starts
      BY DEF Retries
    <3>1. CASE ImportSettles(s)
      <4>1. row' = Succeeded(s) /\ attempts' = IF s \in Retries THEN 0 ELSE attempts
        BY <3>1 DEF ImportSettles
      <4> QED
        BY <1>1, <3>0, <4>1 DEF Succeeded, RowType, Statuses
    <3>2. CASE ImportFails(s)
      <4>1. row' = Failed(s) /\ attempts' = attempts
        BY <3>2 DEF ImportFails, historyVars
      <4>2. CASE s \in Starts
        BY <1>1, <3>0, <4>1, <4>2 DEF Failed, RowType, Statuses
      <4>3. CASE s \notin Starts
        <5>1. saw[s] = row.count /\ row.count + 1 \in 0 .. MaxRetries
          BY <1>1, <2>2, <3>0, <4>3
        <5>2. row' = [row EXCEPT !.count = row.count + 1,
                                 !.status = IF row.count + 1 >= MaxRetries THEN "failed" ELSE "error"]
          BY <4>1, <4>3, <5>1 DEF Failed
        <5> QED
          BY <1>1, <3>0, <4>1, <4>3, <5>1, <5>2 DEF RowType, Statuses
      <4> QED
        BY <4>2, <4>3
    <3> QED
      BY <1>4, <3>1, <3>2
  <2>5. TypeOK' /\ KindInv'
    BY <1>1, <1>4, <2>1, <2>4
       DEF ImportSettles, ImportFails, TypeOK, PcStates, KindInv, RowType, Retries, historyVars
  <2>6. UNCHANGED <<inFlight, saw, crashes>>
    BY <1>4 DEF ImportSettles, ImportFails, historyVars
  <2>7. \A r, q \in Retries : Underway(r)' /\ Underway(q)' => r = q
    BY <2>3 DEF CountInv
  <2>8. row'.count \in Nat
    BY <2>4 DEF RowType
  <2>9. CASE s \in Retries
    <3>1. \A q \in Retries : ~Underway(q)'
      BY <2>2, <2>3, <2>9
    <3>2. attempts' <= row'.count + crashes'
      BY <1>1, <2>4, <2>6, <2>8, <2>9 DEF CountInv
    <3> QED
      BY <2>4, <2>5, <3>1, <3>2 DEF CountInv, RowInv
  <2>10. CASE s \notin Retries
    <3>1. \A r \in Retries : AtWork(r) => AtWork(r)'
      BY <2>3, <2>10 DEF Retries
    <3> QED
      BY <2>3, <2>4, <2>5, <2>6, <2>7, <2>10, <3>1 DEF CountInv, RowInv
  <2> QED
    BY <2>9, <2>10
<1> QED
  BY <1>2, <1>3, <1>4 DEF ImportStep

LEMMA CrashKeeps ==
    ASSUME IInv, LockTypeOK', Crash
    PROVE  TypeOK' /\ KindInv' /\ CountInv' /\ RowInv'
<1> USE GitHubSyncRowAssumption DEF IInv
<1>1. row.count \in Nat /\ attempts \in Nat /\ crashes \in Nat /\ crashes' = crashes + 1
  BY DEF Crash, TypeOK
<1>2. \A s \in Syncs : ~Underway(s)' /\ pc'[s] \in {"idle", "done"}
  BY DEF Crash, Underway, TypeOK, PcStates
<1>3. TypeOK' /\ KindInv'
  <2>1. pc' \in [Syncs -> PcStates]
    BY DEF Crash, TypeOK, PcStates
  <2>2. UNCHANGED <<row, imported, want, saw, attempts, stale>> /\ inFlight' = FALSE
    BY DEF Crash, rowVars
  <2>3. crashes' \in Nat
    BY <1>1
  <2>4. TypeOK'
    BY <2>1, <2>2, <2>3 DEF TypeOK
  <2>5. KindInv'
    BY <1>2 DEF KindInv
  <2> QED
    BY <2>4, <2>5
<1>4. RowInv'
  BY <1>1 DEF RowInv
<1>5. CountInv'
  BY <1>1, <1>2 DEF Crash, CountInv, Retries, rowVars
<1> QED
  BY <1>3, <1>4, <1>5

LEMMA IInvStep == IInv /\ [Next]_vars => IInv'
<1> SUFFICES ASSUME IInv, [Next]_vars PROVE IInv'
  OBVIOUS
<1>0. LockInv' /\ LockTypeOK'
  BY SyncRowLockKept DEF IInv, LockInv
<1>1. ASSUME NEW s \in Starts, StartStep(s) PROVE IInv'
  BY <1>0, <1>1, StartKeeps DEF IInv
<1>2. ASSUME NEW r \in Retries, Tick(r) \/ RetryStep(r) PROVE IInv'
  BY <1>0, <1>2, TickKeeps, RetryKeeps DEF IInv
<1>3. ASSUME NEW s \in Syncs, ImportStep(s) PROVE IInv'
  BY <1>0, <1>3, ImportKeeps DEF IInv
<1>4. ASSUME NEW s \in Syncs, ImportForgets(s) PROVE IInv'
  BY <1>0, <1>4 DEF ImportForgets, IInv, TypeOK, KindInv, CountInv, RowInv, Underway, AtWork,
                    rowVars, taskVars, historyVars
<1>5. CASE EndPass
  BY <1>0, <1>5 DEF EndPass, IInv, TypeOK, KindInv, CountInv, RowInv, Underway, AtWork,
                    rowVars, taskVars, historyVars
<1>6. CASE Crash
  BY <1>0, <1>6, CrashKeeps DEF IInv
<1>7. CASE UNCHANGED vars
  BY <1>0, <1>7 DEF vars, IInv, TypeOK, KindInv, CountInv, RowInv, Underway, AtWork,
                    rowVars, taskVars, historyVars
<1> QED
  BY <1>1, <1>2, <1>3, <1>4, <1>5, <1>6, <1>7 DEF Next

-----------------------------------------------------------------------------
(* The row and what the repository holds. *)

\* A handler has an import under way exactly while the lock knows of it, and
\* what an import has put into the repository stays there until it settles.
LinkInv ==
    \A s \in Syncs :
        /\ AtWork(s) <=> Unsettled(s)
        /\ pc[s] = "imported" => syncState[s] = "running" /\ imported = s

\* The row names the last import, unless one is about to write the row.
NameInv ==
    crashes = 0 /\ row.status = "success" =>
        /\ row.commit \in Syncs /\ pc[row.commit] = "done"
        /\ (\A s \in Syncs : pc[s] # "imported") => row.commit = imported

\* Whoever was the last to queue an import goes on with the row's configuration.
ConfigInv ==
    crashes = 0 /\ ~stale =>
        /\ \A s \in Syncs : Unsettled(s) => want[tail] = row.source
        /\ \A r \in Retries : Preparing(r) => want[r] = row.source
        /\ row.status = "success" /\ (\A s \in Syncs : ~AtWork(s)) =>
              want[row.commit] = row.source

JInv == IInv /\ LinkInv /\ NameInv /\ ConfigInv

LEMMA TailIsUnsettled ==
    ASSUME LockInv, NEW s \in Syncs, Unsettled(s)
    PROVE  tail \in Syncs /\ Unsettled(tail)
<1>1. PICK i \in DOMAIN queue : queue[i] = s
  BY DEF LockInv, ChainInv
<1>2. queue # <<>> /\ Len(queue) \in DOMAIN queue
  BY <1>1 DEF LockInv, LockTypeOK
<1>3. tail = queue[Len(queue)] /\ tail \in Syncs
  BY <1>2 DEF LockInv, LockTypeOK, ChainInv
<1> QED
  BY <1>2, <1>3 DEF LockInv, ChainInv

LEMMA SyncRowNamesInit == Init => LinkInv /\ NameInv /\ ConfigInv
  BY DEF Init, LockInit, LinkInv, NameInv, ConfigInv, AtWork, Unsettled, Preparing, NoRow, Retries

\* Steps of a request.
LEMMA StartNames ==
    ASSUME JInv, NEW s \in Starts, StartStep(s)
    PROVE  LinkInv' /\ NameInv' /\ ConfigInv'
<1> USE GitHubSyncRowAssumption DEF JInv, IInv
<1>0. s \in Syncs /\ s \notin Retries
  BY DEF Retries
<1>1. CASE StartRead(s) \/ StartRefused(s)
  <2>1. UNCHANGED <<row, imported, stale, crashes, syncState, tail>>
    BY <1>1 DEF StartRead, StartRefused, rowVars, historyVars, lockVars
  <2>2. /\ \A t \in Syncs \ {s} : pc'[t] = pc[t] /\ want'[t] = want[t]
        /\ ~AtWork(s) /\ ~AtWork(s)' /\ pc[s] # "done" /\ pc'[s] # "imported"
    BY <1>0, <1>1 DEF StartRead, StartRefused, TypeOK, AtWork
  <2>3. LinkInv'
    BY <2>1, <2>2 DEF LinkInv, AtWork, Unsettled
  <2>4. NameInv'
    BY <2>1, <2>2 DEF NameInv, AtWork
  <2>5. \A t \in Syncs : Unsettled(t) => want'[tail] = want[tail]
    BY <2>2, TailIsUnsettled DEF LinkInv
  <2>6. ConfigInv'
    BY <1>0, <2>1, <2>2, <2>5 DEF ConfigInv, NameInv, Unsettled, Preparing, Retries, AtWork
  <2> QED
    BY <2>3, <2>4, <2>6
<1>2. CASE StartCall(s)
  <2>1. /\ row' = [row EXCEPT !.status = "syncing", !.source = want[s]]
        /\ pc[s] = "read" /\ pc' = [pc EXCEPT ![s] = "called"]
        /\ stale' = (stale \/ \E r \in Syncs : Preparing(r))
        /\ tail' = s /\ syncState' = [syncState EXCEPT ![s] = "waiting"]
        /\ UNCHANGED <<imported, want, crashes>>
    BY <1>2 DEF StartCall, WriteAndCall, Call
  <2>2. row'.status = "syncing" /\ row'.source = want[s]
    BY <2>1 DEF TypeOK
  <2>3. LinkInv'
    BY <1>0, <2>1 DEF LinkInv, AtWork, Unsettled, TypeOK, LockTypeOK
  <2>4. NameInv'
    BY <2>2 DEF NameInv
  <2>5. ~stale' => ~stale /\ \A r \in Retries : ~Preparing(r)'
    BY <1>0, <2>1 DEF Preparing, TypeOK, Retries
  <2>6. ConfigInv'
    BY <2>1, <2>2, <2>5 DEF ConfigInv
  <2> QED
    BY <2>3, <2>4, <2>6
<1> QED
  BY <1>1, <1>2 DEF StartStep

\* Steps of the job.
LEMMA RetryNames ==
    ASSUME JInv, NEW r \in Retries, Tick(r) \/ RetryStep(r)
    PROVE  LinkInv' /\ NameInv' /\ ConfigInv'
<1> USE GitHubSyncRowAssumption DEF JInv, IInv
<1>0. r \in Syncs
  BY DEF Retries
<1>1. CASE Tick(r)
  <2>1. UNCHANGED <<row, imported, stale, crashes, syncState, tail>> /\ row.status = "error"
    BY <1>1 DEF Tick, Pick, rowVars, historyVars, lockVars
  <2>2. /\ \A t \in Syncs \ {r} : pc'[t] = pc[t] /\ want'[t] = want[t]
        /\ ~AtWork(r) /\ ~AtWork(r)' /\ want'[r] = row.source /\ pc'[r] # "imported"
    BY <1>0, <1>1 DEF Tick, Pick, TypeOK, AtWork
  <2>3. LinkInv'
    BY <2>1, <2>2 DEF LinkInv, AtWork, Unsettled
  <2>4. NameInv'
    BY <2>1 DEF NameInv
  <2>5. \A t \in Syncs : Unsettled(t) => want'[tail] = want[tail]
    BY <2>2, TailIsUnsettled DEF LinkInv
  <2>6. ConfigInv'
    BY <1>0, <2>1, <2>2, <2>5 DEF ConfigInv, Unsettled, Preparing, Retries
  <2> QED
    BY <2>3, <2>4, <2>6
<1>2. CASE RetryBegin(r) \/ RetryNoToken(r)
  <2>1. /\ UNCHANGED <<imported, want, stale, crashes, syncState, tail>>
        /\ pc[r] \in {"picked", "token"} /\ pc' \in {[pc EXCEPT ![r] = "token"], [pc EXCEPT ![r] = "done"]}
    BY <1>2 DEF RetryBegin, RetryNoToken, historyVars, lockVars
  <2>2. row'.status # "success" /\ row'.source = row.source
    BY <1>2 DEF RetryBegin, RetryNoToken, TypeOK
  <2>3. LinkInv'
    BY <1>0, <2>1 DEF LinkInv, AtWork, Unsettled, TypeOK
  <2>4. NameInv'
    BY <2>2 DEF NameInv
  <2>5. \A q \in Retries : Preparing(q)' => Preparing(q)
    BY <1>0, <2>1 DEF Preparing, TypeOK, Retries
  <2>6. ConfigInv'
    BY <2>1, <2>2, <2>5 DEF ConfigInv, Unsettled
  <2> QED
    BY <2>3, <2>4, <2>6
<1>3. CASE RetryCall(r)
  <2>1. /\ UNCHANGED <<row, imported, want, stale, crashes>>
        /\ pc[r] = "token" /\ pc' = [pc EXCEPT ![r] = "called"]
        /\ tail' = r /\ syncState' = [syncState EXCEPT ![r] = "waiting"]
    BY <1>3 DEF RetryCall, Call, rowVars
  <2>2. AtWork(r)' /\ Preparing(r) /\ \A q \in Retries : Preparing(q)' => Preparing(q)
    BY <1>0, <2>1 DEF AtWork, Preparing, TypeOK, Retries
  <2>3. LinkInv'
    BY <1>0, <2>1 DEF LinkInv, AtWork, Unsettled, TypeOK, LockTypeOK
  <2>4. NameInv'
    BY <1>0, <2>1 DEF NameInv, TypeOK
  <2>5. ConfigInv'
    BY <1>0, <2>1, <2>2 DEF ConfigInv
  <2> QED
    BY <2>3, <2>4, <2>5
<1> QED
  BY <1>1, <1>2, <1>3 DEF RetryStep

\* An import that begins, changes the repository, or settles.
LEMMA ImportNames ==
    ASSUME JInv, NEW s \in Syncs, ImportStep(s)
    PROVE  LinkInv' /\ NameInv' /\ ConfigInv'
<1> USE GitHubSyncRowAssumption DEF JInv, IInv
<1>1. CASE ImportStart(s)
  <2>1. UNCHANGED <<row, imported, pc, want, stale, crashes, tail>>
    BY <1>1 DEF ImportStart, Start, rowVars, taskVars, historyVars
  <2>2. /\ \A t \in Syncs : Unsettled(t)' <=> Unsettled(t)
        /\ \A t \in Syncs : syncState[t] = "running" => syncState'[t] = "running"
    BY <1>1 DEF ImportStart, Start, Unsettled, LockTypeOK, TypeOK
  <2> QED
    BY <2>1, <2>2 DEF LinkInv, NameInv, ConfigInv, AtWork, Preparing
<1>2. CASE ImportDone(s)
  <2>1. /\ UNCHANGED <<row, want, stale, crashes, tail, syncState>>
        /\ pc[s] = "called" /\ pc' = [pc EXCEPT ![s] = "imported"]
        /\ imported' = s /\ syncState[s] = "running"
    BY <1>2 DEF ImportDone, historyVars, lockVars
  <2>2. \A t \in Syncs : pc[t] # "imported"
    BY <2>1, LockInvConsequences DEF LinkInv, SyncsSerialized
  <2>3. /\ pc'[s] = "imported" /\ \A t \in Syncs \ {s} : pc'[t] = pc[t]
        /\ \A t \in Syncs : (AtWork(t)' <=> AtWork(t)) /\ (Preparing(t)' <=> Preparing(t))
    BY <2>1 DEF AtWork, Preparing, TypeOK
  <2>4. LinkInv'
    BY <2>1, <2>2, <2>3 DEF LinkInv, Unsettled
  <2>5. NameInv'
    BY <2>1, <2>3 DEF NameInv
  <2>6. ConfigInv'
    BY <2>1, <2>3 DEF ConfigInv, Unsettled, Retries
  <2> QED
    BY <2>4, <2>5, <2>6
<1>3. CASE ImportSettles(s) \/ ImportFails(s)
  <2>1. /\ UNCHANGED <<want, stale, crashes, tail>>
        /\ AtWork(s) /\ pc' = [pc EXCEPT ![s] = "done"]
        /\ syncState[s] = "running" /\ syncState' = [syncState EXCEPT ![s] = "settled"]
    BY <1>3 DEF ImportSettles, ImportFails, Settle, AtWork, historyVars
  <2>2. /\ pc'[s] = "done" /\ \A t \in Syncs \ {s} : pc'[t] = pc[t]
        /\ \A t \in Syncs : Unsettled(t)' <=> Unsettled(t) /\ t # s
        /\ \A t \in Syncs \ {s} : syncState'[t] = syncState[t]
    BY <2>1 DEF Unsettled, TypeOK, LockTypeOK
  <2>3. \A t \in Syncs \ {s} : pc[t] # "imported"
    BY <2>1, LockInvConsequences DEF LinkInv, SyncsSerialized
  <2>4. LinkInv'
    BY <2>2, <2>3 DEF LinkInv, AtWork
  <2>5. /\ row'.source = row.source
        /\ ImportSettles(s) => row'.commit = s /\ imported' = s
        /\ ImportFails(s) => row'.status # "success"
    <3>1. DOMAIN row = {"status", "source", "count", "commit"}
      BY DEF LinkInv, TypeOK
    <3>2. CASE ImportSettles(s)
      BY <2>1, <3>1, <3>2 DEF ImportSettles, ImportFails, Succeeded, LinkInv, TypeOK
    <3>3. CASE ImportFails(s)
      BY <2>1, <3>1, <3>3 DEF ImportSettles, ImportFails, Failed, LinkInv, TypeOK
    <3> QED
      BY <1>3, <3>2, <3>3
  <2>6. NameInv'
    BY <1>3, <2>2, <2>5 DEF NameInv
  <2>7. \A t \in Syncs : Preparing(t)' => Preparing(t)
    BY <2>1 DEF Preparing, TypeOK
  <2>8. Unsettled(s) /\ tail \in Syncs /\ Unsettled(tail)
    BY <2>1, TailIsUnsettled DEF Unsettled
  <2>9. (\A t \in Syncs : ~AtWork(t)') => tail = s
    BY <2>2, <2>4, <2>8 DEF LinkInv
  <2>10. ConfigInv'
    BY <1>3, <2>1, <2>2, <2>5, <2>7, <2>8, <2>9 DEF ConfigInv, Retries
  <2> QED
    BY <2>4, <2>6, <2>10
<1> QED
  BY <1>1, <1>2, <1>3 DEF ImportStep

LEMMA JInvStep == JInv /\ [Next]_vars => JInv'
<1> SUFFICES ASSUME JInv, [Next]_vars PROVE LinkInv' /\ NameInv' /\ ConfigInv'
  BY IInvStep DEF JInv
<1>1. ASSUME NEW s \in Starts, StartStep(s) PROVE LinkInv' /\ NameInv' /\ ConfigInv'
  BY <1>1, StartNames
<1>2. ASSUME NEW r \in Retries, Tick(r) \/ RetryStep(r) PROVE LinkInv' /\ NameInv' /\ ConfigInv'
  BY <1>2, RetryNames
<1>3. ASSUME NEW s \in Syncs, ImportStep(s) PROVE LinkInv' /\ NameInv' /\ ConfigInv'
  BY <1>3, ImportNames
<1>4. ASSUME NEW s \in Syncs, ImportForgets(s) PROVE LinkInv' /\ NameInv' /\ ConfigInv'
  <2>1. UNCHANGED <<row, imported, pc, want, stale, crashes, syncState>> /\ tail = s /\ ~Unsettled(s)
    BY <1>4 DEF ImportForgets, Forget, Unsettled, rowVars, taskVars, historyVars
  <2>2. \A t \in Syncs : ~Unsettled(t)
    BY <2>1, TailIsUnsettled DEF JInv, IInv
  <2> QED
    BY <2>1, <2>2 DEF JInv, LinkInv, NameInv, ConfigInv, AtWork, Unsettled, Preparing
<1>5. CASE EndPass
  BY <1>5 DEF EndPass, JInv, LinkInv, NameInv, ConfigInv, AtWork, Unsettled, Preparing,
              rowVars, taskVars, historyVars, lockVars
<1>6. CASE Crash
  <2>1. crashes' # 0
    BY <1>6 DEF Crash, JInv, IInv, TypeOK
  <2>2. \A s \in Syncs : ~AtWork(s)' /\ ~Unsettled(s)'
    BY <1>6 DEF Crash, LockRestart, AtWork, Underway, Unsettled
  <2> QED
    BY <2>1, <2>2 DEF LinkInv, NameInv, ConfigInv, AtWork
<1>7. CASE UNCHANGED vars
  BY <1>7 DEF vars, JInv, LinkInv, NameInv, ConfigInv, AtWork, Unsettled, Preparing,
              rowVars, taskVars, historyVars, lockVars
<1> QED
  BY <1>1, <1>2, <1>3, <1>4, <1>5, <1>6, <1>7 DEF Next

-----------------------------------------------------------------------------

\* Every variable has its type; in particular retry_count never passes the budget.
THEOREM SyncRowTypes == Spec => []TypeOK
<1>1. Spec => []IInv
  BY SyncRowInit, IInvStep, PTL DEF Spec
<1>2. IInv => TypeOK
  BY DEF IInv
<1> QED
  BY <1>1, <1>2, PTL

\* The retry job stops: between two things users ask for it imports at most
\* MaxRetries times, plus once for every time the process died
\* (githubSyncRetry.ts:57-165 under the in-flight set of scheduler.ts:97-111).
THEOREM RetriesAreBounded == Spec => []RetryBudget
<1>1. Spec => []IInv
  BY SyncRowInit, IInvStep, PTL DEF Spec
<1>2. IInv => RetryBudget
  <2> SUFFICES ASSUME IInv PROVE attempts <= MaxRetries + crashes
    BY DEF RetryBudget
  <2>1. row.count \in 0 .. MaxRetries /\ attempts \in Nat /\ crashes \in Nat /\ MaxRetries \in Nat
    BY GitHubSyncRowAssumption DEF IInv, TypeOK
  <2>2. CASE attempts <= row.count + crashes
    BY <2>1, <2>2
  <2>3. CASE attempts <= row.count + crashes + 1 /\ \E r \in Retries : AtWork(r)
    <3>1. row.count < MaxRetries
      BY <2>3 DEF IInv, CountInv, AtWork, Underway
    <3> QED
      BY <2>1, <2>3, <3>1
  <2> QED
    BY <2>2, <2>3 DEF IInv, CountInv
<1> QED
  BY <1>1, <1>2, PTL

\* A row in "syncing" has somebody at work on it, or the process has died: no
\* path through a request or through the retry job leaves the status behind.
THEOREM SyncingHasAWorker == Spec => []SyncingMeansUnderway
<1>1. Spec => []IInv
  BY SyncRowInit, IInvStep, PTL DEF Spec
<1>2. IInv => SyncingMeansUnderway
  BY DEF IInv, RowInv, SyncingMeansUnderway, Underway, AtWork
<1> QED
  BY <1>1, <1>2, PTL

\* When no import is about to write the row, a row that says success names the
\* import whose tree the repository holds, although every handler writes the row
\* without looking at the others (repos.ts:287-297, githubSyncRetry.ts:131-142):
\* each does so before the next import of the chain begins.
THEOREM RowNamesTheImport == Spec => []RowNamesImport
<1>1. Spec => []JInv
  BY SyncRowInit, SyncRowNamesInit, JInvStep, PTL DEF Spec, JInv
<1>2. JInv => RowNamesImport
  BY DEF JInv, NameInv, RowNamesImport
<1> QED
  BY <1>1, <1>2, PTL

\* A success at rest is a success of what the row is configured with, as long as
\* no user has overtaken a retry that had read the row (githubSyncRetry.ts:63-130).
THEOREM SuccessHasTheRowsConfiguration == Spec => []SuccessIsConfigured
<1>1. Spec => []JInv
  BY SyncRowInit, SyncRowNamesInit, JInvStep, PTL DEF Spec, JInv
<1>2. JInv => SuccessIsConfigured
  BY DEF JInv, ConfigInv, SuccessIsConfigured, Quiet, Underway, AtWork
<1> QED
  BY <1>1, <1>2, PTL
=============================================================================
