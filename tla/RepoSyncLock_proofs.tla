------------------------ MODULE RepoSyncLock_proofs ------------------------
(***************************************************************************)
(* For any number of calls, the promise chain of withRepoSyncLock is a     *)
(* first-come first-served lock.  ChainInv is the strengthening; the       *)
(* mutual exclusion and the calling order are read off from it.            *)
(***************************************************************************)
EXTENDS RepoSyncLock, SequenceTheorems, TLAPS

LockInv == LockTypeOK /\ ChainInv

\* Settle drops the first call of the queue; the others move up by one place.
LEMMA TailIndex ==
    ASSUME NEW S, NEW q \in Seq(S), q # <<>>
    PROVE  /\ Tail(q) \in Seq(S)
           /\ Len(Tail(q)) = Len(q) - 1
           /\ \A i \in DOMAIN Tail(q) : i + 1 \in DOMAIN q /\ Tail(q)[i] = q[i + 1]
           /\ \A i \in DOMAIN q : i > 1 => i - 1 \in DOMAIN Tail(q) /\ Tail(q)[i - 1] = q[i]
  OBVIOUS

LEMMA LastOne ==
    ASSUME NEW S, NEW q \in Seq(S), q # <<>>, Tail(q) = <<>>
    PROVE  Len(q) = 1
<1>1. Len(<<>>) = 0
  OBVIOUS
<1>2. Len(Tail(q)) = 0
  BY <1>1, Zenon
<1> QED
  BY <1>2, TailIndex

\* Call puts the new call at the end and leaves the places of the others.
LEMMA AppendIndex ==
    ASSUME NEW S, NEW q \in Seq(S), NEW e \in S
    PROVE  /\ Append(q, e) \in Seq(S)
           /\ Len(Append(q, e)) = Len(q) + 1
           /\ Append(q, e)[Len(q) + 1] = e
           /\ \A i \in DOMAIN q : i \in DOMAIN Append(q, e) /\ Append(q, e)[i] = q[i]
           /\ \A i \in DOMAIN Append(q, e) : i \in DOMAIN q \/ i = Len(q) + 1
  OBVIOUS

\* The place of the running call is the first.
LEMMA RunningIsFirst ==
    ASSUME LockInv, NEW s \in Syncs, syncState[s] = "running"
    PROVE  queue # <<>> /\ s = Head(queue) /\ queue[1] = s
<1>1. PICK i \in DOMAIN queue : queue[i] = s
  BY DEF LockInv, ChainInv, Unsettled
<1>2. i = 1
  BY <1>1 DEF LockInv, LockTypeOK, ChainInv
<1> QED
  BY <1>1, <1>2 DEF LockInv, LockTypeOK

\* Init, and every step of Next, establish the chain.
LEMMA LockInvInit == LockInit => LockInv
  BY NoSyncAssumption DEF LockInit, LockInv, LockTypeOK, ChainInv, SyncStates, Unsettled

LEMMA LockInvCall ==
    ASSUME LockInv, NEW s \in Syncs, Call(s)
    PROVE  LockInv'
<1> USE DEF LockInv, LockTypeOK
<1>1. LockTypeOK'
  BY AppendIndex DEF Call, SyncStates
<1>2. \A i \in DOMAIN queue : queue[i] # s
  BY DEF ChainInv, Unsettled, Call
<1>3. (\A i, j \in DOMAIN queue : queue[i] = queue[j] => i = j)'
  BY <1>2, AppendIndex DEF ChainInv, Call
<1>4. (\A t \in Syncs : Unsettled(t) <=> \E i \in DOMAIN queue : queue[i] = t)'
  <2> SUFFICES ASSUME NEW t \in Syncs
               PROVE  Unsettled(t)' <=> \E i \in DOMAIN queue' : queue'[i] = t
    OBVIOUS
  <2>1. CASE t = s
    <3>1. Unsettled(t)'
      BY <2>1 DEF Call, Unsettled
    <3>2. Len(queue) + 1 \in DOMAIN queue' /\ queue'[Len(queue) + 1] = t
      BY <2>1, AppendIndex DEF Call
    <3> QED
      BY <3>1, <3>2
  <2>2. CASE t # s
    <3>1. Unsettled(t)' <=> Unsettled(t)
      BY <2>2 DEF Call, Unsettled
    <3>2. (\E i \in DOMAIN queue' : queue'[i] = t) <=> (\E i \in DOMAIN queue : queue[i] = t)
      BY <2>2, AppendIndex DEF Call
    <3> QED
      BY <3>1, <3>2 DEF ChainInv
  <2> QED
    BY <2>1, <2>2
<1>5. (\A i \in DOMAIN queue : i > 1 =>
         previous[queue[i]] = queue[i - 1] /\ syncState[queue[i]] = "waiting")'
  <2> SUFFICES ASSUME NEW i \in DOMAIN queue', i > 1
               PROVE  previous'[queue'[i]] = queue'[i - 1] /\ syncState'[queue'[i]] = "waiting"
    OBVIOUS
  <2>1. CASE i \in DOMAIN queue
    <3>1. i - 1 \in DOMAIN queue
      BY <2>1
    <3>2. queue'[i] = queue[i] /\ queue'[i - 1] = queue[i - 1] /\ queue[i] \in Syncs
      BY <2>1, <3>1, AppendIndex DEF Call
    <3>3. queue[i] # s
      BY <2>1, <1>2
    <3> QED
      BY <2>1, <3>2, <3>3 DEF Call, ChainInv
  <2>2. CASE i = Len(queue) + 1
    <3>1. queue'[i] = s /\ queue # <<>> /\ i - 1 = Len(queue) /\ i - 1 \in DOMAIN queue
      BY <2>2, AppendIndex DEF Call
    <3>2. queue'[i - 1] = queue[Len(queue)]
      BY <3>1, AppendIndex DEF Call
    <3> QED
      BY <3>1, <3>2 DEF Call, ChainInv
  <2> QED
    BY <2>1, <2>2, AppendIndex DEF Call
<1>6. (queue # <<>> => tail = queue[Len(queue)])' /\ queue' # <<>>
  BY AppendIndex DEF Call
<1> QED
  BY <1>1, <1>3, <1>4, <1>5, <1>6 DEF ChainInv

LEMMA LockInvStart ==
    ASSUME LockInv, NEW s \in Syncs, Start(s)
    PROVE  LockInv'
<1> USE DEF LockInv, LockTypeOK
<1>1. LockTypeOK'
  BY DEF Start, SyncStates
<1>2. PICK k \in DOMAIN queue : queue[k] = s
  BY DEF ChainInv, Start, Unsettled
<1>3. k = 1
  <2> SUFFICES ASSUME k > 1 PROVE FALSE
    BY <1>2
  <2>1. k - 1 \in DOMAIN queue /\ queue[k - 1] \in Syncs /\ previous[s] = queue[k - 1]
    BY <1>2 DEF ChainInv
  <2>2. Unsettled(queue[k - 1])
    BY <2>1 DEF ChainInv
  <2> QED
    BY <2>1, <2>2, NoSyncAssumption DEF Start, Unsettled
<1>4. \A t \in Syncs : Unsettled(t)' <=> Unsettled(t)
  BY DEF Start, Unsettled
<1>5. \A i \in DOMAIN queue : i > 1 => queue[i] # s
  BY <1>2, <1>3 DEF ChainInv
<1>6. (\A i \in DOMAIN queue : i > 1 =>
         previous[queue[i]] = queue[i - 1] /\ syncState[queue[i]] = "waiting")'
  BY <1>5 DEF Start, ChainInv
<1>7. tail # NoSync /\ syncState[tail] = "settled" => syncState'[tail] = "settled"
  BY DEF Start
<1> QED
  BY <1>1, <1>4, <1>6, <1>7 DEF ChainInv, Start

LEMMA LockInvSettle ==
    ASSUME LockInv, NEW s \in Syncs, Settle(s)
    PROVE  LockInv'
<1> USE DEF LockInv, LockTypeOK
<1>1. queue # <<>> /\ queue[1] = s /\ queue' = Tail(queue)
  BY RunningIsFirst DEF Settle
<1>2. LockTypeOK'
  BY <1>1, TailIndex DEF Settle, SyncStates
<1>3. (\A i, j \in DOMAIN queue : queue[i] = queue[j] => i = j)'
  BY <1>1, TailIndex DEF ChainInv
<1>4. (\A t \in Syncs : Unsettled(t) <=> \E i \in DOMAIN queue : queue[i] = t)'
  <2> SUFFICES ASSUME NEW t \in Syncs
               PROVE  Unsettled(t)' <=> \E i \in DOMAIN queue' : queue'[i] = t
    OBVIOUS
  <2>1. CASE t = s
    <3>1. ~ Unsettled(t)'
      BY <2>1 DEF Settle, Unsettled
    <3>2. \A i \in DOMAIN queue' : queue'[i] # s
      BY <1>1, TailIndex DEF ChainInv
    <3> QED
      BY <2>1, <3>1, <3>2
  <2>2. CASE t # s
    <3>1. Unsettled(t)' <=> Unsettled(t)
      BY <2>2 DEF Settle, Unsettled
    <3>2. ASSUME NEW i \in DOMAIN queue, queue[i] = t
          PROVE  \E j \in DOMAIN queue' : queue'[j] = t
      <4>1. i > 1
        BY <1>1, <2>2, <3>2
      <4> QED
        BY <4>1, <1>1, <3>2, TailIndex
    <3>3. ASSUME NEW i \in DOMAIN queue', queue'[i] = t
          PROVE  \E j \in DOMAIN queue : queue[j] = t
      BY <1>1, <3>3, TailIndex
    <3> QED
      BY <3>1, <3>2, <3>3 DEF ChainInv
  <2> QED
    BY <2>1, <2>2
<1>5. (\A i \in DOMAIN queue : i > 1 =>
         previous[queue[i]] = queue[i - 1] /\ syncState[queue[i]] = "waiting")'
  <2> SUFFICES ASSUME NEW i \in DOMAIN queue', i > 1
               PROVE  previous'[queue'[i]] = queue'[i - 1] /\ syncState'[queue'[i]] = "waiting"
    OBVIOUS
  <2>1. /\ i + 1 \in DOMAIN queue /\ i \in DOMAIN queue /\ i - 1 \in DOMAIN queue'
        /\ queue'[i] = queue[i + 1] /\ queue'[i - 1] = queue[i]
    BY <1>1, TailIndex
  <2>2. queue[i + 1] # s
    BY <2>1, <1>1 DEF ChainInv
  <2>3. previous[queue[i + 1]] = queue[i] /\ syncState[queue[i + 1]] = "waiting"
    BY <2>1 DEF ChainInv
  <2> QED
    BY <2>1, <2>2, <2>3 DEF Settle
<1>6. (queue # <<>> => tail = queue[Len(queue)])'
  <2> SUFFICES ASSUME queue' # <<>> PROVE tail' = queue'[Len(queue')]
    OBVIOUS
  <2>1. Len(queue') = Len(queue) - 1 /\ Len(queue') \in DOMAIN queue'
    BY <1>1, TailIndex
  <2>2. queue'[Len(queue')] = queue[Len(queue)]
    BY <2>1, <1>1, TailIndex
  <2> QED
    BY <2>2, <1>1 DEF Settle, ChainInv
<1>7. (queue = <<>> /\ tail # NoSync => syncState[tail] = "settled")'
  <2> SUFFICES ASSUME queue' = <<>> PROVE syncState'[tail'] = "settled"
    OBVIOUS
  <2>1. Len(queue) = 1
    BY <1>1, LastOne
  <2> QED
    BY <2>1, <1>1 DEF Settle, ChainInv
<1> QED
  BY <1>2, <1>3, <1>4, <1>5, <1>6, <1>7 DEF ChainInv

LEMMA LockInvForget ==
    ASSUME LockInv, NEW s \in Syncs, Forget(s)
    PROVE  LockInv'
<1> USE DEF LockInv, LockTypeOK
<1>1. queue = <<>>
  <2> SUFFICES ASSUME queue # <<>> PROVE FALSE
    OBVIOUS
  <2>1. Len(queue) \in DOMAIN queue /\ queue[Len(queue)] = s
    BY DEF Forget, ChainInv
  <2> QED
    BY <2>1 DEF Forget, ChainInv, Unsettled
<1> QED
  BY <1>1 DEF Forget, ChainInv, Unsettled

LEMMA LockInvRestart ==
    ASSUME LockInv, LockRestart
    PROVE  LockInv'
  BY DEF LockInv, LockTypeOK, LockRestart, ChainInv, Unsettled, SyncStates

LEMMA LockInvStep == LockInv /\ [LockNext]_lockVars => LockInv'
<1> SUFFICES ASSUME LockInv, [LockNext]_lockVars PROVE LockInv'
  OBVIOUS
<1>1. ASSUME NEW s \in Syncs, Call(s) PROVE LockInv'
  BY <1>1, LockInvCall
<1>2. ASSUME NEW s \in Syncs, Start(s) PROVE LockInv'
  BY <1>2, LockInvStart
<1>3. ASSUME NEW s \in Syncs, Settle(s) PROVE LockInv'
  BY <1>3, LockInvSettle
<1>4. ASSUME NEW s \in Syncs, Forget(s) PROVE LockInv'
  BY <1>4, LockInvForget
<1>5. CASE LockRestart
  BY <1>5, LockInvRestart
<1>6. CASE UNCHANGED lockVars
  BY <1>6 DEF lockVars, LockInv, LockTypeOK, ChainInv, Unsettled
<1> QED
  BY <1>1, <1>2, <1>3, <1>4, <1>5, <1>6 DEF LockNext

LEMMA LockInvConsequences == LockInv => SyncsSerialized /\ CallingOrder
<1> SUFFICES ASSUME LockInv PROVE SyncsSerialized /\ CallingOrder
  OBVIOUS
<1>1. CallingOrder
  BY RunningIsFirst DEF CallingOrder
<1>2. SyncsSerialized
  BY RunningIsFirst DEF SyncsSerialized
<1> QED
  BY <1>1, <1>2

-----------------------------------------------------------------------------

\* The types and the chain of promises hold in every reachable state.
THEOREM LockChain == LockSpec => [](LockTypeOK /\ ChainInv)
<1>1. LockSpec => []LockInv
  BY LockInvInit, LockInvStep, PTL DEF LockSpec
<1>2. LockInv => LockTypeOK /\ ChainInv
  BY DEF LockInv
<1> QED
  BY <1>1, <1>2, PTL

\* Two syncs of one repository never run at the same time (githubSync.ts:495).
THEOREM LockMutualExclusion == LockSpec => []SyncsSerialized
<1>1. LockSpec => []LockInv
  BY LockInvInit, LockInvStep, PTL DEF LockSpec
<1> QED
  BY <1>1, LockInvConsequences, PTL

\* Syncs run in the order in which they were asked for.
THEOREM LockFirstComeFirstServed == LockSpec => []CallingOrder
<1>1. LockSpec => []LockInv
  BY LockInvInit, LockInvStep, PTL DEF LockSpec
<1> QED
  BY <1>1, LockInvConsequences, PTL
=============================================================================
