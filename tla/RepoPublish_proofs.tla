------------------------- MODULE RepoPublish_proofs -------------------------
(***************************************************************************)
(* Theorems about RepoPublish, for every number of requests, every set of  *)
(* paths, contents and branches, and every choice of what may fail.        *)
(***************************************************************************)
EXTENDS RepoPublish, RepoSyncLock_proofs

USE DEF Commits, PcStates, Replies, Stages

-----------------------------------------------------------------------------
(* Trees and publishers. *)

\* The operations on trees give trees.
LEMMA TreeOperations ==
    /\ EmptyTree \in Tree
    /\ \A t, u \in Tree : Overlay(t, u) \in Tree
    /\ \A t \in Tree, S \in SUBSET Files : Only(t, S) \in Tree /\ Without(t, S) \in Tree
  BY DEF Tree, EmptyTree, Overlay, Only, Without

\* A publication is one of the two of one request.
LEMMA PublisherParts ==
    /\ \A p \in Publishers : p[2] \in Requests /\ (p = Hook(p[2]) \/ p = Own(p[2]))
    /\ \A r \in Requests : Hook(r) \in Publishers /\ Own(r) \in Publishers
    /\ \A q, r \in Requests : Hook(q) # Own(r)
    /\ \A q, r \in Requests : (Hook(q) = Hook(r) => q = r) /\ (Own(q) = Own(r) => q = r)
    /\ \A r \in Requests : Hook(r)[2] = r /\ Own(r)[2] = r /\ Hook(r)[1] = "hook" /\ Own(r)[1] = "request"
  BY DEF Publishers, Hook, Own

\* Whatever an edit makes of a revision is a tree.
LEMMA EditResultsAreTrees ==
    ASSUME TypeOK, NEW c \in Commits, NEW old \in {NoCommit} \cup AncestryOf(c)
    PROVE  EditResults(c, old) \subseteq Tree
<1>1. TreeOf(c) \in Tree
  BY TreeOperations DEF TreeOf, TypeOK
<1>2. AncestryOf(c) \subseteq Requests
  BY DEF AncestryOf, TypeOK
<1>3. Uploaded(TreeOf(c)) \subseteq Tree
  BY <1>1, TreeOperations DEF Uploaded
<1>4. Copied(TreeOf(c)) \subseteq Tree
  <2>1. \A to \in Files, b \in Blobs : OneFile(to, b) \in Tree
    BY DEF Tree, OneFile
  <2> QED
    BY <2>1, <1>1, TreeOperations DEF Copied
<1>5. Deleted(TreeOf(c)) \subseteq Tree
  BY <1>1, TreeOperations DEF Deleted, Present
<1>6. \A d \in AncestryOf(c) : RestoredPath(TreeOf(c), tree[d]) \subseteq Tree
  BY <1>1, <1>2, TreeOperations DEF RestoredPath, Present, TypeOK
<1>7. \A d \in AncestryOf(c) : RestoredTree(TreeOf(c), tree[d]) \in Tree
  BY <1>1, <1>2, TreeOperations DEF RestoredTree, TypeOK
<1> QED
  BY <1>3, <1>4, <1>5, <1>6, <1>7 DEF EditResults

-----------------------------------------------------------------------------
(* The lock goes its own way. *)

\* Seen from the lock, a step of RepoPublish is a step of RepoSyncLock.
LEMMA LockSteps == [Next]_vars => [LockNext]_lockVars
<1> SUFFICES ASSUME [Next]_vars PROVE [LockNext]_lockVars
  OBVIOUS
<1>1. ASSUME NEW e \in Edits,
             EditClone(e) \/ EditRefuse(e) \/ EditStep(e) \/ EditPushTimeout(e)
      PROVE  UNCHANGED lockVars
  BY <1>1 DEF EditClone, EditRefuse, EditStep, EditCommit, EditPush, EditPushed, EditAnswer,
              EditPushTimeout
<1>2. ASSUME NEW p \in Pushes, ClientCommit(p) \/ ClientStep(p) \/ ClientAbort(p)
      PROVE  UNCHANGED lockVars
  BY <1>2 DEF ClientCommit, ClientStep, ClientPush, ClientPushed, ClientAbort
<1>3. ASSUME NEW s \in Syncs,
             \/ SyncRequest(s) \/ SyncStep(s) \/ SyncForget(s)
             \/ SyncSourceFails(s) \/ SyncPushTimeout(s)
      PROVE  [LockNext]_lockVars
  BY <1>3 DEF SyncRequest, SyncStep, SyncStart, SyncImport, SyncPush, SyncPushed, SyncAnswer,
              SyncForget, SyncSourceFails, SyncPushTimeout, LockNext
<1>4. ASSUME NEW p \in Publishers, PublishStep(p) \/ PublishUntarFails(p) \/ PublishIndexFails(p)
      PROVE  UNCHANGED lockVars
  BY <1>4 DEF PublishStep, PublishClear, PublishUntar, PublishIndex, PublishHead,
              PublishUntarFails, PublishIndexFails
<1>5. CASE Crash
  BY <1>5 DEF Crash, LockNext
<1>6. CASE UNCHANGED vars
  BY <1>6 DEF vars
<1> QED
  BY <1>1, <1>2, <1>3, <1>4, <1>5, <1>6 DEF Next

LEMMA LockKept == LockInv /\ [Next]_vars => LockInv'
  BY LockSteps, LockInvStep

-----------------------------------------------------------------------------
(* Type correctness. *)

LEMMA TypeInit == Init => TypeOK
  BY TreeOperations, LockInvInit DEF Init, TypeOK, LockInv

\* A commit of a tree keeps the types of the object store.
LEMMA CommitTypes ==
    ASSUME tree \in [Requests -> Tree], ancestry \in [Requests -> SUBSET Requests],
           NEW r \in Requests, NEW t \in Tree, NEW c, AncestryOf(c) \subseteq Requests,
           Commit(r, t, c)
    PROVE  tree' \in [Requests -> Tree] /\ ancestry' \in [Requests -> SUBSET Requests]
  BY DEF Commit

LEMMA TypeEdit ==
    ASSUME TypeOK, LockTypeOK', NEW e \in Edits,
           EditClone(e) \/ EditRefuse(e) \/ EditStep(e) \/ EditPushTimeout(e)
    PROVE  TypeOK'
<1> USE PublisherParts, RepoPublishAssumption DEF TypeOK, Answer
<1>0. e \in Requests
  BY DEF Requests
<1>1. CASE EditClone(e)
  BY <1>0, <1>1 DEF EditClone, repoVars, servedVars
<1>2. CASE EditRefuse(e)
  BY <1>0, <1>2 DEF EditRefuse, repoVars, servedVars
<1>3. CASE EditCommit(e)
  <2>1. AncestryOf(base[e]) \subseteq Requests
    BY <1>0 DEF AncestryOf
  <2>0. PICK old \in {NoCommit} \cup AncestryOf(base[e]) :
          /\ restored' = [restored EXCEPT ![e] = old]
          /\ \E t \in EditResults(base[e], old) :
                UNCHANGED <<tree, ancestry>> \/ Commit(e, t, base[e])
    BY <1>3 DEF EditCommit
  <2>2. EditResults(base[e], old) \subseteq Tree
    BY <1>0, EditResultsAreTrees
  <2>5. restored' \in [Requests -> Commits]
    BY <1>0, <2>0, <2>1 DEF Commits
  <2>3. tree' \in [Requests -> Tree] /\ ancestry' \in [Requests -> SUBSET Requests]
    BY <1>0, <2>0, <2>1, <2>2, CommitTypes
  <2>4. pc' \in [Requests -> PcStates] /\ reply' \in [Requests -> Replies]
    <3>1. \/ Answer(e, "unchanged")
          \/ pc' = [pc EXCEPT ![e] = "push"] /\ UNCHANGED reply
      BY <1>3 DEF EditCommit
    <3>2. CASE Answer(e, "unchanged")
      BY <1>0, <3>2 DEF PcStates, Replies
    <3>3. CASE pc' = [pc EXCEPT ![e] = "push"] /\ UNCHANGED reply
      BY <1>0, <3>3 DEF PcStates
    <3> QED
      BY <3>1, <3>2, <3>3
  <2> QED
    BY <1>3, <2>3, <2>4, <2>5 DEF EditCommit, servedVars
<1>4. CASE EditPush(e)
  <2>1. CASE ReceivePush(e, HeadBranch, FALSE) /\ UNCHANGED <<reply, servedVars, base, lockVars>>
    BY <1>0, <2>1 DEF ReceivePush, repoVars, servedVars
  <2>2. CASE Answer(e, "rejected") /\ UNCHANGED <<repoVars, stage, servedVars, base, lockVars>>
    BY <1>0, <2>2 DEF repoVars, servedVars
  <2> QED
    BY <1>4, <2>1, <2>2 DEF EditPush
<1>5. CASE EditPushed(e)
  BY <1>0, <1>5 DEF EditPushed, repoVars, servedVars
<1>6. CASE EditAnswer(e)
  BY <1>0, <1>6 DEF EditAnswer, repoVars, servedVars
<1>7. CASE EditPushTimeout(e)
  BY <1>0, <1>7 DEF EditPushTimeout, repoVars, servedVars
<1> QED
  BY <1>1, <1>2, <1>3, <1>4, <1>5, <1>6, <1>7 DEF EditStep

LEMMA TypeClient ==
    ASSUME TypeOK, LockTypeOK', NEW p \in Pushes,
           ClientCommit(p) \/ ClientStep(p) \/ ClientAbort(p)
    PROVE  TypeOK'
<1> USE PublisherParts, RepoPublishAssumption DEF TypeOK, Answer
<1>0. p \in Requests
  BY DEF Requests
<1>1. CASE ClientCommit(p)
  <2>1. PICK b \in Branches, t \in Tree :
          Commit(p, t, refs[b]) /\ base' = [base EXCEPT ![p] = refs[b]]
    BY <1>1 DEF ClientCommit
  <2>2. AncestryOf(refs[b]) \subseteq Requests
    BY DEF AncestryOf
  <2>4. tree' \in [Requests -> Tree] /\ ancestry' \in [Requests -> SUBSET Requests]
    BY <1>0, <2>1, <2>2, CommitTypes
  <2>5. base' \in [Requests -> Commits] /\ pc' \in [Requests -> PcStates]
    BY <1>0, <1>1, <2>1 DEF ClientCommit
  <2>6. UNCHANGED <<refs, pushed, rewritten, restored, worktree, index, headSha, reply, stage>>
    BY <1>1 DEF ClientCommit, servedVars
  <2> QED
    BY <2>4, <2>5, <2>6
<1>2. CASE ClientPush(p)
  <2>1. PICK b \in Branches, force \in BOOLEAN :
          \/ ReceivePush(p, b, force) /\ UNCHANGED reply
          \/ Answer(p, "rejected") /\ UNCHANGED <<repoVars, stage>>
    BY <1>2 DEF ClientPush
  <2>2. UNCHANGED <<worktree, index, headSha, base>>
    BY <1>2 DEF ClientPush, servedVars
  <2>3. CASE ReceivePush(p, b, force) /\ UNCHANGED reply
    BY <1>0, <2>2, <2>3 DEF ReceivePush
  <2>4. CASE Answer(p, "rejected") /\ UNCHANGED <<repoVars, stage>>
    BY <1>0, <2>2, <2>4 DEF repoVars
  <2> QED
    BY <2>1, <2>3, <2>4
<1>3. CASE ClientPushed(p)
  BY <1>0, <1>3 DEF ClientPushed, repoVars, servedVars
<1>4. CASE ClientAbort(p)
  BY <1>0, <1>4 DEF ClientAbort, repoVars, servedVars
<1> QED
  BY <1>1, <1>2, <1>3, <1>4 DEF ClientStep

LEMMA TypeSync ==
    ASSUME TypeOK, LockTypeOK', NEW s \in Syncs,
           \/ SyncRequest(s) \/ SyncStep(s) \/ SyncForget(s)
           \/ SyncSourceFails(s) \/ SyncPushTimeout(s)
    PROVE  TypeOK'
<1> USE PublisherParts, RepoPublishAssumption DEF TypeOK, Answer
<1>0. s \in Requests
  BY DEF Requests
<1>1. CASE SyncRequest(s) \/ SyncForget(s)
  BY <1>1 DEF SyncRequest, SyncForget, repoVars, servedVars, requestVars
<1>2. CASE SyncStart(s)
  BY <1>0, <1>2 DEF SyncStart, repoVars, servedVars
<1>3. CASE SyncImport(s)
  <2>1. tree' \in [Requests -> Tree] /\ ancestry' \in [Requests -> SUBSET Requests]
    BY <1>0, <1>3 DEF SyncImport, Commit, AncestryOf
  <2> QED
    BY <1>0, <1>3, <2>1 DEF SyncImport, servedVars
<1>4. CASE SyncPush(s)
  BY <1>0, <1>4 DEF SyncPush, ReceivePush, servedVars
<1>5. CASE SyncPushed(s)
  BY <1>0, <1>5 DEF SyncPushed, repoVars, servedVars
<1>6. CASE SyncAnswer(s)
  BY <1>0, <1>6 DEF SyncAnswer, repoVars, servedVars
<1>7. CASE SyncSourceFails(s) \/ SyncPushTimeout(s)
  BY <1>0, <1>7 DEF SyncSourceFails, SyncPushTimeout, repoVars, servedVars
<1> QED
  BY <1>1, <1>2, <1>3, <1>4, <1>5, <1>6, <1>7 DEF SyncStep

LEMMA PartsAreTrees ==
    ASSUME TypeOK, NEW p \in Publishers
    PROVE  PartlyIndexed(p) \subseteq Tree
  BY TreeOperations, PublisherParts DEF TypeOK, PartlyIndexed, Present

LEMMA TypePublish ==
    ASSUME TypeOK, LockTypeOK', NEW p \in Publishers,
           PublishStep(p) \/ PublishUntarFails(p) \/ PublishIndexFails(p)
    PROVE  TypeOK'
<1> USE TreeOperations DEF TypeOK, To
<1>0. tree[p[2]] \in Tree /\ p[2] \in Requests
  BY PublisherParts
<1>1. CASE PublishClear(p)
  BY <1>1 DEF PublishClear, repoVars, requestVars
<1>2. CASE PublishUntar(p)
  BY <1>0, <1>2 DEF PublishUntar, repoVars, requestVars
<1>3. CASE PublishIndex(p)
  BY <1>0, <1>3 DEF PublishIndex, repoVars, requestVars
<1>4. CASE PublishHead(p)
  BY <1>0, <1>4 DEF PublishHead, repoVars, requestVars
<1>5. CASE PublishUntarFails(p)
  BY <1>0, <1>5 DEF PublishUntarFails, repoVars, requestVars
<1>6. CASE PublishIndexFails(p)
  BY <1>0, <1>6, PartsAreTrees DEF PublishIndexFails, repoVars, requestVars
<1> QED
  BY <1>1, <1>2, <1>3, <1>4, <1>5, <1>6 DEF PublishStep

LEMMA TypeCrash ==
    ASSUME TypeOK, LockTypeOK', Crash
    PROVE  TypeOK'
<1>1. worktree' \in Tree
  <2>1. \A p \in Publishers, S \in SUBSET Files : Only(tree[p[2]], S) \in Tree
    BY TreeOperations, PublisherParts DEF TypeOK
  <2>2. \A p \in Publishers, S \in SUBSET Files : Overlay(Only(tree[p[2]], S), worktree) \in Tree
    BY <2>1, TreeOperations DEF TypeOK
  <2>3. \/ worktree' = worktree
        \/ \E p \in Publishers, S \in SUBSET Files : worktree' = Overlay(Only(tree[p[2]], S), worktree)
    BY DEF Crash
  <2> QED
    BY <2>2, <2>3 DEF TypeOK
<1>2. index' \in Tree
  BY PartsAreTrees DEF TypeOK, Crash
<1>3. pc' \in [Requests -> PcStates] /\ reply' \in [Requests -> Replies]
  BY DEF TypeOK, Crash
<1>4. stage' \in [Publishers -> Stages]
  BY DEF TypeOK, Crash
<1> QED
  BY <1>1, <1>2, <1>3, <1>4 DEF TypeOK, Crash, repoVars

LEMMA TypeStep == TypeOK /\ LockInv /\ [Next]_vars => TypeOK'
<1> SUFFICES ASSUME TypeOK, LockInv, [Next]_vars PROVE TypeOK'
  OBVIOUS
<1>1. LockTypeOK'
  BY LockKept DEF LockInv
<1>2. CASE UNCHANGED vars
  BY <1>1, <1>2 DEF vars, TypeOK, repoVars, servedVars, requestVars
<1> QED
  BY <1>1, <1>2, TypeEdit, TypeClient, TypeSync, TypePublish, TypeCrash DEF Next

\* Every variable keeps its type.
THEOREM TypeCorrect == Spec => []TypeOK
<1>1. Init => TypeOK /\ LockInv
  BY TypeInit, LockInvInit DEF Init
<1>2. TypeOK /\ LockInv /\ [Next]_vars => (TypeOK /\ LockInv)'
  BY TypeStep, LockKept
<1> QED
  BY <1>1, <1>2, PTL DEF Spec

-----------------------------------------------------------------------------
(* Only pushed content is served, and pushed edits stay in the history.     *)

\* Where a request is, and what that says of its commit.
ProgressInv ==
    /\ \A r \in Requests : pc[r] \in {"idle", "commit", "push"} => r \notin pushed
    /\ \A r \in Requests : reply[r] \in {"refused", "unchanged", "rejected"} => r \notin pushed
    /\ \A r \in Requests : pc[r] \in {"wait", "publish"} => r \in pushed
    /\ \A r \in Requests : pc[r] # "done" => reply[r] = "none"
    /\ \A r \in Requests : base[r] \in pushed \cup {NoCommit}

\* An import is at work exactly while it holds the lock.
LinkInv ==
    /\ \A s \in Syncs : syncState[s] \in {"idle", "waiting"} => pc[s] = "idle"
    /\ \A s \in Syncs : pc[s] \in {"commit", "push", "wait", "publish"} <=> syncState[s] = "running"

\* Ancestry is reflexive and transitive, and every ancestor was pushed.
HistoryInv ==
    /\ \A b \in Branches : refs[b] \in pushed \cup {NoCommit}
    /\ \A r \in Requests : r \in pushed \/ pc[r] = "push" => r \in ancestry[r]
    /\ \A r \in Requests : \A c \in ancestry[r] : c = r \/ c \in pushed
    /\ \A r \in Requests : \A c \in ancestry[r] : ancestry[c] \subseteq ancestry[r]

ServedInv ==
    /\ headSha \in pushed \cup {NoCommit}
    /\ \A p \in Publishers : Publishing(p) => p[2] \in pushed
    /\ \A f \in Present(worktree) : \E c \in pushed : tree[c][f] = worktree[f]

PushInv == ProgressInv /\ HistoryInv /\ ServedInv /\ EditsNeverLost

LEMMA FilesSubset == Files \in SUBSET Files
  OBVIOUS

\* What an extraction adds to the worktree was pushed when its revision was.
LEMMA OverlayServed ==
    ASSUME TypeOK, ServedInv, NEW r \in pushed, NEW S \in SUBSET Files, NEW u \in Tree,
           u = Only(tree[r], S) \/ u = tree[r],
           worktree' = Overlay(u, worktree), UNCHANGED <<pushed, tree>>
    PROVE  (\A f \in Present(worktree) : \E c \in pushed : tree[c][f] = worktree[f])'
<1> SUFFICES ASSUME NEW f \in Files, worktree'[f] # Absent
             PROVE  \E c \in pushed : tree[c][f] = worktree'[f]
  BY DEF Present
<1>1. worktree'[f] = IF u[f] # Absent THEN u[f] ELSE worktree[f]
  BY DEF Overlay
<1>2. CASE u[f] # Absent
  BY <1>1, <1>2 DEF Only
<1>3. CASE u[f] = Absent
  BY <1>1, <1>3 DEF ServedInv, Present
<1> QED
  BY <1>2, <1>3

\* A commit changes neither what was pushed nor its ancestry.
LEMMA CommitKeepsHistory ==
    ASSUME TypeOK, PushInv, NEW r \in Requests, r \notin pushed,
           NEW t, NEW parent \in pushed \cup {NoCommit}, Commit(r, t, parent),
           UNCHANGED <<refs, pushed, rewritten, worktree, headSha, stage>>,
           pc' = [pc EXCEPT ![r] = "push"]
    PROVE  HistoryInv' /\ ServedInv' /\ EditsNeverLost'
<1> USE DEF TypeOK
<1>1. \A c \in pushed : tree'[c] = tree[c] /\ ancestry'[c] = ancestry[c]
  BY DEF Commit
<1>2. ancestry'[r] = {r} \cup AncestryOf(parent)
  BY DEF Commit
<1>3. AncestryOf(parent) \subseteq pushed
  BY RepoPublishAssumption DEF AncestryOf, PushInv, HistoryInv
<1>4. \A q \in Requests : q # r => ancestry'[q] = ancestry[q] /\ r \notin ancestry[q]
  BY DEF Commit, PushInv, HistoryInv
<1>5. \A c \in AncestryOf(parent) : ancestry[c] \subseteq AncestryOf(parent)
  BY RepoPublishAssumption DEF AncestryOf, PushInv, HistoryInv
<1>6. HistoryInv'
  <2>1. (\A q \in Requests : q \in pushed \/ pc[q] = "push" => q \in ancestry[q])'
    BY <1>2, <1>4 DEF PushInv, HistoryInv
  <2>2. (\A q \in Requests : \A c \in ancestry[q] : c = q \/ c \in pushed)'
    BY <1>2, <1>3, <1>4 DEF PushInv, HistoryInv
  <2>3. (\A q \in Requests : \A c \in ancestry[q] : ancestry[c] \subseteq ancestry[q])'
    <3>1. ASSUME NEW q \in Requests, NEW c \in ancestry'[q] PROVE ancestry'[c] \subseteq ancestry'[q]
      <4>1. CASE q # r
        BY <3>1, <4>1, <1>4 DEF PushInv, HistoryInv
      <4>2. CASE q = r /\ c = r
        BY <4>2
      <4>3. CASE q = r /\ c \in AncestryOf(parent)
        BY <4>3, <1>1, <1>2, <1>3, <1>5
      <4> QED
        BY <3>1, <4>1, <4>2, <4>3, <1>2
    <3> QED
      BY <3>1
  <2> QED
    BY <2>1, <2>2, <2>3 DEF PushInv, HistoryInv
<1>7. ServedInv'
  BY <1>1 DEF PushInv, ServedInv, Present, Publishing
<1>8. EditsNeverLost'
  <2>1. refs[HeadBranch] \in pushed \cup {NoCommit}
    BY RepoPublishAssumption DEF PushInv, HistoryInv
  <2>2. AncestryOf(refs[HeadBranch])' = AncestryOf(refs[HeadBranch])
    BY <1>1, <2>1 DEF AncestryOf
  <2> QED
    BY <2>2 DEF PushInv, EditsNeverLost
<1> QED
  BY <1>6, <1>7, <1>8

\* A push that git accepts keeps the history of the branch, or is a forced one.
LEMMA PushKeepsHistory ==
    ASSUME TypeOK, PushInv, NEW r \in Requests, pc[r] = "push", NEW b \in Branches,
           NEW force \in BOOLEAN, force \/ FastForward(r, b), ReceivePush(r, b, force),
           r \in Edits => b = HeadBranch,
           UNCHANGED <<worktree, headSha>>
    PROVE  HistoryInv' /\ ServedInv' /\ EditsNeverLost'
<1> USE DEF TypeOK
<1>1. r \notin pushed /\ r \in ancestry[r] /\ pushed' = pushed \cup {r}
  BY DEF PushInv, ProgressInv, HistoryInv, ReceivePush
<1>2. HistoryInv'
  BY <1>1 DEF PushInv, HistoryInv, ReceivePush
<1>3. ServedInv'
  <2>1. \A p \in Publishers : Publishing(p)' => Publishing(p) \/ p = Hook(r)
    BY PublisherParts DEF ReceivePush, Publishing
  <2> QED
    BY <2>1, <1>1, PublisherParts DEF PushInv, ServedInv, ReceivePush, Present
<1>4. EditsNeverLost'
  <2> SUFFICES ASSUME NEW e \in Edits, e \in pushed', HeadBranch \notin rewritten'
               PROVE  e \in AncestryOf(refs[HeadBranch])'
    BY DEF EditsNeverLost
  <2>0. e \in Requests
    BY DEF Requests
  <2>1. HeadBranch \notin rewritten
    BY DEF ReceivePush
  <2>2. CASE b # HeadBranch
    <3>1. refs'[HeadBranch] = refs[HeadBranch] /\ e # r
      BY <2>2, RepoPublishAssumption DEF ReceivePush
    <3> QED
      BY <3>1, <2>1, <1>1 DEF PushInv, EditsNeverLost, AncestryOf, ReceivePush
  <2>3. CASE b = HeadBranch
    <3>1. refs'[HeadBranch] = r /\ refs[HeadBranch] \in AncestryOf(r) \cup {NoCommit}
      BY <2>3, RepoPublishAssumption DEF ReceivePush, FastForward
    <3>2. AncestryOf(refs[HeadBranch])' = ancestry[r] /\ AncestryOf(r) = ancestry[r]
      BY <3>1, RepoPublishAssumption DEF AncestryOf, ReceivePush
    <3>3. CASE e = r
      BY <3>2, <3>3, <1>1
    <3>4. CASE e # r
      <4>1. e \in AncestryOf(refs[HeadBranch])
        BY <3>4, <2>1, <1>1 DEF PushInv, EditsNeverLost
      <4>2. refs[HeadBranch] # NoCommit /\ refs[HeadBranch] \in ancestry[r]
        BY <4>1, <3>1, <3>2 DEF AncestryOf
      <4>3. ancestry[refs[HeadBranch]] \subseteq ancestry[r]
        BY <4>2 DEF PushInv, HistoryInv
      <4> QED
        BY <4>1, <4>2, <4>3, <3>2 DEF AncestryOf
    <3> QED
      BY <3>3, <3>4
  <2> QED
    BY <2>2, <2>3
<1> QED
  BY <1>2, <1>3, <1>4

\* Any other step of a request leaves the repository and what is served alone,
\* and publications started or left by it are of pushed commits.
LEMMA RequestKeepsHistory ==
    ASSUME TypeOK, PushInv, NEW r \in Requests,
           UNCHANGED <<refs, pushed, rewritten, tree, ancestry, worktree>>,
           headSha' \in pushed \cup {NoCommit},
           pc' = pc \/ (pc' = [pc EXCEPT ![r] = pc'[r]] /\ (pc'[r] = "push" => pc[r] = "push")),
           stage' = stage \/ (r \in pushed /\ stage' = [stage EXCEPT ![Own(r)] = "clear"])
    PROVE  HistoryInv' /\ ServedInv' /\ EditsNeverLost'
<1> USE DEF TypeOK
<1>1. HistoryInv'
  BY DEF PushInv, HistoryInv
<1>2. \A p \in Publishers : Publishing(p)' => Publishing(p) \/ (r \in pushed /\ p[2] = r)
  BY PublisherParts DEF Publishing
<1>3. ServedInv'
  BY <1>2 DEF PushInv, ServedInv, Present
<1>4. EditsNeverLost'
  BY DEF PushInv, EditsNeverLost, AncestryOf
<1> QED
  BY <1>1, <1>3, <1>4

LEMMA PushInvInit == Init => PushInv
  BY PublisherParts, RepoPublishAssumption
     DEF Init, PushInv, ProgressInv, HistoryInv, ServedInv, EditsNeverLost, Publishing, Present, EmptyTree

LEMMA PushInvEdit ==
    ASSUME TypeOK, PushInv, NEW e \in Edits,
           EditClone(e) \/ EditRefuse(e) \/ EditStep(e) \/ EditPushTimeout(e)
    PROVE  PushInv'
<1> USE DEF TypeOK
<1>0. e \in Requests /\ HeadBranch \in Branches
  BY RepoPublishAssumption DEF Requests
<1>1. CASE EditClone(e)
  <2>1. ProgressInv'
    BY <1>0, <1>1 DEF EditClone, Begin, PushInv, ProgressInv, HistoryInv, repoVars
  <2>2. HistoryInv' /\ ServedInv' /\ EditsNeverLost'
    BY <1>0, <1>1, RequestKeepsHistory DEF EditClone, repoVars, servedVars, PushInv, ServedInv
  <2> QED
    BY <2>1, <2>2 DEF PushInv
<1>2. CASE EditRefuse(e)
  <2>1. ProgressInv'
    BY <1>0, <1>2 DEF EditRefuse, Answer, PushInv, ProgressInv, repoVars
  <2>2. HistoryInv' /\ ServedInv' /\ EditsNeverLost'
    BY <1>0, <1>2, RequestKeepsHistory DEF EditRefuse, Answer, repoVars, servedVars, PushInv, ServedInv
  <2> QED
    BY <2>1, <2>2 DEF PushInv
<1>3. CASE EditCommit(e)
  <2>0. PICK old \in {NoCommit} \cup AncestryOf(base[e]) : \E t \in EditResults(base[e], old) :
          IF t = TreeOf(base[e])
          THEN Answer(e, "unchanged") /\ UNCHANGED <<tree, ancestry>>
          ELSE Commit(e, t, base[e]) /\ pc' = [pc EXCEPT ![e] = "push"] /\ UNCHANGED reply
    BY <1>3 DEF EditCommit
  <2>1. PICK t \in EditResults(base[e], old) :
          IF t = TreeOf(base[e])
          THEN Answer(e, "unchanged") /\ UNCHANGED <<tree, ancestry>>
          ELSE Commit(e, t, base[e]) /\ pc' = [pc EXCEPT ![e] = "push"] /\ UNCHANGED reply
    BY <2>0
  <2>2. e \notin pushed /\ base[e] \in pushed \cup {NoCommit}
    BY <1>0, <1>3 DEF EditCommit, PushInv, ProgressInv
  <2>3. ProgressInv'
    BY <1>0, <1>3, <2>1, <2>2 DEF EditCommit, Answer, PushInv, ProgressInv
  <2>4. CASE t = TreeOf(base[e])
    <3>1. HistoryInv' /\ ServedInv' /\ EditsNeverLost'
      BY <1>0, <1>3, <2>1, <2>4, RequestKeepsHistory
         DEF EditCommit, Answer, repoVars, servedVars, PushInv, ServedInv
    <3> QED
      BY <3>1, <2>3 DEF PushInv
  <2>5. CASE t # TreeOf(base[e])
    <3>1. HistoryInv' /\ ServedInv' /\ EditsNeverLost'
      BY <1>0, <1>3, <2>1, <2>2, <2>5, CommitKeepsHistory DEF EditCommit, servedVars
    <3> QED
      BY <3>1, <2>3 DEF PushInv
  <2> QED
    BY <2>4, <2>5
<1>4. CASE EditPush(e)
  <2>1. ProgressInv'
    BY <1>0, <1>4 DEF EditPush, ReceivePush, Answer, PushInv, ProgressInv, repoVars
  <2>2. CASE FastForward(e, HeadBranch)
    <3>1. HistoryInv' /\ ServedInv' /\ EditsNeverLost'
      BY <1>0, <1>4, <2>2, PushKeepsHistory DEF EditPush, servedVars
    <3> QED
      BY <3>1, <2>1 DEF PushInv
  <2>3. CASE ~ FastForward(e, HeadBranch)
    <3>1. HistoryInv' /\ ServedInv' /\ EditsNeverLost'
      BY <1>0, <1>4, <2>3, RequestKeepsHistory
         DEF EditPush, Answer, repoVars, servedVars, PushInv, ServedInv
    <3> QED
      BY <3>1, <2>1 DEF PushInv
  <2> QED
    BY <2>2, <2>3
<1>5. CASE EditPushed(e)
  <2>1. e \in pushed
    BY <1>0, <1>5 DEF EditPushed, PushInv, ProgressInv
  <2>2. ProgressInv'
    BY <1>0, <1>5 DEF EditPushed, PushInv, ProgressInv, repoVars
  <2>3. HistoryInv' /\ ServedInv' /\ EditsNeverLost'
    BY <1>0, <1>5, <2>1, RequestKeepsHistory DEF EditPushed, repoVars
  <2> QED
    BY <2>2, <2>3 DEF PushInv
<1>6. CASE EditAnswer(e) \/ EditPushTimeout(e)
  <2>1. ProgressInv'
    BY <1>0, <1>6 DEF EditAnswer, EditPushTimeout, Answer, PushInv, ProgressInv, repoVars
  <2>2. HistoryInv' /\ ServedInv' /\ EditsNeverLost'
    BY <1>0, <1>6, RequestKeepsHistory
       DEF EditAnswer, EditPushTimeout, Answer, repoVars, servedVars, PushInv, ServedInv
  <2> QED
    BY <2>1, <2>2 DEF PushInv
<1> QED
  BY <1>1, <1>2, <1>3, <1>4, <1>5, <1>6 DEF EditStep

LEMMA PushInvClient ==
    ASSUME TypeOK, PushInv, NEW p \in Pushes,
           ClientCommit(p) \/ ClientStep(p) \/ ClientAbort(p)
    PROVE  PushInv'
<1> USE DEF TypeOK
<1>0. p \in Requests /\ p \notin Edits
  BY RepoPublishAssumption DEF Requests
<1>1. CASE ClientCommit(p)
  <2>2. PICK b \in Branches, t \in Tree :
          Commit(p, t, refs[b]) /\ base' = [base EXCEPT ![p] = refs[b]]
    BY <1>1 DEF ClientCommit
  <2>3. p \notin pushed /\ refs[b] \in pushed \cup {NoCommit}
    BY <1>0, <1>1 DEF ClientCommit, Begin, PushInv, ProgressInv, HistoryInv
  <2>4. ProgressInv'
    BY <1>0, <1>1, <2>2, <2>3 DEF ClientCommit, Begin, PushInv, ProgressInv
  <2>5. HistoryInv' /\ ServedInv' /\ EditsNeverLost'
    BY <1>0, <1>1, <2>2, <2>3, CommitKeepsHistory DEF ClientCommit, servedVars
  <2> QED
    BY <2>4, <2>5 DEF PushInv
<1>2. CASE ClientPush(p)
  <2>1. PICK b \in Branches, force \in BOOLEAN :
          IF force \/ FastForward(p, b)
          THEN ReceivePush(p, b, force) /\ UNCHANGED reply
          ELSE Answer(p, "rejected") /\ UNCHANGED <<repoVars, stage>>
    BY <1>2 DEF ClientPush
  <2>2. ProgressInv'
    BY <1>0, <1>2, <2>1 DEF ClientPush, ReceivePush, Answer, PushInv, ProgressInv, repoVars
  <2>3. CASE force \/ FastForward(p, b)
    <3>1. HistoryInv' /\ ServedInv' /\ EditsNeverLost'
      BY <1>0, <1>2, <2>1, <2>3, PushKeepsHistory DEF ClientPush, servedVars
    <3> QED
      BY <3>1, <2>2 DEF PushInv
  <2>4. CASE ~ (force \/ FastForward(p, b))
    <3>1. HistoryInv' /\ ServedInv' /\ EditsNeverLost'
      BY <1>0, <1>2, <2>1, <2>4, RequestKeepsHistory
         DEF ClientPush, Answer, repoVars, servedVars, PushInv, ServedInv
    <3> QED
      BY <3>1, <2>2 DEF PushInv
  <2> QED
    BY <2>3, <2>4
<1>3. CASE ClientPushed(p) \/ ClientAbort(p)
  <2>1. ProgressInv'
    BY <1>0, <1>3 DEF ClientPushed, ClientAbort, Answer, PushInv, ProgressInv, repoVars
  <2>2. HistoryInv' /\ ServedInv' /\ EditsNeverLost'
    BY <1>0, <1>3, RequestKeepsHistory
       DEF ClientPushed, ClientAbort, Answer, repoVars, servedVars, PushInv, ServedInv
  <2> QED
    BY <2>1, <2>2 DEF PushInv
<1> QED
  BY <1>1, <1>2, <1>3 DEF ClientStep

LEMMA PushInvSync ==
    ASSUME TypeOK, PushInv, LinkInv, NEW s \in Syncs,
           \/ SyncRequest(s) \/ SyncStep(s) \/ SyncForget(s)
           \/ SyncSourceFails(s) \/ SyncPushTimeout(s)
    PROVE  PushInv'
<1> USE DEF TypeOK
<1>0. s \in Requests /\ s \notin Edits /\ MainBranch \in Branches
  BY RepoPublishAssumption DEF Requests
<1>1. CASE SyncRequest(s) \/ SyncForget(s)
  <2>1. UNCHANGED <<repoVars, servedVars, requestVars, stage>>
    BY <1>1 DEF SyncRequest, SyncForget
  <2>2. ProgressInv'
    BY <2>1 DEF PushInv, ProgressInv, repoVars, requestVars
  <2>3. HistoryInv' /\ ServedInv' /\ EditsNeverLost'
    BY <1>0, <2>1, RequestKeepsHistory DEF repoVars, servedVars, requestVars, PushInv, ServedInv
  <2> QED
    BY <2>2, <2>3 DEF PushInv
<1>2. CASE SyncStart(s)
  <2>1. pc[s] = "idle"
    BY <1>2 DEF SyncStart, Start, LinkInv
  <2>2. ProgressInv'
    BY <1>0, <1>2, <2>1 DEF SyncStart, PushInv, ProgressInv, repoVars
  <2>3. HistoryInv' /\ ServedInv' /\ EditsNeverLost'
    BY <1>0, <1>2, RequestKeepsHistory DEF SyncStart, repoVars, servedVars, PushInv, ServedInv
  <2> QED
    BY <2>2, <2>3 DEF PushInv
<1>3. CASE SyncImport(s)
  <2>1. PICK t \in Tree \ {EmptyTree} : Commit(s, t, NoCommit)
    BY <1>3 DEF SyncImport
  <2>2. s \notin pushed
    BY <1>0, <1>3 DEF SyncImport, PushInv, ProgressInv
  <2>3. ProgressInv'
    BY <1>0, <1>3, <2>2 DEF SyncImport, PushInv, ProgressInv
  <2>4. HistoryInv' /\ ServedInv' /\ EditsNeverLost'
    BY <1>0, <1>3, <2>1, <2>2, CommitKeepsHistory DEF SyncImport, servedVars
  <2> QED
    BY <2>3, <2>4 DEF PushInv
<1>4. CASE SyncPush(s)
  <2>1. ProgressInv'
    BY <1>0, <1>4 DEF SyncPush, ReceivePush, PushInv, ProgressInv
  <2>2. HistoryInv' /\ ServedInv' /\ EditsNeverLost'
    BY <1>0, <1>4, PushKeepsHistory DEF SyncPush, servedVars
  <2> QED
    BY <2>1, <2>2 DEF PushInv
<1>5. CASE SyncPushed(s)
  <2>1. s \in pushed
    BY <1>0, <1>5 DEF SyncPushed, PushInv, ProgressInv
  <2>2. ProgressInv'
    BY <1>0, <1>5 DEF SyncPushed, PushInv, ProgressInv, repoVars
  <2>3. HistoryInv' /\ ServedInv' /\ EditsNeverLost'
    BY <1>0, <1>5, <2>1, RequestKeepsHistory DEF SyncPushed, repoVars, servedVars, PushInv, ServedInv
  <2> QED
    BY <2>2, <2>3 DEF PushInv
<1>6. CASE SyncAnswer(s) \/ SyncSourceFails(s) \/ SyncPushTimeout(s)
  <2>1. ProgressInv'
    BY <1>0, <1>6 DEF SyncAnswer, SyncSourceFails, SyncPushTimeout, Answer, PushInv, ProgressInv, repoVars
  <2>2. HistoryInv' /\ ServedInv' /\ EditsNeverLost'
    BY <1>0, <1>6, RequestKeepsHistory
       DEF SyncAnswer, SyncSourceFails, SyncPushTimeout, Answer, repoVars, servedVars, PushInv, ServedInv
  <2> QED
    BY <2>1, <2>2 DEF PushInv
<1> QED
  BY <1>1, <1>2, <1>3, <1>4, <1>5, <1>6 DEF SyncStep

LEMMA PushInvPublish ==
    ASSUME TypeOK, PushInv, NEW p \in Publishers,
           PublishStep(p) \/ PublishUntarFails(p) \/ PublishIndexFails(p)
    PROVE  PushInv'
<1> USE DEF TypeOK, To
<1>0. p[2] \in pushed /\ p[2] \in Requests /\ tree[p[2]] \in Tree
  BY PublisherParts
     DEF PushInv, ServedInv, Publishing, PublishStep, PublishClear, PublishUntar, PublishIndex,
         PublishHead, PublishUntarFails, PublishIndexFails
<1>1. UNCHANGED <<repoVars, requestVars>>
  BY DEF PublishStep, PublishClear, PublishUntar, PublishIndex,
         PublishHead, PublishUntarFails, PublishIndexFails, servedVars
<1>2. ProgressInv' /\ HistoryInv' /\ EditsNeverLost'
  BY <1>1 DEF PushInv, ProgressInv, HistoryInv, EditsNeverLost, AncestryOf, repoVars, requestVars
<1>3. \A q \in Publishers : Publishing(q)' => q[2] \in pushed
  BY <1>0 DEF PushInv, ServedInv, Publishing, PublishStep, PublishClear, PublishUntar,
              PublishIndex, PublishHead, PublishUntarFails, PublishIndexFails
<1>4. headSha' \in pushed \cup {NoCommit}
  BY <1>0 DEF PushInv, ServedInv, PublishStep, PublishClear, PublishUntar,
              PublishIndex, PublishHead, PublishUntarFails, PublishIndexFails, servedVars
<1>5. (\A f \in Present(worktree) : \E c \in pushed : tree[c][f] = worktree[f])'
  <2>1. CASE PublishClear(p)
    BY <2>1 DEF PublishClear, Present, EmptyTree
  <2>2. CASE PublishUntar(p)
    BY <2>2, <1>0, <1>1, OverlayServed, FilesSubset DEF PublishUntar, PushInv, repoVars
  <2>3. CASE PublishUntarFails(p)
    <3>1. PICK S \in SUBSET Files : worktree' = Overlay(Only(tree[p[2]], S), worktree)
      BY <2>3 DEF PublishUntarFails
    <3>2. Only(tree[p[2]], S) \in Tree
      BY <1>0, TreeOperations
    <3> QED
      BY <3>1, <3>2, <1>0, <1>1, OverlayServed DEF PushInv, repoVars
  <2>4. CASE PublishIndex(p) \/ PublishHead(p) \/ PublishIndexFails(p)
    BY <2>4, <1>1 DEF PublishIndex, PublishHead, PublishIndexFails, servedVars, repoVars,
                      PushInv, ServedInv, Present
  <2> QED
    BY <2>1, <2>2, <2>3, <2>4 DEF PublishStep
<1> QED
  BY <1>1, <1>2, <1>3, <1>4, <1>5 DEF PushInv, ServedInv, repoVars

LEMMA PushInvCrash ==
    ASSUME TypeOK, PushInv, Crash
    PROVE  PushInv'
<1> USE DEF TypeOK
<1>1. UNCHANGED <<repoVars, headSha, base>>
  BY DEF Crash
<1>2. ProgressInv'
  <2>1. \A r \in Requests : /\ pc'[r] \in {"idle", "commit", "push", "wait", "publish"} => pc'[r] = pc[r]
                            /\ reply'[r] = reply[r] \/ (reply'[r] = "crashed" /\ pc'[r] = "done")
                            /\ pc[r] = "done" => pc'[r] = "done"
    BY DEF Crash
  <2> QED
    BY <1>1, <2>1 DEF PushInv, ProgressInv, repoVars
<1>3. HistoryInv' /\ EditsNeverLost'
  BY <1>1 DEF Crash, PushInv, HistoryInv, EditsNeverLost, AncestryOf, repoVars
<1>4. \A p \in Publishers : Publishing(p)' => Publishing(p)
  BY DEF Crash, Publishing
<1>5. (\A f \in Present(worktree) : \E c \in pushed : tree[c][f] = worktree[f])'
  <2>1. CASE worktree' = worktree
    BY <1>1, <2>1 DEF PushInv, ServedInv, Present, repoVars
  <2>2. CASE worktree' # worktree
    <3>0. worktree' \in {worktree} \cup
            UNION {{Overlay(Only(tree[p[2]], S), worktree) : S \in SUBSET Files} :
                      p \in {q \in Publishers : stage[q] = "untar"}}
      BY DEF Crash
    <3>1. PICK p \in Publishers : /\ stage[p] = "untar"
                                  /\ \E S \in SUBSET Files :
                                        worktree' = Overlay(Only(tree[p[2]], S), worktree)
      BY <2>2, <3>0
    <3>2. PICK S \in SUBSET Files : worktree' = Overlay(Only(tree[p[2]], S), worktree)
      BY <3>1
    <3>3. p[2] \in pushed /\ tree[p[2]] \in Tree
      BY <3>1, PublisherParts DEF PushInv, ServedInv, Publishing
    <3>4. Only(tree[p[2]], S) \in Tree
      BY <3>3, TreeOperations
    <3>5. ServedInv /\ UNCHANGED <<pushed, tree>>
      BY <1>1 DEF PushInv, repoVars
    <3> QED
      BY <3>2, <3>3, <3>4, <3>5, OverlayServed
  <2> QED
    BY <2>1, <2>2
<1> QED
  BY <1>1, <1>2, <1>3, <1>4, <1>5 DEF PushInv, ServedInv, repoVars

LEMMA PushInvStep == TypeOK /\ PushInv /\ LinkInv /\ [Next]_vars => PushInv'
<1> SUFFICES ASSUME TypeOK, PushInv, LinkInv, [Next]_vars PROVE PushInv'
  OBVIOUS
<1>1. CASE UNCHANGED vars
  BY <1>1 DEF vars, repoVars, servedVars, requestVars, PushInv, ProgressInv, HistoryInv, ServedInv,
              EditsNeverLost, AncestryOf, Publishing, Present
<1> QED
  BY <1>1, PushInvEdit, PushInvClient, PushInvSync, PushInvPublish, PushInvCrash DEF Next

LEMMA LinkInvInit == Init => LinkInv
  BY DEF Init, LockInit, LinkInv, Requests

\* The steps of an import take and give up the lock where its pc says so.
LEMMA LinkInvStep == TypeOK /\ LockInv /\ LinkInv /\ [Next]_vars => LinkInv'
<1> SUFFICES ASSUME TypeOK, LockInv, LinkInv, [Next]_vars PROVE LinkInv'
  OBVIOUS
<1> USE RepoPublishAssumption DEF LinkInv, TypeOK, LockTypeOK, Requests
<1>1. ASSUME NEW e \in Edits,
             EditClone(e) \/ EditRefuse(e) \/ EditStep(e) \/ EditPushTimeout(e)
      PROVE  LinkInv'
  <2>1. \A s \in Syncs : pc'[s] = pc[s]
    BY <1>1 DEF EditClone, EditRefuse, EditStep, EditCommit, EditPush, EditPushed, EditAnswer,
                EditPushTimeout, Answer, ReceivePush
  <2>2. UNCHANGED syncState
    BY <1>1 DEF EditClone, EditRefuse, EditStep, EditCommit, EditPush, EditPushed, EditAnswer,
                EditPushTimeout, lockVars
  <2> QED
    BY <2>1, <2>2
<1>2. ASSUME NEW p \in Pushes, ClientCommit(p) \/ ClientStep(p) \/ ClientAbort(p)
      PROVE  LinkInv'
  <2>1. \A s \in Syncs : pc'[s] = pc[s]
    BY <1>2 DEF ClientCommit, ClientStep, ClientPush, ClientPushed, ClientAbort, Answer, ReceivePush
  <2>2. UNCHANGED syncState
    BY <1>2 DEF ClientCommit, ClientStep, ClientPush, ClientPushed, ClientAbort, lockVars
  <2> QED
    BY <2>1, <2>2
<1>3. ASSUME NEW s \in Syncs, SyncRequest(s) \/ SyncStart(s) \/ SyncForget(s)
      PROVE  LinkInv'
  <2>1. CASE SyncRequest(s)
    BY <2>1 DEF SyncRequest, Begin, Call, requestVars
  <2>2. CASE SyncStart(s)
    BY <2>2 DEF SyncStart, Start
  <2>3. CASE SyncForget(s)
    BY <2>3 DEF SyncForget, Forget, requestVars
  <2> QED
    BY <1>3, <2>1, <2>2, <2>3
<1>4. ASSUME NEW s \in Syncs, SyncImport(s) \/ SyncPush(s) \/ SyncPushed(s)
      PROVE  LinkInv'
  BY <1>4 DEF SyncImport, SyncPush, SyncPushed, ReceivePush, lockVars
<1>5. ASSUME NEW s \in Syncs, SyncAnswer(s) \/ SyncSourceFails(s) \/ SyncPushTimeout(s)
      PROVE  LinkInv'
  BY <1>5 DEF SyncAnswer, SyncSourceFails, SyncPushTimeout, Answer, Settle
<1>6. ASSUME NEW p \in Publishers, PublishStep(p) \/ PublishUntarFails(p) \/ PublishIndexFails(p)
      PROVE  LinkInv'
  BY <1>6 DEF PublishStep, PublishClear, PublishUntar, PublishIndex, PublishHead,
              PublishUntarFails, PublishIndexFails, requestVars, lockVars
<1>7. CASE Crash
  BY <1>7 DEF Crash, LockRestart, UnderWay, Unsettled, PcStates, SyncStates
<1>8. CASE UNCHANGED vars
  BY <1>8 DEF vars, requestVars, lockVars
<1> QED
  BY <1>1, <1>2, <1>3, <1>4, <1>5, <1>6, <1>7, <1>8 DEF Next, SyncStep

LEMMA PushInvHolds == Spec => [](TypeOK /\ LockInv /\ LinkInv /\ PushInv)
<1>1. Init => TypeOK /\ LockInv /\ LinkInv /\ PushInv
  BY TypeInit, LockInvInit, LinkInvInit, PushInvInit DEF Init
<1>2. TypeOK /\ LockInv /\ LinkInv /\ PushInv /\ [Next]_vars
        => (TypeOK /\ LockInv /\ LinkInv /\ PushInv)'
  BY TypeStep, LockKept, LinkInvStep, PushInvStep
<1> QED
  BY <1>1, <1>2, PTL DEF Spec

\* Edits that were pushed stay in the history of HEAD, although edits take no
\* lock: for any number of concurrent requests and any failures.
THEOREM PushedEditsStay == Spec => []EditsNeverLost
<1>1. PushInv => EditsNeverLost
  BY DEF PushInv
<1> QED
  BY <1>1, PushInvHolds, PTL

\* Nothing but pushed content is ever served, listed as head or being published.
THEOREM OnlyPushedIsServed == Spec => []ServedWasPushed
<1>1. TypeOK /\ PushInv => ServedWasPushed
  BY DEF PushInv, ServedInv, ProgressInv, ServedWasPushed, TypeOK
<1> QED
  BY <1>1, PushInvHolds, PTL

\* For any mix of edits, pushes and imports and any failures, at most one import
\* of a repository is between its clone and its answer (githubSync.ts:495).
THEOREM ImportsHaveOneHolder == Spec => []OneImportAtATime
<1>1. TypeOK /\ LockInv /\ LinkInv => OneImportAtATime
  <2> SUFFICES ASSUME TypeOK, LockInv, LinkInv, NEW s \in Syncs, NEW t \in Syncs,
                      UnderWay(s), UnderWay(t), pc[s] # "idle", pc[t] # "idle"
               PROVE  s = t
    BY DEF OneImportAtATime
  <2>1. syncState[s] = "running" /\ syncState[t] = "running"
    BY DEF LinkInv, UnderWay, Unsettled, TypeOK, Requests
  <2> QED
    BY <2>1, LockInvConsequences DEF SyncsSerialized
<1> QED
  BY <1>1, PushInvHolds, PTL

\* A publication that has begun is of a pushed revision, and a request does not
\* publish itself before its push has returned; so no publication begins twice.
StageInv ==
    /\ \A p \in Publishers : stage[p] # "off" => p[2] \in pushed
    /\ \A r \in Requests : pc[r] = "wait" => stage[Own(r)] = "off"

TornStays == \A p \in Publishers : stage[p] = "torn" => stage'[p] = "torn"

LEMMA StageInvEdit ==
    ASSUME TypeOK, PushInv, StageInv, NEW e \in Edits,
           EditClone(e) \/ EditRefuse(e) \/ EditStep(e) \/ EditPushTimeout(e)
    PROVE  StageInv' /\ TornStays
<1> USE PublisherParts, RepoPublishAssumption DEF TypeOK, Requests, StageInv, TornStays
<1>1. CASE EditClone(e) \/ EditRefuse(e) \/ EditCommit(e) \/ EditAnswer(e) \/ EditPushTimeout(e)
  BY <1>1 DEF EditClone, EditRefuse, EditCommit, EditAnswer, EditPushTimeout, Answer, repoVars
<1>2. CASE EditPush(e)
  BY <1>2 DEF EditPush, ReceivePush, Answer, repoVars, PushInv, ProgressInv
<1>3. CASE EditPushed(e)
  BY <1>3 DEF EditPushed, repoVars, PushInv, ProgressInv
<1> QED
  BY <1>1, <1>2, <1>3 DEF EditStep

LEMMA StageInvClient ==
    ASSUME TypeOK, PushInv, StageInv, NEW p \in Pushes,
           ClientCommit(p) \/ ClientStep(p) \/ ClientAbort(p)
    PROVE  StageInv' /\ TornStays
<1> USE PublisherParts, RepoPublishAssumption DEF TypeOK, Requests, StageInv, TornStays
<1>1. CASE ClientCommit(p) \/ ClientPushed(p) \/ ClientAbort(p)
  BY <1>1 DEF ClientCommit, ClientPushed, ClientAbort, Answer, repoVars
<1>2. CASE ClientPush(p)
  BY <1>2 DEF ClientPush, ReceivePush, Answer, repoVars, PushInv, ProgressInv
<1> QED
  BY <1>1, <1>2 DEF ClientStep

LEMMA StageInvSync ==
    ASSUME TypeOK, PushInv, StageInv, NEW s \in Syncs,
           \/ SyncRequest(s) \/ SyncStep(s) \/ SyncForget(s)
           \/ SyncSourceFails(s) \/ SyncPushTimeout(s)
    PROVE  StageInv' /\ TornStays
<1> USE PublisherParts, RepoPublishAssumption DEF TypeOK, Requests, StageInv, TornStays
<1>1. CASE \/ SyncRequest(s) \/ SyncStart(s) \/ SyncImport(s) \/ SyncAnswer(s) \/ SyncForget(s)
           \/ SyncSourceFails(s) \/ SyncPushTimeout(s)
  BY <1>1 DEF SyncRequest, SyncStart, SyncImport, SyncAnswer, SyncForget, SyncSourceFails,
     SyncPushTimeout, Answer, repoVars, requestVars
<1>2. CASE SyncPush(s)
  BY <1>2 DEF SyncPush, ReceivePush, PushInv, ProgressInv
<1>3. CASE SyncPushed(s)
  BY <1>3 DEF SyncPushed, repoVars, PushInv, ProgressInv
<1> QED
  BY <1>1, <1>2, <1>3 DEF SyncStep

LEMMA StageInvPublish ==
    ASSUME TypeOK, PushInv, StageInv, NEW p \in Publishers,
           PublishStep(p) \/ PublishUntarFails(p) \/ PublishIndexFails(p)
    PROVE  StageInv' /\ TornStays
<1> USE PublisherParts DEF TypeOK, StageInv, TornStays, To
<1>1. UNCHANGED <<pc, pushed>>
  BY DEF PublishStep, PublishClear, PublishUntar, PublishIndex, PublishHead,
         PublishUntarFails, PublishIndexFails, repoVars, requestVars
<1>2. stage[p] \notin {"off", "torn"} /\ \E s : stage' = [stage EXCEPT ![p] = s]
  BY DEF PublishStep, PublishClear, PublishUntar, PublishIndex, PublishHead,
         PublishUntarFails, PublishIndexFails
<1> QED
  BY <1>1, <1>2

LEMMA StageInvStep ==
    ASSUME TypeOK, PushInv, StageInv, [Next]_vars
    PROVE  StageInv' /\ TornStays
<1>1. CASE Crash
  BY <1>1, PublisherParts DEF Crash, TypeOK, StageInv, TornStays, Publishing, UnderWay, repoVars
<1>2. CASE UNCHANGED vars
  BY <1>2 DEF vars, StageInv, TornStays, repoVars, requestVars
<1> QED
  BY <1>1, <1>2, StageInvEdit, StageInvClient, StageInvSync, StageInvPublish DEF Next

LEMMA StageInvHolds == Spec => []StageInv
<1>1. Init => StageInv
  BY DEF Init, StageInv
<1>2. TypeOK /\ PushInv /\ StageInv /\ [Next]_vars => StageInv'
  BY StageInvStep
<1> QED
  BY <1>1, <1>2, PushInvHolds, PTL DEF Spec

\* The listing is one whole revision, or what a crash or a failed insert left of
\* the re-indexing of one; it never mixes two, for any requests that overlap and
\* any failures.
THEOREM ListingIsWhole == Spec => []IndexIsARevision
<1>1. Init => IndexIsARevision
  BY DEF Init, IndexIsARevision
<1>2. TypeOK /\ PushInv /\ StageInv /\ IndexIsARevision /\ [Next]_vars => IndexIsARevision'
  <2> SUFFICES ASSUME TypeOK, PushInv, StageInv, IndexIsARevision, [Next]_vars
               PROVE  IndexIsARevision'
    OBVIOUS
  <2>1. pushed \subseteq pushed' /\ \A c \in pushed : tree'[c] = tree[c]
    <3>1. ASSUME NEW e \in Edits,
                 EditClone(e) \/ EditRefuse(e) \/ EditStep(e) \/ EditPushTimeout(e)
          PROVE  pushed \subseteq pushed' /\ \A c \in pushed : tree'[c] = tree[c]
      BY <3>1 DEF EditClone, EditRefuse, EditStep, EditCommit, EditPush, EditPushed,
           EditAnswer, EditPushTimeout, ReceivePush, Commit, repoVars, PushInv, ProgressInv,
           TypeOK, Requests
    <3>2. ASSUME NEW p \in Pushes, ClientCommit(p) \/ ClientStep(p) \/ ClientAbort(p)
          PROVE  pushed \subseteq pushed' /\ \A c \in pushed : tree'[c] = tree[c]
      BY <3>2 DEF ClientCommit, ClientStep, ClientPush, ClientPushed, ClientAbort, Begin,
           ReceivePush, Commit, repoVars, PushInv, ProgressInv, TypeOK, Requests
    <3>3. ASSUME NEW s \in Syncs,
                 \/ SyncRequest(s) \/ SyncStep(s) \/ SyncForget(s)
                 \/ SyncSourceFails(s) \/ SyncPushTimeout(s)
          PROVE  pushed \subseteq pushed' /\ \A c \in pushed : tree'[c] = tree[c]
      BY <3>3 DEF SyncRequest, SyncStep, SyncStart, SyncImport, SyncPush, SyncPushed,
           SyncAnswer, SyncForget, SyncSourceFails, SyncPushTimeout, ReceivePush, Commit,
           repoVars, PushInv, ProgressInv, TypeOK, Requests
    <3>4. ASSUME NEW p \in Publishers,
                 PublishStep(p) \/ PublishUntarFails(p) \/ PublishIndexFails(p)
          PROVE  pushed \subseteq pushed' /\ \A c \in pushed : tree'[c] = tree[c]
      BY <3>4 DEF PublishStep, PublishClear, PublishUntar, PublishIndex, PublishHead,
           PublishUntarFails, PublishIndexFails, repoVars
    <3>5. CASE Crash \/ UNCHANGED vars
      BY <3>5 DEF Crash, vars, repoVars
    <3> QED
      BY <3>1, <3>2, <3>3, <3>4, <3>5 DEF Next
  <2>2. \A p \in Publishers : stage[p] = "torn" => stage'[p] = "torn" /\ p[2] \in pushed
    BY StageInvStep DEF StageInv, TornStays
  <2>3. \/ index' = index
        \/ \E c \in pushed : index' = tree[c]
        \/ \E p \in Publishers : index' \in PartlyIndexed(p) /\ stage'[p] = "torn" /\ tree'[p[2]] = tree[p[2]]
    <3>1. ASSUME NEW p \in Publishers, PublishIndex(p) PROVE \E c \in pushed : index' = tree[c]
      BY <3>1 DEF PublishIndex, PushInv, ServedInv, Publishing
    <3>2. ASSUME NEW e \in Edits,
                 EditClone(e) \/ EditRefuse(e) \/ EditStep(e) \/ EditPushTimeout(e)
          PROVE  index' = index
      BY <3>2 DEF EditClone, EditRefuse, EditStep, EditCommit, EditPush, EditPushed,
           EditAnswer, EditPushTimeout, servedVars
    <3>3. ASSUME NEW p \in Pushes, ClientCommit(p) \/ ClientStep(p) \/ ClientAbort(p)
          PROVE  index' = index
      BY <3>3 DEF ClientCommit, ClientStep, ClientPush, ClientPushed, ClientAbort, servedVars
    <3>4. ASSUME NEW s \in Syncs,
                 \/ SyncRequest(s) \/ SyncStep(s) \/ SyncForget(s)
                 \/ SyncSourceFails(s) \/ SyncPushTimeout(s)
          PROVE  index' = index
      BY <3>4 DEF SyncRequest, SyncStep, SyncStart, SyncImport, SyncPush, SyncPushed,
           SyncAnswer, SyncForget, SyncSourceFails, SyncPushTimeout, servedVars
    <3>5. ASSUME NEW p \in Publishers, \/ PublishClear(p) \/ PublishUntar(p) \/ PublishHead(p)
                                       \/ PublishUntarFails(p)
          PROVE  index' = index
      BY <3>5 DEF PublishClear, PublishUntar, PublishHead, PublishUntarFails
    <3>8. ASSUME NEW p \in Publishers, PublishIndexFails(p)
          PROVE  \/ index' = index
                 \/ index' \in PartlyIndexed(p) /\ stage'[p] = "torn" /\ tree'[p[2]] = tree[p[2]]
      BY <3>8 DEF PublishIndexFails, To, TypeOK, repoVars
    <3>6. CASE UNCHANGED vars
      BY <3>6 DEF vars, servedVars
    <3>7. CASE Crash
      BY <3>7 DEF Crash, repoVars, TypeOK
    <3> QED
      BY <3>1, <3>2, <3>3, <3>4, <3>5, <3>6, <3>7, <3>8 DEF Next, PublishStep
  <2>4. \A p \in Publishers : stage[p] = "torn" => PartlyIndexed(p) = PartlyIndexed(p)'
    BY <2>1, <2>2 DEF PartlyIndexed
  <2>5. CASE index' = index
    BY <2>1, <2>2, <2>4, <2>5 DEF IndexIsARevision
  <2>6. CASE \E c \in pushed : index' = tree[c]
    BY <2>1, <2>6 DEF IndexIsARevision
  <2>7. ASSUME NEW p \in Publishers, index' \in PartlyIndexed(p), stage'[p] = "torn",
               tree'[p[2]] = tree[p[2]]
        PROVE  IndexIsARevision'
    <3>1. PartlyIndexed(p)' = PartlyIndexed(p)
      BY <2>7 DEF PartlyIndexed
    <3> QED
      BY <2>7, <3>1 DEF IndexIsARevision
  <2> QED
    BY <2>3, <2>5, <2>6, <2>7
<1> QED
  BY <1>1, <1>2, PushInvHolds, StageInvHolds, PTL DEF Spec

-----------------------------------------------------------------------------
(* Requests that come one at a time heal: whatever failures and restarts     *)
(* came before, an edit or import that answers "ok" is what is served.  Only *)
(* a hook that is cut off may leave a publication behind that meets the next *)
(* request's.                                                                *)
(* Requests that meet only in the queue of the lock publish as PublishedRepo *)
(* promises.                                                                 *)

OneByOne == Overlap = {} /\ "hookCut" \notin Faults

Active(r) == UnderWay(r) \/ Publishing(Hook(r)) \/ Publishing(Own(r))

\* How far the request's own publication has come shows in what is served.
ServedBy(r) ==
    /\ stage[Own(r)] = "untar" => worktree = EmptyTree
    /\ stage[Own(r)] \in {"index", "head", "done"} => worktree = tree[r]
    /\ stage[Own(r)] \in {"head", "done"} => index = tree[r]
    /\ r \in Edits \/ stage[Own(r)] = "done" => headSha = r

SerialInv ==
    /\ \A q, r \in Requests : Active(q) /\ Active(r) => q = r
    /\ \A r \in Requests : Publishing(Own(r)) => pc[r] = "publish"
    /\ \A r \in Requests : pc[r] = "publish" =>
          /\ ~ Publishing(Hook(r))
          /\ stage[Own(r)] # "off"
          /\ ServedBy(r)

\* Nothing happens to the others while q is at work.
LEMMA OthersRest ==
    ASSUME TypeOK, SerialInv, NEW q \in Requests, Active(q), NEW r \in Requests, r # q
    PROVE  ~ Active(r)
  BY DEF SerialInv

\* It is enough to look at the request that takes the step.
LEMMA SerialInvLocal ==
    ASSUME TypeOK, NEW q \in Requests,
           \A r \in Requests : r # q => ~ Active(r)',
           Publishing(Own(q))' => pc'[q] = "publish",
           pc'[q] = "publish" => ~ Publishing(Hook(q))' /\ stage'[Own(q)] # "off" /\ ServedBy(q)'
    PROVE  SerialInv'
<1>1. \A r \in Requests : r # q => pc'[r] # "publish" /\ ~ Publishing(Own(r))'
  BY DEF Active, UnderWay
<1>2. (\A r, s \in Requests : Active(r) /\ Active(s) => r = s)'
  OBVIOUS
<1> QED
  BY <1>1, <1>2 DEF SerialInv

\* A step of q that touches no other request and no other publication.
LEMMA OthersStillRest ==
    ASSUME TypeOK, SerialInv, NEW q \in Requests, Active(q) \/ Quiet,
           \A r \in Requests : r # q => pc'[r] = pc[r],
           \A p \in Publishers : p[2] # q => stage'[p] = stage[p],
           \A r \in Syncs : r # q /\ ~ Unsettled(r) => ~ Unsettled(r)'
    PROVE  \A r \in Requests : r # q => ~ Active(r)'
<1> SUFFICES ASSUME NEW r \in Requests, r # q PROVE ~ Active(r)'
  OBVIOUS
<1>1. ~ Active(r)
  BY OthersRest, PublisherParts DEF Quiet, Active
<1>2. stage'[Hook(r)] = stage[Hook(r)] /\ stage'[Own(r)] = stage[Own(r)]
  BY PublisherParts
<1> QED
  BY <1>1, <1>2 DEF Active, UnderWay, Publishing

LEMMA SerialInvInit == Init => SerialInv
  BY PublisherParts DEF Init, LockInit, SerialInv, Active, UnderWay, Publishing, Unsettled, Requests

LEMMA SerialInvEdit ==
    ASSUME TypeOK, SerialInv, OneByOne, NEW e \in Edits,
           EditClone(e) \/ EditRefuse(e) \/ EditStep(e) \/ EditPushTimeout(e)
    PROVE  SerialInv'
<1> USE PublisherParts DEF TypeOK
<1>0. e \in Requests /\ e \notin Syncs
  BY RepoPublishAssumption DEF Requests
<1>1. Active(e) \/ Quiet
  BY DEF EditClone, EditRefuse, EditStep, EditCommit, EditPush, EditPushed, EditAnswer,
         EditPushTimeout, Begin, OneByOne, Active, UnderWay
<1>2. \A r \in Requests : r # e => pc'[r] = pc[r]
  BY <1>0 DEF EditClone, EditRefuse, EditStep, EditCommit, EditPush, EditPushed, EditAnswer,
         EditPushTimeout, Answer, ReceivePush
<1>3. \A p \in Publishers : p[2] # e => stage'[p] = stage[p]
  BY <1>0 DEF EditClone, EditRefuse, EditStep, EditCommit, EditPush, EditPushed, EditAnswer,
         EditPushTimeout, ReceivePush
<1>4. UNCHANGED syncState
  BY DEF EditClone, EditRefuse, EditStep, EditCommit, EditPush, EditPushed, EditAnswer,
         EditPushTimeout, lockVars
<1>5. \A r \in Requests : r # e => ~ Active(r)'
  BY <1>0, <1>1, <1>2, <1>3, <1>4, OthersStillRest DEF Unsettled
<1>6. Publishing(Own(e))' => pc'[e] = "publish"
  <2>1. CASE EditClone(e)
    BY <1>0, <2>1 DEF EditClone, Begin, OneByOne, Quiet, Publishing
  <2>2. CASE EditRefuse(e) \/ EditCommit(e) \/ EditPushTimeout(e)
    BY <1>0, <2>2 DEF EditRefuse, EditCommit, EditPushTimeout, SerialInv, Publishing
  <2>3. CASE EditPush(e)
    BY <1>0, <2>3 DEF EditPush, ReceivePush, SerialInv, Publishing
  <2>4. CASE EditPushed(e)
    BY <1>0, <2>4 DEF EditPushed
  <2>5. CASE EditAnswer(e)
    BY <1>0, <2>5 DEF EditAnswer, Finished, Publishing
  <2> QED
    BY <2>1, <2>2, <2>3, <2>4, <2>5 DEF EditStep
<1>7. pc'[e] = "publish" => ~ Publishing(Hook(e))' /\ stage'[Own(e)] # "off" /\ ServedBy(e)'
  <2>1. CASE EditPushed(e)
    BY <1>0, <2>1 DEF EditPushed, HookReturned, OneByOne, Finished, Publishing, ServedBy
  <2>2. CASE ~ EditPushed(e)
    BY <1>0, <2>2 DEF EditClone, EditRefuse, EditStep, EditCommit, EditPush, EditAnswer,
       EditPushTimeout, Answer, ReceivePush
  <2> QED
    BY <2>1, <2>2
<1> QED
  BY <1>0, <1>5, <1>6, <1>7, SerialInvLocal

LEMMA SerialInvClient ==
    ASSUME TypeOK, SerialInv, OneByOne, NEW p \in Pushes,
           ClientCommit(p) \/ ClientStep(p) \/ ClientAbort(p)
    PROVE  SerialInv'
<1> USE PublisherParts DEF TypeOK
<1>0. p \in Requests /\ p \notin Syncs
  BY RepoPublishAssumption DEF Requests
<1>1. Active(p) \/ Quiet
  BY DEF ClientCommit, ClientStep, ClientPush, ClientPushed, ClientAbort, Begin, OneByOne, Active, UnderWay
<1>2. \A r \in Requests : r # p => pc'[r] = pc[r]
  BY <1>0 DEF ClientCommit, ClientStep, ClientPush, ClientPushed, ClientAbort, Answer, ReceivePush
<1>3. \A q \in Publishers : q[2] # p => stage'[q] = stage[q]
  BY <1>0 DEF ClientCommit, ClientStep, ClientPush, ClientPushed, ClientAbort, ReceivePush
<1>4. UNCHANGED syncState
  BY DEF ClientCommit, ClientStep, ClientPush, ClientPushed, ClientAbort, lockVars
<1>5. \A r \in Requests : r # p => ~ Active(r)'
  BY <1>0, <1>1, <1>2, <1>3, <1>4, OthersStillRest DEF Unsettled
<1>6. Publishing(Own(p))' => pc'[p] = "publish"
  <2>1. CASE ClientCommit(p)
    BY <1>0, <2>1 DEF ClientCommit, Begin, OneByOne, Quiet, Publishing
  <2>2. CASE ClientPush(p)
    BY <1>0, <2>2 DEF ClientPush, ReceivePush, SerialInv, Publishing
  <2>3. CASE ClientPushed(p) \/ ClientAbort(p)
    BY <1>0, <2>3 DEF ClientPushed, ClientAbort, SerialInv, Publishing
  <2> QED
    BY <2>1, <2>2, <2>3 DEF ClientStep
<1>7. pc'[p] # "publish"
  BY <1>0 DEF ClientCommit, ClientStep, ClientPush, ClientPushed, ClientAbort, Answer, ReceivePush
<1> QED
  BY <1>0, <1>5, <1>6, <1>7, SerialInvLocal

LEMMA SerialInvSync ==
    ASSUME TypeOK, LinkInv, SerialInv, OneByOne, NEW s \in Syncs,
           SyncRequest(s) \/ SyncStep(s) \/ SyncSourceFails(s) \/ SyncPushTimeout(s)
    PROVE  SerialInv'
<1> USE PublisherParts DEF TypeOK, LockTypeOK
<1>0. s \in Requests /\ s \notin Edits
  BY RepoPublishAssumption DEF Requests
<1>1. Active(s) \/ Quiet
  BY DEF SyncRequest, SyncStep, SyncStart, SyncImport, SyncPush, SyncPushed, SyncAnswer,
         SyncSourceFails, SyncPushTimeout, Begin, OneByOne, Active, UnderWay, Start, Unsettled
<1>2. \A r \in Requests : r # s => pc'[r] = pc[r]
  BY <1>0 DEF SyncRequest, SyncStep, SyncStart, SyncImport, SyncPush, SyncPushed, SyncAnswer,
         SyncSourceFails, SyncPushTimeout, Answer, ReceivePush, requestVars
<1>3. \A q \in Publishers : q[2] # s => stage'[q] = stage[q]
  BY <1>0 DEF SyncRequest, SyncStep, SyncStart, SyncImport, SyncPush, SyncPushed, SyncAnswer,
         SyncSourceFails, SyncPushTimeout, ReceivePush
<1>4. \A r \in Syncs : r # s => syncState'[r] = syncState[r]
  <2>1. Call(s) \/ Start(s) \/ Settle(s) \/ UNCHANGED lockVars
    BY DEF SyncRequest, SyncStep, SyncStart, SyncImport, SyncPush, SyncPushed, SyncAnswer,
           SyncSourceFails, SyncPushTimeout
  <2> QED
    BY <2>1 DEF Call, Start, Settle, lockVars
<1>5. \A r \in Requests : r # s => ~ Active(r)'
  <2>1. \A r \in Syncs : r # s /\ ~ Unsettled(r) => ~ Unsettled(r)'
    BY <1>4 DEF Unsettled
  <2> HIDE DEF TypeOK, LockTypeOK
  <2> QED
    BY <1>0, <1>1, <1>2, <1>3, <2>1, OthersStillRest
<1>6. Publishing(Own(s))' => pc'[s] = "publish"
  <2>1. CASE SyncRequest(s)
    BY <1>0, <2>1 DEF SyncRequest, Begin, OneByOne, Quiet, Publishing
  <2>2. CASE SyncStart(s)
    BY <1>0, <2>2 DEF SyncStart, Start, LinkInv, SerialInv, Publishing
  <2>3. CASE SyncImport(s) \/ SyncSourceFails(s) \/ SyncPushTimeout(s)
    BY <1>0, <2>3 DEF SyncImport, SyncSourceFails, SyncPushTimeout, SerialInv, Publishing
  <2>4. CASE SyncPush(s)
    BY <1>0, <2>4 DEF SyncPush, ReceivePush, SerialInv, Publishing
  <2>5. CASE SyncPushed(s)
    BY <1>0, <2>5 DEF SyncPushed
  <2>6. CASE SyncAnswer(s)
    BY <1>0, <2>6 DEF SyncAnswer, Finished, Publishing
  <2> QED
    BY <2>1, <2>2, <2>3, <2>4, <2>5, <2>6 DEF SyncStep
<1>7. pc'[s] = "publish" => ~ Publishing(Hook(s))' /\ stage'[Own(s)] # "off" /\ ServedBy(s)'
  <2>1. CASE SyncPushed(s)
    BY <1>0, <2>1 DEF SyncPushed, HookReturned, OneByOne, Finished, Publishing, ServedBy
  <2>2. CASE SyncRequest(s)
    BY <1>0, <2>2 DEF SyncRequest, Begin, requestVars
  <2>3. CASE ~ SyncPushed(s) /\ ~ SyncRequest(s)
    BY <1>0, <2>3 DEF SyncStep, SyncStart, SyncImport, SyncPush, SyncAnswer,
       SyncSourceFails, SyncPushTimeout, Answer, ReceivePush
  <2> QED
    BY <2>1, <2>2, <2>3
<1> QED
  BY <1>0, <1>5, <1>6, <1>7, SerialInvLocal

LEMMA SerialInvPublish ==
    ASSUME TypeOK, SerialInv, NEW p \in Publishers,
           PublishStep(p) \/ PublishUntarFails(p) \/ PublishIndexFails(p)
    PROVE  SerialInv'
<1> USE PublisherParts DEF TypeOK, To
<1> DEFINE r == p[2]
<1>0. r \in Requests
  OBVIOUS
<1>1. Publishing(p)
  BY DEF PublishStep, PublishClear, PublishUntar, PublishIndex, PublishHead,
         PublishUntarFails, PublishIndexFails, Publishing
<1>2. Active(r)
  BY <1>1 DEF Active
<1>3. UNCHANGED <<pc, tree, syncState>>
  BY DEF PublishStep, PublishClear, PublishUntar, PublishIndex, PublishHead,
         PublishUntarFails, PublishIndexFails, repoVars, requestVars, lockVars
<1>4. \A q \in Publishers : q # p => stage'[q] = stage[q]
  BY DEF PublishStep, PublishClear, PublishUntar, PublishIndex, PublishHead,
         PublishUntarFails, PublishIndexFails
<1>5. \A q \in Requests : q # r => ~ Active(q)'
  BY <1>2, <1>3, <1>4, OthersStillRest DEF Unsettled
<1>6. CASE p = Hook(r)
  <2>1. pc[r] # "publish"
    BY <1>0, <1>1, <1>6 DEF SerialInv
  <2>2. ~ Publishing(Own(r))'
    BY <1>0, <1>4, <1>6, <2>1 DEF SerialInv, Publishing
  <2> QED
    BY <1>0, <1>3, <1>5, <2>1, <2>2, SerialInvLocal
<1>7. CASE p = Own(r)
  <2>1. pc[r] = "publish" /\ ServedBy(r) /\ ~ Publishing(Hook(r))
    BY <1>0, <1>1, <1>7 DEF SerialInv
  <2>2. ~ Publishing(Hook(r))' /\ stage'[Own(r)] # "off"
    BY <1>0, <1>4, <1>7, <2>1 DEF Publishing, PublishStep, PublishClear, PublishUntar, PublishIndex,
       PublishHead, PublishUntarFails, PublishIndexFails
  <2>3. ServedBy(r)'
    <3>1. CASE PublishClear(p)
      BY <1>0, <1>7, <2>1, <3>1 DEF PublishClear, ServedBy
    <3>2. CASE PublishUntar(p)
      <4>1. worktree' = tree[r]
        BY <1>0, <1>7, <2>1, <3>2 DEF PublishUntar, ServedBy, Overlay, EmptyTree, Tree
      <4> QED
        BY <1>0, <1>3, <1>7, <2>1, <3>2, <4>1 DEF PublishUntar, ServedBy
    <3>3. CASE PublishIndex(p)
      BY <1>0, <1>3, <1>7, <2>1, <3>3 DEF PublishIndex, ServedBy
    <3>4. CASE PublishHead(p)
      BY <1>0, <1>3, <1>7, <2>1, <3>4 DEF PublishHead, ServedBy
    <3>5. CASE PublishUntarFails(p)
      BY <1>0, <1>3, <1>7, <2>1, <3>5 DEF PublishUntarFails, ServedBy
    <3>6. CASE PublishIndexFails(p)
      BY <1>0, <1>3, <1>7, <2>1, <3>6 DEF PublishIndexFails, ServedBy
    <3> QED
      BY <3>1, <3>2, <3>3, <3>4, <3>5, <3>6 DEF PublishStep
  <2> QED
    BY <1>0, <1>3, <1>5, <2>1, <2>2, <2>3, SerialInvLocal
<1> QED
  BY <1>6, <1>7

LEMMA SerialInvCrash ==
    ASSUME TypeOK, Crash
    PROVE  SerialInv'
<1>1. \A p \in Publishers : ~ Publishing(p)'
  BY DEF TypeOK, Crash, Publishing
<1>2. \A r \in Requests : ~ UnderWay(r)'
  BY DEF TypeOK, LockTypeOK, Crash, LockRestart, UnderWay, Unsettled
<1>3. \A r \in Requests : ~ Active(r)' /\ pc'[r] # "publish"
  BY <1>1, <1>2, PublisherParts DEF Active, UnderWay
<1> QED
  BY <1>1, <1>3, PublisherParts DEF SerialInv

LEMMA SerialInvForget ==
    ASSUME SerialInv, UNCHANGED <<repoVars, servedVars, requestVars, stage, syncState>>
    PROVE  SerialInv'
  BY DEF SerialInv, Active, UnderWay, Publishing, Unsettled, ServedBy,
         repoVars, servedVars, requestVars

LEMMA SerialInvStep ==
    ASSUME OneByOne
    PROVE  TypeOK /\ LinkInv /\ SerialInv /\ [Next]_vars => SerialInv'
<1> SUFFICES ASSUME TypeOK, LinkInv, SerialInv, [Next]_vars PROVE SerialInv'
  OBVIOUS
<1>1. ASSUME NEW s \in Syncs, SyncForget(s) PROVE SerialInv'
  BY <1>1, SerialInvForget DEF SyncForget, Forget
<1>2. CASE UNCHANGED vars
  BY <1>2, SerialInvForget DEF vars, lockVars
<1> QED
  BY <1>1, <1>2, SerialInvEdit, SerialInvClient, SerialInvSync, SerialInvPublish, SerialInvCrash
     DEF Next

\* The step that answers "ok" comes when the request's publication is done.
LEMMA OkStep ==
    ASSUME TypeOK, SerialInv, [Next]_vars,
           NEW r \in Edits \cup Syncs, reply[r] # "ok", reply'[r] = "ok"
    PROVE  worktree = tree[r] /\ index = tree[r] /\ headSha = r
<1> USE DEF TypeOK
<1>0. r \in Requests /\ r \notin Pushes
  BY RepoPublishAssumption DEF Requests
<1>1. pc[r] = "publish" /\ stage[Own(r)] = "done" => worktree = tree[r] /\ index = tree[r] /\ headSha = r
  BY <1>0 DEF SerialInv, ServedBy
<1>2. ASSUME NEW e \in Edits,
             EditClone(e) \/ EditRefuse(e) \/ EditStep(e) \/ EditPushTimeout(e)
      PROVE  pc[r] = "publish" /\ stage[Own(r)] = "done"
  BY <1>0, <1>2 DEF EditClone, EditRefuse, EditStep, EditCommit, EditPush, EditPushed, EditAnswer,
         EditPushTimeout, Answer, ReceivePush, Requests
<1>3. ASSUME NEW p \in Pushes, ClientCommit(p) \/ ClientStep(p) \/ ClientAbort(p)
      PROVE  FALSE
  BY <1>0, <1>3 DEF ClientCommit, ClientStep, ClientPush, ClientPushed, ClientAbort, Answer, Requests
<1>4. ASSUME NEW s \in Syncs,
             \/ SyncRequest(s) \/ SyncStep(s) \/ SyncForget(s)
             \/ SyncSourceFails(s) \/ SyncPushTimeout(s)
      PROVE  pc[r] = "publish" /\ stage[Own(r)] = "done"
  BY <1>0, <1>4 DEF SyncRequest, SyncStep, SyncStart, SyncImport, SyncPush, SyncPushed, SyncAnswer,
         SyncForget, SyncSourceFails, SyncPushTimeout, Answer, requestVars, Requests
<1>5. ASSUME NEW p \in Publishers, PublishStep(p) \/ PublishUntarFails(p) \/ PublishIndexFails(p)
      PROVE  FALSE
  BY <1>5 DEF PublishStep, PublishClear, PublishUntar, PublishIndex, PublishHead,
              PublishUntarFails, PublishIndexFails, requestVars
<1>6. CASE Crash \/ UNCHANGED vars
  BY <1>0, <1>6 DEF Crash, vars, requestVars
<1> QED
  BY <1>1, <1>2, <1>3, <1>4, <1>5, <1>6 DEF Next

\* With requests one at a time, success means served, whatever has failed
\* before: lost hooks, killed pushes, half an extraction or listing, a crash, but
\* not a hook that was cut off from a publication it had started.
THEOREM SerialSuccessIsServed ==
    ASSUME OneByOne
    PROVE  Spec => OkMeansServed
<1>1. Spec => []SerialInv
  <2>1. SerialInv /\ TypeOK /\ LinkInv /\ [Next]_vars => SerialInv'
    BY SerialInvStep
  <2> QED
    BY <2>1, SerialInvInit, PushInvHolds, PTL DEF Spec
<1>2. TypeOK /\ SerialInv /\ [Next]_vars =>
        [\A r \in Edits \cup Syncs :
            reply[r] # "ok" /\ reply'[r] = "ok" =>
                worktree = tree[r] /\ index = tree[r] /\ headSha = r]_vars
  BY OkStep
<1> QED
  BY <1>1, <1>2, PushInvHolds, PTL DEF Spec, OkMeansServed

-----------------------------------------------------------------------------
(* Requests in turn: only imports may wait for one another, the repository has  *)
(* one branch, and nothing goes wrong after a push.                             *)

InTurn == /\ Overlap \subseteq Syncs
          /\ Branches = {MainBranch}
          /\ Faults \subseteq {"sourceFail", "cloneFail"}

Busy(r) == pc[r] \notin {"idle", "done"}
HasPushed(r) == pc[r] \in {"wait", "publish"}

\* What is served while r, whose push went through, is at work: as much of its
\* revision as its two publications have come to.
Reflects(r) ==
    /\ refs[HeadBranch] = r
    /\ stage[Hook(r)] \in {"clear", "untar", "index", "head", "done"}
    /\ stage[Own(r)] \in {"off", "clear", "untar", "index", "head", "done"}
    /\ stage[Hook(r)] = "untar" \/ stage[Own(r)] = "untar" => worktree = EmptyTree
    /\ stage[Hook(r)] \in {"index", "head", "done"} /\ stage[Own(r)] # "untar" => worktree = tree[r]
    /\ stage[Hook(r)] \in {"head", "done"} => index = tree[r]
    /\ stage[Hook(r)] = "done" => headSha = r

\* Each publication runs while its request waits for it.
StagesFit(r) ==
    /\ Publishing(Hook(r)) => pc[r] = "wait"
    /\ Publishing(Own(r)) => pc[r] = "publish"
    /\ pc[r] \in {"idle", "commit", "push", "wait"} => stage[Own(r)] = "off"
    /\ pc[r] = "publish" => stage[Hook(r)] = "done" /\ stage[Own(r)] # "off"

\* All that is derived from a revision is derived from the head.
Settled ==
    /\ headSha = refs[HeadBranch]
    /\ worktree = TreeOf(headSha)
    /\ index = TreeOf(headSha)

TurnInv ==
    /\ \A q, r \in Requests : Busy(q) /\ Busy(r) => q = r
    /\ \A r \in Requests \ Syncs : Busy(r) => \A s \in Syncs : ~ Unsettled(s)
    /\ \A r \in Requests : StagesFit(r)
    /\ \A r \in Requests : HasPushed(r) => Reflects(r)
    /\ (\A r \in Requests : ~ HasPushed(r)) => Settled

\* While a request is at work, or about to begin, no other one has anything
\* under way: it is enough to look at the request that takes the step.
LEMMA TurnInvLocal ==
    ASSUME TypeOK, TurnInv, NEW q \in Requests,
           \A r \in Requests : r # q => ~ Busy(r) /\ pc'[r] = pc[r],
           \A p \in Publishers : p[2] # q => stage'[p] = stage[p],
           q \notin Syncs /\ Busy(q)' => \A s \in Syncs : ~ Unsettled(s)',
           StagesFit(q)', HasPushed(q)' => Reflects(q)', ~ HasPushed(q)' => Settled'
    PROVE  TurnInv'
<1>1. \A r \in Requests : r # q => ~ Busy(r)' /\ ~ HasPushed(r)'
  BY DEF Busy, HasPushed
<1>2. \A r \in Requests : StagesFit(r)'
  <2> SUFFICES ASSUME NEW r \in Requests, r # q PROVE StagesFit(r)'
    OBVIOUS
  <2>1. stage'[Hook(r)] = stage[Hook(r)] /\ stage'[Own(r)] = stage[Own(r)] /\ pc'[r] = pc[r]
    BY PublisherParts
  <2> QED
    BY <2>1 DEF TurnInv, StagesFit, Publishing
<1> QED
  BY <1>1, <1>2 DEF TurnInv

LEMMA TurnInvInit == Init => TurnInv
  BY PublisherParts, RepoPublishAssumption
     DEF Init, TurnInv, Busy, HasPushed, StagesFit, Settled, Publishing, TreeOf, Requests

\* Before q has pushed, its commit is not the head: what is served does not
\* change when q commits.
LEMMA CommitKeepsSettled ==
    ASSUME TypeOK, PushInv, TurnInv, NEW q \in Requests, q \notin pushed,
           \A r \in Requests : ~ HasPushed(r),
           UNCHANGED <<refs, worktree, index, headSha>>,
           \A r \in Requests : r # q => tree'[r] = tree[r]
    PROVE  Settled'
<1>1. headSha \in pushed \cup {NoCommit}
  BY DEF PushInv, ServedInv
<1>2. TreeOf(headSha)' = TreeOf(headSha)
  BY <1>1 DEF TreeOf, TypeOK
<1> QED
  BY <1>2 DEF TurnInv, Settled

\* A push to the one branch there is.
LEMMA PushReflects ==
    ASSUME TypeOK, TurnInv, InTurn, NEW q \in Requests, pc[q] = "push",
           NEW b \in Branches, NEW force, ReceivePush(q, b, force), UNCHANGED servedVars
    PROVE  StagesFit(q)' /\ Reflects(q)' /\ HasPushed(q)'
<1>1. stage[Own(q)] = "off" /\ stage'[Own(q)] = stage[Own(q)] /\ stage'[Hook(q)] = "clear"
  BY PublisherParts DEF TypeOK, TurnInv, StagesFit, ReceivePush, InTurn
<1>2. pc'[q] = "wait" /\ refs'[HeadBranch] = q
  BY RepoPublishAssumption DEF TypeOK, ReceivePush, InTurn
<1> QED
  BY <1>1, <1>2 DEF StagesFit, Reflects, HasPushed, Publishing

\* Once its publications are done, the request leaves everything settled.
LEMMA DoneSettles ==
    ASSUME TypeOK, NEW q \in Requests, Reflects(q), stage[Hook(q)] = "done",
           stage[Own(q)] \in {"off", "done"}
    PROVE  Settled
  BY RepoPublishAssumption DEF Reflects, Settled, TreeOf

LEMMA TurnInvEdit ==
    ASSUME TypeOK, PushInv, TurnInv, InTurn, NEW e \in Edits,
           EditClone(e) \/ EditRefuse(e) \/ EditStep(e) \/ EditPushTimeout(e)
    PROVE  TurnInv'
<1> USE PublisherParts DEF TypeOK
<1>0. e \in Requests /\ e \notin Syncs
  BY RepoPublishAssumption DEF Requests
<1>1. Busy(e) \/ Quiet
  BY <1>0 DEF EditClone, EditRefuse, EditStep, EditCommit, EditPush, EditPushed, EditAnswer,
         EditPushTimeout, Begin, Busy, InTurn
<1>2. \A r \in Requests : r # e => ~ Busy(r) /\ ~ HasPushed(r) /\ pc'[r] = pc[r]
  <2>1. \A r \in Requests : r # e => pc'[r] = pc[r]
    BY <1>0 DEF EditClone, EditRefuse, EditStep, EditCommit, EditPush, EditPushed, EditAnswer,
           EditPushTimeout, Answer, ReceivePush
  <2> QED
    BY <1>0, <1>1, <2>1 DEF TurnInv, Busy, HasPushed, Quiet, UnderWay
<1>3. \A p \in Publishers : p[2] # e => stage'[p] = stage[p]
  BY <1>0 DEF EditClone, EditRefuse, EditStep, EditCommit, EditPush, EditPushed, EditAnswer,
         EditPushTimeout, ReceivePush
<1>4. \A s \in Syncs : ~ Unsettled(s)'
  <2>1. UNCHANGED syncState
    BY DEF EditClone, EditRefuse, EditStep, EditCommit, EditPush, EditPushed, EditAnswer,
           EditPushTimeout, lockVars
  <2>2. \A s \in Syncs : ~ Unsettled(s)
    BY <1>0, <1>1 DEF TurnInv, Quiet, UnderWay, Requests
  <2> QED
    BY <2>1, <2>2 DEF Unsettled
<1>5. ~ HasPushed(e) => Settled
  BY <1>2 DEF TurnInv
<1>6. StagesFit(e) /\ (HasPushed(e) => Reflects(e))
  BY <1>0 DEF TurnInv
<1>7. StagesFit(e)' /\ (HasPushed(e)' => Reflects(e)') /\ (~ HasPushed(e)' => Settled')
  <2>1. CASE EditClone(e) \/ EditRefuse(e)
    <3>1. ~ HasPushed(e) /\ pc'[e] \in {"commit", "done"} /\ UNCHANGED <<repoVars, servedVars, stage>>
      BY <1>0, <2>1 DEF EditClone, EditRefuse, Begin, Answer, HasPushed
    <3>2. ~ Publishing(Hook(e)) /\ ~ Publishing(Own(e)) /\ stage[Own(e)] = "off"
      BY <1>0, <1>6, <2>1 DEF StagesFit, EditClone, EditRefuse, Begin
    <3> QED
      BY <1>5, <3>1, <3>2 DEF StagesFit, HasPushed, Settled, TreeOf, Publishing, repoVars, servedVars
  <2>2. CASE EditCommit(e)
    <3>1. pc[e] = "commit" /\ pc'[e] \in {"push", "done"} /\ UNCHANGED <<refs, servedVars, stage>>
      BY <1>0, <2>2 DEF EditCommit, Answer
    <3>2. \A r \in Requests : r # e => tree'[r] = tree[r]
      BY <1>0, <2>2 DEF EditCommit, Commit
    <3>3. e \notin pushed
      BY <1>0, <3>1 DEF PushInv, ProgressInv
    <3>4. Settled'
      BY <1>0, <1>2, <3>1, <3>2, <3>3, CommitKeepsSettled DEF HasPushed, servedVars
    <3> QED
      BY <1>6, <3>1, <3>4 DEF StagesFit, HasPushed, Publishing
  <2>3. CASE EditPush(e)
    <3>1. CASE ReceivePush(e, HeadBranch, FALSE)
      BY <1>0, <2>3, <3>1, PushReflects, RepoPublishAssumption DEF EditPush
    <3>2. CASE Answer(e, "rejected") /\ UNCHANGED <<repoVars, stage>>
      <4>1. ~ HasPushed(e) /\ pc'[e] = "done" /\ UNCHANGED <<repoVars, servedVars, stage>>
        BY <1>0, <2>3, <3>2 DEF EditPush, Answer, HasPushed
      <4> QED
        BY <1>5, <1>6, <2>3, <4>1
           DEF EditPush, StagesFit, HasPushed, Settled, TreeOf, Publishing, repoVars, servedVars
    <3> QED
      BY <2>3, <3>1, <3>2 DEF EditPush
  <2>4. CASE EditPushed(e)
    <3>1. pc[e] = "wait" /\ pc'[e] = "publish" /\ stage[Hook(e)] = "done"
          /\ stage' = [stage EXCEPT ![Own(e)] = "clear"]
          /\ UNCHANGED <<repoVars, worktree, index>> /\ headSha' = e
      BY <1>0, <1>6, <2>4 DEF EditPushed, HookReturned, InTurn, Finished, HasPushed, Reflects
    <3> QED
      BY <1>0, <1>6, <3>1 DEF StagesFit, HasPushed, Reflects, Publishing, repoVars
  <2>5. CASE EditAnswer(e)
    <3>1. pc[e] = "publish" /\ pc'[e] = "done" /\ UNCHANGED <<repoVars, servedVars, stage>>
      BY <1>0, <2>5 DEF EditAnswer, Answer
    <3>2. stage[Hook(e)] = "done" /\ stage[Own(e)] = "done"
      BY <1>0, <1>6, <2>5 DEF EditAnswer, Finished, HasPushed, StagesFit, Reflects
    <3>3. Settled
      BY <1>0, <1>6, <3>1, <3>2, DoneSettles DEF HasPushed
    <3> QED
      BY <3>1, <3>2, <3>3 DEF StagesFit, HasPushed, Settled, TreeOf, Publishing, repoVars, servedVars
  <2>6. CASE EditPushTimeout(e)
    BY <2>6 DEF EditPushTimeout, InTurn
  <2> QED
    BY <2>1, <2>2, <2>3, <2>4, <2>5, <2>6 DEF EditStep
<1> QED
  BY <1>0, <1>2, <1>3, <1>4, <1>7, TurnInvLocal

LEMMA TurnInvClient ==
    ASSUME TypeOK, PushInv, TurnInv, InTurn, NEW p \in Pushes,
           ClientCommit(p) \/ ClientStep(p) \/ ClientAbort(p)
    PROVE  TurnInv'
<1> USE PublisherParts DEF TypeOK
<1>0. p \in Requests /\ p \notin Syncs
  BY RepoPublishAssumption DEF Requests
<1>1. Busy(p) \/ Quiet
  BY <1>0 DEF ClientCommit, ClientStep, ClientPush, ClientPushed, ClientAbort, Begin, Busy, InTurn
<1>2. \A r \in Requests : r # p => ~ Busy(r) /\ ~ HasPushed(r) /\ pc'[r] = pc[r]
  <2>1. \A r \in Requests : r # p => pc'[r] = pc[r]
    BY <1>0 DEF ClientCommit, ClientStep, ClientPush, ClientPushed, ClientAbort, Answer, ReceivePush
  <2> QED
    BY <1>0, <1>1, <2>1 DEF TurnInv, Busy, HasPushed, Quiet, UnderWay
<1>3. \A q \in Publishers : q[2] # p => stage'[q] = stage[q]
  BY <1>0 DEF ClientCommit, ClientStep, ClientPush, ClientPushed, ClientAbort, ReceivePush
<1>4. \A s \in Syncs : ~ Unsettled(s)'
  <2>1. UNCHANGED syncState
    BY DEF ClientCommit, ClientStep, ClientPush, ClientPushed, ClientAbort, lockVars
  <2>2. \A s \in Syncs : ~ Unsettled(s)
    BY <1>0, <1>1 DEF TurnInv, Quiet, UnderWay, Requests
  <2> QED
    BY <2>1, <2>2 DEF Unsettled
<1>5. ~ HasPushed(p) => Settled
  BY <1>2 DEF TurnInv
<1>6. StagesFit(p) /\ (HasPushed(p) => Reflects(p))
  BY <1>0 DEF TurnInv
<1>7. StagesFit(p)' /\ (HasPushed(p)' => Reflects(p)') /\ (~ HasPushed(p)' => Settled')
  <2>1. CASE ClientCommit(p)
    <3>1. pc[p] = "idle" /\ pc'[p] = "push" /\ UNCHANGED <<refs, servedVars, stage>>
      BY <1>0, <2>1 DEF ClientCommit, Begin
    <3>2. \A r \in Requests : r # p => tree'[r] = tree[r]
      BY <1>0, <2>1 DEF ClientCommit, Commit
    <3>3. p \notin pushed
      BY <1>0, <3>1 DEF PushInv, ProgressInv
    <3>4. Settled'
      BY <1>0, <1>2, <3>1, <3>2, <3>3, CommitKeepsSettled DEF HasPushed, servedVars
    <3> QED
      BY <1>6, <3>1, <3>4 DEF StagesFit, HasPushed, Publishing
  <2>2. CASE ClientPush(p)
    <3>1. PICK b \in Branches, force \in BOOLEAN :
            \/ ReceivePush(p, b, force)
            \/ Answer(p, "rejected") /\ UNCHANGED <<repoVars, stage>>
      BY <2>2 DEF ClientPush
    <3>2. CASE ReceivePush(p, b, force)
      BY <1>0, <2>2, <3>2, PushReflects DEF ClientPush
    <3>3. CASE Answer(p, "rejected") /\ UNCHANGED <<repoVars, stage>>
      <4>1. ~ HasPushed(p) /\ pc'[p] = "done" /\ UNCHANGED <<repoVars, servedVars, stage>>
        BY <1>0, <2>2, <3>3 DEF ClientPush, Answer, HasPushed
      <4> QED
        BY <1>5, <1>6, <2>2, <4>1
           DEF ClientPush, StagesFit, HasPushed, Settled, TreeOf, Publishing, repoVars, servedVars
    <3> QED
      BY <3>1, <3>2, <3>3
  <2>3. CASE ClientPushed(p)
    <3>1. pc[p] = "wait" /\ pc'[p] = "done" /\ UNCHANGED <<repoVars, servedVars, stage>>
      BY <1>0, <2>3 DEF ClientPushed, Answer
    <3>2. stage[Hook(p)] = "done" /\ stage[Own(p)] = "off"
      BY <1>0, <1>6, <2>3 DEF ClientPushed, HookReturned, InTurn, Finished, HasPushed, StagesFit, Reflects
    <3>3. Settled
      BY <1>0, <1>6, <3>1, <3>2, DoneSettles DEF HasPushed
    <3> QED
      BY <3>1, <3>2, <3>3 DEF StagesFit, HasPushed, Settled, TreeOf, Publishing, repoVars, servedVars
  <2>4. CASE ClientAbort(p)
    BY <2>4 DEF ClientAbort, InTurn
  <2> QED
    BY <2>1, <2>2, <2>3, <2>4 DEF ClientStep
<1> QED
  BY <1>0, <1>2, <1>3, <1>4, <1>7, TurnInvLocal

LEMMA TurnInvSync ==
    ASSUME TypeOK, PushInv, LockTypeOK, SyncsSerialized', LinkInv, TurnInv, InTurn, NEW s \in Syncs,
           SyncStep(s) \/ SyncSourceFails(s) \/ SyncPushTimeout(s)
    PROVE  TurnInv'
<1> USE PublisherParts DEF TypeOK
<1>0. s \in Requests /\ s \notin Edits
  BY RepoPublishAssumption DEF Requests
<1>1. \A r \in Requests : r # s => pc'[r] = pc[r]
  BY <1>0 DEF SyncStep, SyncStart, SyncImport, SyncPush, SyncPushed, SyncAnswer,
         SyncSourceFails, SyncPushTimeout, Answer, ReceivePush
<1>2. \A r \in Requests : r # s => ~ Busy(r) /\ ~ HasPushed(r)
  <2>1. CASE SyncStart(s)
    <3>1. \A r \in Requests \ Syncs : ~ Busy(r)
      BY <2>1 DEF SyncStart, Start, TurnInv, Unsettled
    <3>2. \A r \in Syncs : Busy(r) => syncState[r] = "running"
      BY DEF LinkInv, Busy, Requests, PcStates
    <3>3. \A r \in Syncs : Busy(r) /\ r # s => syncState'[r] = "running" /\ syncState'[s] = "running"
      BY <2>1, <3>2 DEF SyncStart, Start, LockTypeOK
    <3>4. \A r \in Syncs : r # s => ~ Busy(r)
      BY <3>3 DEF SyncsSerialized
    <3> QED
      BY <3>1, <3>4 DEF Busy, HasPushed
  <2>2. CASE ~ SyncStart(s)
    <3>1. Busy(s)
      BY <2>2 DEF SyncStep, SyncImport, SyncPush, SyncPushed, SyncAnswer, SyncSourceFails,
             SyncPushTimeout, Busy
    <3> QED
      BY <1>0, <3>1 DEF TurnInv, Busy, HasPushed
  <2> QED
    BY <2>1, <2>2
<1>3. \A p \in Publishers : p[2] # s => stage'[p] = stage[p]
  BY <1>0 DEF SyncStep, SyncStart, SyncImport, SyncPush, SyncPushed, SyncAnswer,
         SyncSourceFails, SyncPushTimeout, ReceivePush
<1>5. ~ HasPushed(s) => Settled
  BY <1>2 DEF TurnInv
<1>6. StagesFit(s) /\ (HasPushed(s) => Reflects(s))
  BY <1>0 DEF TurnInv
<1>7. StagesFit(s)' /\ (HasPushed(s)' => Reflects(s)') /\ (~ HasPushed(s)' => Settled')
  <2>1. CASE SyncStart(s) \/ SyncSourceFails(s)
    <3>1. pc[s] \in {"idle", "commit"} /\ pc'[s] \in {"commit", "done"}
          /\ UNCHANGED <<repoVars, servedVars, stage>>
      BY <1>0, <2>1 DEF SyncStart, Start, SyncSourceFails, Answer, LinkInv
    <3> QED
      BY <1>5, <1>6, <3>1
         DEF StagesFit, HasPushed, Settled, TreeOf, Publishing, repoVars, servedVars
  <2>2. CASE SyncImport(s)
    <3>1. pc[s] = "commit" /\ pc'[s] = "push" /\ UNCHANGED <<refs, servedVars, stage>>
      BY <1>0, <2>2 DEF SyncImport
    <3>2. \A r \in Requests : r # s => tree'[r] = tree[r]
      BY <1>0, <2>2 DEF SyncImport, Commit
    <3>3. s \notin pushed
      BY <1>0, <3>1 DEF PushInv, ProgressInv
    <3>4. Settled'
      BY <1>0, <1>2, <3>1, <3>2, <3>3, CommitKeepsSettled DEF HasPushed, servedVars
    <3> QED
      BY <1>6, <3>1, <3>4 DEF StagesFit, HasPushed, Publishing
  <2>3. CASE SyncPush(s)
    BY <1>0, <2>3, PushReflects, RepoPublishAssumption DEF SyncPush
  <2>4. CASE SyncPushed(s)
    <3>1. pc[s] = "wait" /\ pc'[s] = "publish" /\ stage[Hook(s)] = "done"
          /\ stage' = [stage EXCEPT ![Own(s)] = "clear"]
          /\ UNCHANGED <<repoVars, servedVars>>
      BY <1>0, <1>6, <2>4 DEF SyncPushed, HookReturned, InTurn, Finished, HasPushed, Reflects
    <3> QED
      BY <1>0, <1>6, <3>1 DEF StagesFit, HasPushed, Reflects, Publishing, repoVars, servedVars
  <2>5. CASE SyncAnswer(s)
    <3>1. pc[s] = "publish" /\ pc'[s] = "done" /\ UNCHANGED <<repoVars, servedVars, stage>>
      BY <1>0, <2>5 DEF SyncAnswer, Answer
    <3>2. stage[Hook(s)] = "done" /\ stage[Own(s)] = "done"
      BY <1>0, <1>6, <2>5 DEF SyncAnswer, Finished, HasPushed, StagesFit, Reflects
    <3>3. Settled
      BY <1>0, <1>6, <3>1, <3>2, DoneSettles DEF HasPushed
    <3> QED
      BY <3>1, <3>2, <3>3 DEF StagesFit, HasPushed, Settled, TreeOf, Publishing, repoVars, servedVars
  <2>6. CASE SyncPushTimeout(s)
    BY <2>6 DEF SyncPushTimeout, InTurn
  <2> QED
    BY <2>1, <2>2, <2>3, <2>4, <2>5, <2>6 DEF SyncStep
<1> QED
  BY <1>0, <1>1, <1>2, <1>3, <1>7, TurnInvLocal

\* Asking for an import, and forgetting one, touches nothing but the lock.
LEMMA TurnInvQueue ==
    ASSUME TypeOK, TurnInv, InTurn, NEW s \in Syncs, SyncRequest(s) \/ SyncForget(s)
    PROVE  TurnInv'
<1>1. UNCHANGED <<repoVars, servedVars, requestVars, stage>>
  BY DEF SyncRequest, SyncForget
<1>2. CASE SyncForget(s)
  BY <1>1, <1>2 DEF SyncForget, Forget, TurnInv, Busy, HasPushed, StagesFit, Reflects, Settled,
     Publishing, Unsettled, TreeOf, repoVars, servedVars, requestVars
<1>3. CASE SyncRequest(s)
  <2>1. \A r \in Requests \ Syncs : ~ Busy(r)
    BY <1>3 DEF SyncRequest, Begin, Quiet, UnderWay, Busy, InTurn
  <2> QED
    BY <1>1, <2>1 DEF TurnInv, Busy, HasPushed, StagesFit, Reflects, Settled,
       Publishing, TreeOf, repoVars, servedVars, requestVars
<1> QED
  BY <1>2, <1>3

LEMMA TurnInvPublish ==
    ASSUME TypeOK, TurnInv, InTurn, NEW p \in Publishers,
           PublishStep(p) \/ PublishUntarFails(p) \/ PublishIndexFails(p)
    PROVE  TurnInv'
<1> USE PublisherParts DEF TypeOK, To
<1> DEFINE r == p[2]
<1>0. r \in Requests /\ (p = Hook(r) \/ p = Own(r))
  OBVIOUS
<1>1. CASE PublishUntarFails(p) \/ PublishIndexFails(p)
  BY <1>1 DEF PublishUntarFails, PublishIndexFails, InTurn
<1>2. CASE PublishStep(p)
  <2>1. Publishing(p) /\ UNCHANGED <<repoVars, requestVars, syncState>>
    BY <1>2 DEF PublishStep, PublishClear, PublishUntar, PublishIndex, PublishHead, Publishing, lockVars
  <2>2. HasPushed(r) /\ StagesFit(r) /\ Reflects(r)
    BY <1>0, <2>1 DEF TurnInv, StagesFit, HasPushed
  <2>3. \A q \in Requests : q # r => ~ Busy(q) /\ ~ HasPushed(q) /\ pc'[q] = pc[q]
    BY <1>0, <2>1, <2>2 DEF TurnInv, Busy, HasPushed, requestVars
  <2>4. \A q \in Publishers : q # p => stage'[q] = stage[q]
    BY <1>2 DEF PublishStep, PublishClear, PublishUntar, PublishIndex, PublishHead
  <2>5. r \notin Syncs /\ Busy(r)' => \A s \in Syncs : ~ Unsettled(s)'
    BY <1>0, <2>1 DEF TurnInv, Busy, Unsettled, requestVars
  <2>6. p = Hook(r) => pc[r] = "wait" /\ stage[Own(r)] = "off"
    BY <1>0, <2>1, <2>2 DEF StagesFit
  <2>7. p = Own(r) => pc[r] = "publish" /\ stage[Hook(r)] = "done"
    BY <1>0, <2>1, <2>2 DEF StagesFit
  <2>8. StagesFit(r)' /\ Reflects(r)'
    <3>1. CASE PublishClear(p)
      BY <1>0, <2>1, <2>2, <2>4, <2>6, <2>7, <3>1
         DEF PublishClear, StagesFit, Reflects, Publishing, repoVars, requestVars
    <3>2. CASE PublishUntar(p)
      <4>1. worktree' = tree[r]
        BY <1>0, <2>2, <3>2 DEF PublishUntar, Reflects, Overlay, EmptyTree, Tree
      <4> QED
        BY <1>0, <2>1, <2>2, <2>4, <2>6, <2>7, <3>2, <4>1
           DEF PublishUntar, StagesFit, Reflects, Publishing, repoVars, requestVars
    <3>3. CASE PublishIndex(p)
      <4>1. stage'[p] \in {"done", "head"} /\ (p = Hook(r) => stage'[p] = "head") /\ index' = tree[r]
        BY <1>0, <3>3 DEF PublishIndex
      <4> QED
        BY <1>0, <2>1, <2>2, <2>4, <2>6, <2>7, <3>3, <4>1
           DEF PublishIndex, StagesFit, Reflects, Publishing, repoVars, requestVars
    <3>4. CASE PublishHead(p)
      BY <1>0, <2>1, <2>2, <2>4, <2>6, <2>7, <3>4
         DEF PublishHead, StagesFit, Reflects, Publishing, repoVars, requestVars
    <3> QED
      BY <1>2, <3>1, <3>2, <3>3, <3>4 DEF PublishStep
  <2>9. HasPushed(r)'
    BY <2>1, <2>2 DEF HasPushed, requestVars
  <2> QED
    BY <1>0, <2>3, <2>4, <2>5, <2>8, <2>9, TurnInvLocal
<1> QED
  BY <1>1, <1>2

LEMMA TurnInvStep ==
    ASSUME InTurn
    PROVE  /\ TypeOK /\ PushInv /\ LockInv /\ SyncsSerialized' /\ LinkInv /\ TurnInv
           /\ [Next]_vars
           => TurnInv'
<1> SUFFICES ASSUME TypeOK, PushInv, LockInv, SyncsSerialized', LinkInv, TurnInv, [Next]_vars
             PROVE  TurnInv'
  OBVIOUS
<1>1. CASE Crash
  BY <1>1 DEF Crash, InTurn
<1>2. CASE UNCHANGED vars
  BY <1>2 DEF TurnInv, Busy, HasPushed, StagesFit, Reflects, Settled, Publishing, Unsettled, TreeOf,
     vars, repoVars, servedVars, requestVars, lockVars
<1> QED
  BY <1>1, <1>2, TurnInvEdit, TurnInvClient, TurnInvSync, TurnInvQueue, TurnInvPublish
     DEF Next, LockInv

LEMMA TurnInvHolds ==
    ASSUME InTurn
    PROVE  Spec => [](TypeOK /\ PushInv /\ LinkInv /\ TurnInv)
<1>1. TypeOK /\ PushInv /\ LockInv /\ SyncsSerialized' /\ LinkInv /\ TurnInv /\ [Next]_vars => TurnInv'
  BY TurnInvStep
<1>2. LockInv => SyncsSerialized
  BY LockInvConsequences
<1> QED
  BY <1>1, <1>2, TurnInvInit, PushInvHolds, PTL DEF Spec

\* When nothing is under way, no request is between its push and its answer.
LEMMA QuietSettled ==
    ASSUME TurnInv, Quiet
    PROVE  Settled
  BY DEF TurnInv, Quiet, UnderWay, HasPushed

\* Requests in turn leave the worktree, the listing and head_sha derived from
\* one revision, whatever GitHub or a clone did: the two publications of a push,
\* by its hook and by its request, come to the same.
THEOREM TurnsAgree ==
    ASSUME InTurn
    PROVE  Spec => []DerivedStateAgrees
<1>1. TurnInv => DerivedStateAgrees
  BY QuietSettled DEF DerivedStateAgrees, Settled
<1> QED
  BY <1>1, TurnInvHolds, PTL

\* ... and that revision is the head of the repository (product-guide.md:5).
THEOREM TurnsServeLatest ==
    ASSUME InTurn
    PROVE  Spec => []ServesLatest
<1>1. TurnInv => ServesLatest
  BY QuietSettled DEF ServesLatest, Settled
<1> QED
  BY <1>1, TurnInvHolds, PTL

\* An edit that begins while nothing is under way edits the tree that its user
\* is being served, as long as its clone succeeds.
THEOREM TurnsEditTheServed ==
    ASSUME InTurn, "cloneFail" \notin Faults
    PROVE  Spec => EditsStartFromServed
<1>1. ASSUME TypeOK, LinkInv, TurnInv, [Next]_vars, NEW e \in Edits, Quiet, pc[e] = "idle", pc'[e] = "commit"
      PROVE  TreeOf(base'[e]) = worktree
  <2> USE DEF TypeOK
  <2>0. e \in Requests /\ e \notin Syncs /\ e \notin Pushes
    BY RepoPublishAssumption DEF Requests
  <2>1. EditClone(e)
    <3>1. ASSUME NEW d \in Edits, EditClone(d) \/ EditRefuse(d) \/ EditStep(d) \/ EditPushTimeout(d)
          PROVE  EditClone(e)
      BY <1>1, <2>0, <3>1 DEF EditClone, EditRefuse, EditStep, EditCommit, EditPush, EditPushed,
         EditAnswer, EditPushTimeout, Answer, ReceivePush, Requests
    <3>2. ASSUME NEW p \in Pushes, ClientCommit(p) \/ ClientStep(p) \/ ClientAbort(p)
          PROVE  FALSE
      BY <1>1, <2>0, <3>2 DEF ClientCommit, ClientStep, ClientPush, ClientPushed, ClientAbort,
         Answer, ReceivePush, Requests
    <3>3. ASSUME NEW s \in Syncs, SyncRequest(s) \/ SyncStep(s) \/ SyncForget(s)
                                  \/ SyncSourceFails(s) \/ SyncPushTimeout(s)
          PROVE  FALSE
      BY <1>1, <2>0, <3>3 DEF SyncRequest, SyncStep, SyncStart, SyncImport, SyncPush, SyncPushed,
         SyncAnswer, SyncForget, SyncSourceFails, SyncPushTimeout, Answer, ReceivePush, requestVars,
         Requests
    <3>4. ASSUME NEW p \in Publishers, PublishStep(p) \/ PublishUntarFails(p) \/ PublishIndexFails(p)
          PROVE  FALSE
      BY <1>1, <3>4 DEF PublishStep, PublishClear, PublishUntar, PublishIndex, PublishHead,
         PublishUntarFails, PublishIndexFails, requestVars
    <3>5. CASE Crash \/ UNCHANGED vars
      BY <1>1, <3>5 DEF Crash, InTurn, vars, requestVars
    <3> QED
      BY <1>1, <3>1, <3>2, <3>3, <3>4, <3>5 DEF Next
  <2>2. base'[e] = refs[HeadBranch]
    BY <1>1, <2>0, <2>1 DEF EditClone
  <2> QED
    BY <1>1, <2>2, QuietSettled DEF Settled
<1>2. TypeOK /\ LinkInv /\ TurnInv /\ [Next]_vars =>
        [\A e \in Edits : Quiet /\ pc[e] = "idle" /\ pc'[e] = "commit" =>
             TreeOf(base'[e]) = worktree]_vars
  BY <1>1
<1> QED
  BY <1>2, TurnInvHolds, PTL DEF Spec, EditsStartFromServed

-----------------------------------------------------------------------------
(* The refinement of PublishedRepo, step by step. *)

\* A commit that is not pushed yet is not the latest tree.
LEMMA CommitKeepsLatest ==
    ASSUME TypeOK, PushInv, NEW q \in Requests, q \notin pushed, UNCHANGED refs,
           \A r \in Requests : r # q => tree'[r] = tree[r]
    PROVE  TreeOf(refs[HeadBranch])' = TreeOf(refs[HeadBranch])
<1>1. refs[HeadBranch] \in pushed \cup {NoCommit}
  BY RepoPublishAssumption DEF PushInv, HistoryInv
<1> QED
  BY <1>1 DEF TreeOf, TypeOK

\* Only a publication writes what is served; every other step at most accepts a
\* new revision.
LEMMA RequestsAccept ==
    ASSUME TypeOK, PushInv, TypeOK', NEW q \in Requests,
           UNCHANGED <<worktree, index>>,
           \/ UNCHANGED <<refs, tree>>
           \/ \E b \in Branches, force \in BOOLEAN : ReceivePush(q, b, force)
           \/ q \notin pushed /\ UNCHANGED refs /\ \E t, c : Commit(q, t, c)
    PROVE  [Published!PublishedNext]_(Published!publishedVars)
<1> USE DEF TypeOK
<1>1. TreeOf(refs[HeadBranch])' \in Tree
  BY TreeOperations, RepoPublishAssumption DEF TreeOf, Commits
<1>2. CASE UNCHANGED <<refs, tree>>
  BY <1>2 DEF TreeOf, Published!publishedVars
<1>3. CASE \E b \in Branches, force \in BOOLEAN : ReceivePush(q, b, force)
  BY <1>1 DEF Published!PublishedNext, Published!Accept
<1>4. CASE q \notin pushed /\ UNCHANGED refs /\ \E t, c : Commit(q, t, c)
  <2>1. \A r \in Requests : r # q => tree'[r] = tree[r]
    BY <1>4 DEF Commit
  <2> QED
    BY <1>4, <2>1, CommitKeepsLatest DEF Published!publishedVars
<1> QED
  BY <1>2, <1>3, <1>4

LEMMA PublicationsServe ==
    ASSUME TypeOK, TurnInv, InTurn, NEW p \in Publishers,
           PublishStep(p) \/ PublishUntarFails(p) \/ PublishIndexFails(p)
    PROVE  [Published!PublishedNext]_(Published!publishedVars)
<1> USE PublisherParts DEF TypeOK, To
<1> DEFINE r == p[2]
<1>0. r \in Requests /\ (p = Hook(r) \/ p = Own(r))
  OBVIOUS
<1>1. CASE PublishUntarFails(p) \/ PublishIndexFails(p)
  BY <1>1 DEF PublishUntarFails, PublishIndexFails, InTurn
<1>2. CASE PublishStep(p)
  <2>1. Publishing(p) /\ UNCHANGED repoVars
    BY <1>2 DEF PublishStep, PublishClear, PublishUntar, PublishIndex, PublishHead, Publishing
  <2>2. refs[HeadBranch] = r /\ Reflects(r)
    BY <1>0, <2>1 DEF TurnInv, StagesFit, HasPushed, Reflects
  <2>3. TreeOf(refs[HeadBranch]) = tree[r]
    BY <1>0, <2>2, RepoPublishAssumption DEF TreeOf
  <2>4. UNCHANGED TreeOf(refs[HeadBranch])
    BY <2>1 DEF TreeOf, repoVars
  <2>5. CASE PublishClear(p)
    BY <2>4, <2>5 DEF PublishClear, Published!PublishedNext, Published!Withdraw
  <2>6. CASE PublishUntar(p)
    <3>1. worktree = EmptyTree
      BY <1>0, <2>2, <2>6 DEF PublishUntar, Reflects
    <3>2. worktree' = tree[r]
      BY <1>0, <2>6, <3>1 DEF PublishUntar, Overlay, EmptyTree, Tree
    <3> QED
      BY <2>3, <2>4, <2>6, <3>2 DEF PublishUntar, Published!PublishedNext, Published!Serve
  <2>7. CASE PublishIndex(p)
    BY <2>3, <2>4, <2>7 DEF PublishIndex, Published!PublishedNext, Published!List
  <2>8. CASE PublishHead(p)
    BY <2>4, <2>8 DEF PublishHead, Published!publishedVars
  <2> QED
    BY <1>2, <2>5, <2>6, <2>7, <2>8 DEF PublishStep
<1> QED
  BY <1>1, <1>2

\* What changes the repository without publishing.
LEMMA RequestKinds ==
    ASSUME TypeOK, PushInv,
           \/ \E e \in Edits : EditClone(e) \/ EditRefuse(e) \/ EditStep(e) \/ EditPushTimeout(e)
           \/ \E p \in Pushes : ClientCommit(p) \/ ClientStep(p) \/ ClientAbort(p)
           \/ \E s \in Syncs : \/ SyncRequest(s) \/ SyncStep(s) \/ SyncForget(s)
                               \/ SyncSourceFails(s) \/ SyncPushTimeout(s)
    PROVE  /\ UNCHANGED <<worktree, index>>
           /\ \E q \in Requests :
                \/ UNCHANGED <<refs, tree>>
                \/ \E b \in Branches, force \in BOOLEAN : ReceivePush(q, b, force)
                \/ q \notin pushed /\ UNCHANGED refs /\ \E t, c : Commit(q, t, c)
<1> USE RepoPublishAssumption DEF TypeOK, Requests, PushInv, ProgressInv
<1>1. ASSUME NEW e \in Edits, EditClone(e) \/ EditRefuse(e) \/ EditStep(e) \/ EditPushTimeout(e)
      PROVE  /\ UNCHANGED <<worktree, index>>
             /\ \/ UNCHANGED <<refs, tree>>
                \/ \E b \in Branches, force \in BOOLEAN : ReceivePush(e, b, force)
                \/ e \notin pushed /\ UNCHANGED refs /\ \E t, c : Commit(e, t, c)
  <2>1. CASE EditClone(e) \/ EditRefuse(e) \/ EditPushed(e) \/ EditAnswer(e) \/ EditPushTimeout(e)
    BY <2>1 DEF EditClone, EditRefuse, EditPushed, EditAnswer, EditPushTimeout, repoVars, servedVars
  <2>2. CASE EditCommit(e)
    BY <2>2 DEF EditCommit, servedVars
  <2>3. CASE EditPush(e)
    BY <2>3 DEF EditPush, repoVars, servedVars
  <2> QED
    BY <1>1, <2>1, <2>2, <2>3 DEF EditStep
<1>2. ASSUME NEW p \in Pushes, ClientCommit(p) \/ ClientStep(p) \/ ClientAbort(p)
      PROVE  /\ UNCHANGED <<worktree, index>>
             /\ \/ UNCHANGED <<refs, tree>>
                \/ \E b \in Branches, force \in BOOLEAN : ReceivePush(p, b, force)
                \/ p \notin pushed /\ UNCHANGED refs /\ \E t, c : Commit(p, t, c)
  <2>1. CASE ClientCommit(p)
    BY <2>1 DEF ClientCommit, Begin, servedVars
  <2>2. CASE ClientPush(p)
    BY <2>2 DEF ClientPush, repoVars, servedVars
  <2>3. CASE ClientPushed(p) \/ ClientAbort(p)
    BY <2>3 DEF ClientPushed, ClientAbort, repoVars, servedVars
  <2> QED
    BY <1>2, <2>1, <2>2, <2>3 DEF ClientStep
<1>3. ASSUME NEW s \in Syncs, \/ SyncRequest(s) \/ SyncStep(s) \/ SyncForget(s)
                              \/ SyncSourceFails(s) \/ SyncPushTimeout(s)
      PROVE  /\ UNCHANGED <<worktree, index>>
             /\ \/ UNCHANGED <<refs, tree>>
                \/ \E b \in Branches, force \in BOOLEAN : ReceivePush(s, b, force)
                \/ s \notin pushed /\ UNCHANGED refs /\ \E t, c : Commit(s, t, c)
  <2>1. CASE SyncImport(s)
    BY <2>1 DEF SyncImport, servedVars
  <2>2. CASE SyncPush(s)
    BY <2>2 DEF SyncPush, servedVars
  <2>3. CASE ~ SyncImport(s) /\ ~ SyncPush(s)
    BY <1>3, <2>3 DEF SyncRequest, SyncStep, SyncStart, SyncPushed, SyncAnswer, SyncForget,
       SyncSourceFails, SyncPushTimeout, repoVars, servedVars
  <2> QED
    BY <2>1, <2>2, <2>3
<1> QED
  BY <1>1, <1>2, <1>3

\* Requests in turn implement what PublishedRepo promises its readers, up to its
\* fairness: the worktree and the listing go from one accepted tree to the
\* latest, never back to an older one, whoever publishes.
THEOREM TurnsImplementPublishedRepo ==
    ASSUME InTurn
    PROVE  Spec => Published!PublishedSafety
<1>1. Init => Published!PublishedInit
  BY RepoPublishAssumption DEF Init, TreeOf, Published!PublishedInit
<1>2. TypeOK /\ PushInv /\ TurnInv /\ TypeOK' /\ [Next]_vars =>
        [Published!PublishedNext]_(Published!publishedVars)
  <2> SUFFICES ASSUME TypeOK, PushInv, TurnInv, TypeOK', [Next]_vars
               PROVE  [Published!PublishedNext]_(Published!publishedVars)
    OBVIOUS
  <2>1. CASE Crash
    BY <2>1 DEF Crash, InTurn
  <2>2. CASE UNCHANGED vars
    BY <2>2 DEF vars, repoVars, servedVars, TreeOf, Published!publishedVars
  <2>3. CASE \E p \in Publishers : PublishStep(p) \/ PublishUntarFails(p) \/ PublishIndexFails(p)
    BY <2>3, PublicationsServe
  <2>4. CASE ~ Crash /\ ~ UNCHANGED vars /\ ~ (\E p \in Publishers : PublishStep(p) \/ PublishUntarFails(p)
                                                            \/ PublishIndexFails(p))
    BY <2>4, RequestKinds, RequestsAccept DEF Next
  <2> QED
    BY <2>1, <2>2, <2>3, <2>4
<1> QED
  BY <1>1, <1>2, TurnInvHolds, PTL DEF Spec, Published!PublishedSafety
=============================================================================
