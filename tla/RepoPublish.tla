---------------------------- MODULE RepoPublish ----------------------------
(***************************************************************************)
(* How a new revision of one repository gets published.                    *)
(*                                                                         *)
(* A revision enters the bare repository by a git push, and there are      *)
(* three kinds of requests that push: the web edits of routes/files.ts     *)
(* (clone, commit, push), clients of git/smartHttp.ts, and GitHub imports  *)
(* (services/githubSync.ts, serialized by the lock of RepoSyncLock).  What *)
(* readers are served is derived from a revision by three writes: unpack   *)
(* it into the worktree, replace the rows of the files table, set          *)
(* repos.head_sha.  The post-receive hook makes them for every push (by a  *)
(* call to /internal/hooks/post-receive), and web edits and imports make   *)
(* them again themselves once their push has returned.                     *)
(*                                                                         *)
(* A request makes at most one commit, so the request names the commit.    *)
(***************************************************************************)
EXTENDS RepoSyncLock, RepoTree

CONSTANTS Edits,       \* web edit requests
          Pushes,      \* smart-HTTP pushes
          NoCommit,    \* an unborn branch, head_sha IS NULL
          Branches,    \* branch names
          HeadBranch,  \* the branch that HEAD of the bare repository names
          Faults,      \* what may go wrong
          Overlap      \* the requests that may be under way at the same time

FaultKinds == {"cloneFail",      \* git clone of the repository fails
               "hookLost",       \* the hook's curl never reaches the server
               "hookCut",        \* its connection is closed before the answer
               "pushTimeout",    \* a push is killed; its hook call is not
               "extractFail",    \* git archive or tar fails
               "indexFail",      \* git ls-tree or the insertion of a row fails
               "sourceFail",     \* GitHub cannot be reached, or refuses
               "crash"}          \* the server process dies and restarts

MainBranch == "main"             \* the branch that imports push to

Requests == Edits \cup Pushes \cup Syncs

ASSUME RepoPublishAssumption ==
    /\ Edits \cap Pushes = {} /\ Edits \cap Syncs = {} /\ Pushes \cap Syncs = {}
    /\ NoCommit \notin Requests
    /\ HeadBranch \in Branches /\ MainBranch \in Branches
    /\ Faults \subseteq FaultKinds
    /\ Overlap \subseteq Requests

Commits == Requests \cup {NoCommit}

\* The publications of revision r: by its post-receive hook and, for web edits
\* and imports, by the request itself.
Publishers == {"hook", "request"} \X Requests
Hook(r) == <<"hook", r>>
Own(r) == <<"request", r>>

VARIABLES
    refs,       \* the branches of the bare repository
    pushed,     \* the commits in its object store
    rewritten,  \* history variable: branches that --force has rewritten
    restored,   \* history variable: the revision an edit restored as a whole
    tree,       \* the content of each commit
    ancestry,   \* each commit with its ancestors
    worktree,   \* DATA_DIR/worktrees/<repoId>, served by /view
    index,      \* the repository's rows in the files table
    headSha,    \* repos.head_sha
    pc,         \* where each request is
    base,       \* the commit its clone started from
    reply,      \* its answer
    stage       \* where each publication is

repoVars == <<refs, pushed, rewritten, restored, tree, ancestry>>
servedVars == <<worktree, index, headSha>>
requestVars == <<pc, base, reply>>
vars == <<repoVars, servedVars, requestVars, stage, lockVars>>

PcStates == {"idle", "commit", "push", "wait", "publish", "done"}
Replies == {"none", "ok", "unchanged", "refused", "rejected", "error", "crashed"}
Stages == {"off", "clear", "untar", "index", "head", "done", "failed", "torn"}

TreeOf(c) == IF c = NoCommit THEN EmptyTree ELSE tree[c]
AncestryOf(c) == IF c = NoCommit THEN {} ELSE ancestry[c]

Finished(p) == stage[p] \in {"done", "failed", "torn"}
Publishing(p) == stage[p] \in {"clear", "untar", "index", "head"}
UnderWay(r) == pc[r] \notin {"idle", "done"} \/ (r \in Syncs /\ Unsettled(r))
Quiet == /\ \A r \in Requests : ~ UnderWay(r)
         /\ \A p \in Publishers : ~ Publishing(p)

Init ==
    /\ refs = [b \in Branches |-> NoCommit]
    /\ pushed = {}
    /\ rewritten = {}
    /\ restored = [r \in Requests |-> NoCommit]
    /\ tree = [r \in Requests |-> EmptyTree]
    /\ ancestry = [r \in Requests |-> {}]
    /\ worktree = EmptyTree
    /\ index = EmptyTree
    /\ headSha = NoCommit
    /\ pc = [r \in Requests |-> "idle"]
    /\ base = [r \in Requests |-> NoCommit]
    /\ reply = [r \in Requests |-> "none"]
    /\ stage = [p \in Publishers |-> "off"]
    /\ LockInit

-----------------------------------------------------------------------------
(* Steps that the requests share. *)

\* Requests arrive as they like; runs and theorems about requests that come one
\* at a time restrict here which of them may meet.
Begin(r) ==
    /\ pc[r] = "idle"
    /\ \/ Quiet
       \/ /\ r \in Overlap
          /\ \A q \in Requests \ Overlap :
                ~ UnderWay(q) /\ ~ Publishing(Hook(q)) /\ ~ Publishing(Own(q))

Answer(r, a) == /\ pc' = [pc EXCEPT ![r] = "done"]
                /\ reply' = [reply EXCEPT ![r] = a]

\* git commit in the request's own clone.
Commit(r, t, parent) ==
    /\ tree' = [tree EXCEPT ![r] = t]
    /\ ancestry' = [ancestry EXCEPT ![r] = {r} \cup AncestryOf(parent)]

\* What a push without --force needs.
FastForward(r, b) == refs[b] \in AncestryOf(r) \cup {NoCommit}

\* git receive-pack moves branch b to r and runs the post-receive hook, which
\* reports the update to the server unless the call is lost.
ReceivePush(r, b, force) ==
    /\ rewritten' = IF force THEN rewritten \cup {b} ELSE rewritten
    /\ refs' = [refs EXCEPT ![b] = r]
    /\ pushed' = pushed \cup {r}
    /\ \E s \in {"clear"} \cup (IF "hookLost" \in Faults THEN {"failed"} ELSE {}) :
          stage' = [stage EXCEPT ![Hook(r)] = s]
    /\ pc' = [pc EXCEPT ![r] = "wait"]
    /\ UNCHANGED <<restored, tree, ancestry>>

\* The push returns when its hook has.  The server closes a connection that is
\* idle for long (index.ts sets no idleTimeout), and then the hook's curl is over
\* while the publication it asked for goes on.
HookReturned(r) ==
    Finished(Hook(r)) \/ ("hookCut" \in Faults /\ Publishing(Hook(r)))

-----------------------------------------------------------------------------
(* Web edits: upload, copy, restore and delete of routes/files.ts.  They    *)
(* take no lock.                                                            *)

\* Look up repository and user, git clone; when the clone fails, for whatever
\* reason, git init makes an empty one.
EditClone(e) ==
    /\ Begin(e)
    /\ \E c \in {refs[HeadBranch]} \cup (IF "cloneFail" \in Faults THEN {NoCommit} ELSE {}) :
          base' = [base EXCEPT ![e] = c]
    /\ pc' = [pc EXCEPT ![e] = "commit"]
    /\ UNCHANGED <<repoVars, servedVars, reply, stage, lockVars>>

\* Invalid input, no access, nothing at that path.
EditRefuse(e) ==
    /\ pc[e] = "commit"
    /\ Answer(e, "refused")
    /\ UNCHANGED <<repoVars, servedVars, base, stage, lockVars>>

\* What an edit may make of the clone: old is the revision whose whole tree it
\* restores (git checkout finds no path in an empty one), or NoCommit.
EditResults(parent, old) ==
    LET t == TreeOf(parent)
    IN  IF old = NoCommit
        THEN Uploaded(t) \cup Copied(t) \cup Deleted(t)
             \cup UNION {RestoredPath(t, tree[c]) : c \in AncestryOf(parent)}
        ELSE {RestoredTree(t, u) : u \in {tree[old]} \ {EmptyTree}}

\* Change the clone, git add -A, git commit; "nothing to commit" ends it (a
\* restore answers "Already at this version").
EditCommit(e) ==
    /\ pc[e] = "commit"
    /\ \E old \in {NoCommit} \cup AncestryOf(base[e]) : \E t \in EditResults(base[e], old) :
          /\ restored' = [restored EXCEPT ![e] = old]
          /\ IF t = TreeOf(base[e])
             THEN Answer(e, "unchanged") /\ UNCHANGED <<tree, ancestry>>
             ELSE /\ Commit(e, t, base[e])
                  /\ pc' = [pc EXCEPT ![e] = "push"]
                  /\ UNCHANGED reply
    /\ UNCHANGED <<refs, pushed, rewritten, servedVars, base, stage, lockVars>>

\* Mutants of EditPush: the push is made with --force; the exit code of git push
\* is not looked at.
EditPushForced(e) ==
    /\ pc[e] = "push"
    /\ ReceivePush(e, HeadBranch, FALSE)
    /\ UNCHANGED <<servedVars, base, reply, lockVars>>
EditPushUnchecked(e) ==
    /\ pc[e] = "push"
    /\ IF FastForward(e, HeadBranch)
       THEN ReceivePush(e, HeadBranch, FALSE)
       ELSE /\ pc' = [pc EXCEPT ![e] = "wait"]
            /\ stage' = [stage EXCEPT ![Hook(e)] = "failed"]
            /\ UNCHANGED repoVars
    /\ UNCHANGED <<servedVars, base, reply, lockVars>>

\* git push origin HEAD, without --force.
EditPush(e) ==
    /\ pc[e] = "push"
    /\ IF FastForward(e, HeadBranch)
       THEN ReceivePush(e, HeadBranch, FALSE) /\ UNCHANGED reply
       ELSE Answer(e, "rejected") /\ UNCHANGED <<repoVars, stage>>
    /\ UNCHANGED <<servedVars, base, lockVars>>

\* Once the push has returned, head_sha is set before publishing.
EditPushed(e) ==
    /\ pc[e] = "wait" /\ HookReturned(e)
    /\ headSha' = e
    /\ pc' = [pc EXCEPT ![e] = "publish"]
    /\ stage' = [stage EXCEPT ![Own(e)] = "clear"]
    /\ UNCHANGED <<repoVars, worktree, index, base, reply, lockVars>>

EditAnswer(e) ==
    /\ pc[e] = "publish" /\ Finished(Own(e))
    /\ Answer(e, IF stage[Own(e)] = "done" THEN "ok" ELSE "error")
    /\ UNCHANGED <<repoVars, servedVars, base, stage, lockVars>>

\* spawnGroup kills a push that takes too long, before or after the ref moved.
EditPushTimeout(e) ==
    /\ "pushTimeout" \in Faults
    /\ pc[e] = "push" \/ (pc[e] = "wait" /\ ~ Finished(Hook(e)))
    /\ Answer(e, "error")
    /\ UNCHANGED <<repoVars, servedVars, base, stage, lockVars>>

-----------------------------------------------------------------------------
(* Smart-HTTP pushes: the client commits what it likes on what it fetched,  *)
(* and pushes to any branch.                                                *)

ClientCommit(p) ==
    /\ Begin(p)
    /\ \E b \in Branches, t \in Tree :
          /\ Commit(p, t, refs[b])
          /\ base' = [base EXCEPT ![p] = refs[b]]
    /\ pc' = [pc EXCEPT ![p] = "push"]
    /\ UNCHANGED <<refs, pushed, rewritten, restored, servedVars, reply, stage, lockVars>>

ClientPush(p) ==
    /\ pc[p] = "push"
    /\ \E b \in Branches, force \in BOOLEAN :
          IF force \/ FastForward(p, b)
          THEN ReceivePush(p, b, force) /\ UNCHANGED reply
          ELSE Answer(p, "rejected") /\ UNCHANGED <<repoVars, stage>>
    /\ UNCHANGED <<servedVars, base, lockVars>>

ClientPushed(p) ==
    /\ pc[p] = "wait" /\ HookReturned(p)
    /\ Answer(p, "ok")
    /\ UNCHANGED <<repoVars, servedVars, base, stage, lockVars>>

\* The client goes away, or receive-pack times out: the stream's group is killed.
ClientAbort(p) ==
    /\ "pushTimeout" \in Faults
    /\ pc[p] = "wait" /\ ~ Finished(Hook(p))
    /\ Answer(p, "error")
    /\ UNCHANGED <<repoVars, servedVars, base, stage, lockVars>>

-----------------------------------------------------------------------------
(* GitHub imports: syncGitHubRepo under the lock of the repository. *)

SyncRequest(s) ==
    /\ Begin(s)
    /\ Call(s)
    /\ UNCHANGED <<repoVars, servedVars, requestVars, stage>>

SyncStart(s) ==
    /\ Start(s)
    /\ pc' = [pc EXCEPT ![s] = "commit"]
    /\ UNCHANGED <<repoVars, servedVars, base, reply, stage>>

\* Clone from GitHub and rebuild the import as a fresh repository: its commit
\* has no parent.  (git commit fails when there is nothing to import.)
SyncImport(s) ==
    /\ pc[s] = "commit"
    /\ \E t \in Tree \ {EmptyTree} : Commit(s, t, NoCommit)
    /\ pc' = [pc EXCEPT ![s] = "push"]
    /\ UNCHANGED <<refs, pushed, rewritten, restored, servedVars, base, reply, stage, lockVars>>

\* Mutant of SyncSourceFails: the rejected promise does not wake the next call.
SyncSourceFailsHolding(s) ==
    /\ "sourceFail" \in Faults
    /\ pc[s] = "commit"
    /\ Answer(s, "error")
    /\ UNCHANGED <<repoVars, servedVars, base, stage, lockVars>>

SyncSourceFails(s) ==
    /\ "sourceFail" \in Faults
    /\ pc[s] = "commit"
    /\ Answer(s, "error")
    /\ Settle(s)
    /\ UNCHANGED <<repoVars, servedVars, base, stage>>

\* git push <repo> HEAD:refs/heads/main --force
SyncPush(s) ==
    /\ pc[s] = "push"
    /\ ReceivePush(s, MainBranch, TRUE)
    /\ UNCHANGED <<servedVars, base, reply, lockVars>>

SyncPushed(s) ==
    /\ pc[s] = "wait" /\ HookReturned(s)
    /\ pc' = [pc EXCEPT ![s] = "publish"]
    /\ stage' = [stage EXCEPT ![Own(s)] = "clear"]
    /\ UNCHANGED <<repoVars, servedVars, base, reply, lockVars>>

SyncAnswer(s) ==
    /\ pc[s] = "publish" /\ Finished(Own(s))
    /\ Answer(s, IF stage[Own(s)] = "done" THEN "ok" ELSE "error")
    /\ Settle(s)
    /\ UNCHANGED <<repoVars, servedVars, base, stage>>

SyncPushTimeout(s) ==
    /\ "pushTimeout" \in Faults
    /\ pc[s] = "push" \/ (pc[s] = "wait" /\ ~ Finished(Hook(s)))
    /\ Answer(s, "error")
    /\ Settle(s)
    /\ UNCHANGED <<repoVars, servedVars, base, stage>>

SyncForget(s) ==
    /\ Forget(s)
    /\ UNCHANGED <<repoVars, servedVars, requestVars, stage>>

-----------------------------------------------------------------------------
(* Publishing a revision: extractRepoFiles, then indexRepoFiles, and, except *)
(* in a web edit (EditPushed did it already), head_sha last.                 *)

To(p, s) == stage' = [stage EXCEPT ![p] = s]

\* Mutant of PublishClear: the old worktree is unpacked over.
KeepWorktree(p) ==
    /\ stage[p] = "clear" /\ To(p, "untar")
    /\ UNCHANGED <<repoVars, servedVars, requestVars, lockVars>>

\* rm -rf and mkdir of the worktree.
PublishClear(p) ==
    /\ stage[p] = "clear" /\ To(p, "untar")
    /\ worktree' = EmptyTree
    /\ UNCHANGED <<repoVars, index, headSha, requestVars, lockVars>>

\* Mutant of PublishUntar: it archives the revision that the push replaced.
UntarOldRev(p) ==
    /\ stage[p] = "untar" /\ To(p, "index")
    /\ worktree' = Overlay(TreeOf(base[p[2]]), worktree)
    /\ UNCHANGED <<repoVars, index, headSha, requestVars, lockVars>>

\* git archive <rev> | tar -x, into whatever the directory holds by now.
PublishUntar(p) ==
    /\ stage[p] = "untar" /\ To(p, "index")
    /\ worktree' = Overlay(tree[p[2]], worktree)
    /\ UNCHANGED <<repoVars, index, headSha, requestVars, lockVars>>

\* ... or it stops halfway, with an exception.
PublishUntarFails(p) ==
    /\ "extractFail" \in Faults
    /\ stage[p] = "untar" /\ To(p, "failed")
    /\ \E S \in SUBSET Files : worktree' = Overlay(Only(tree[p[2]], S), worktree)
    /\ UNCHANGED <<repoVars, index, headSha, requestVars, lockVars>>

\* Mutant of PublishIndex: the old rows are not deleted.
IndexOver(p) ==
    /\ stage[p] = "index"
    /\ To(p, IF p[1] = "request" /\ p[2] \in Edits THEN "done" ELSE "head")
    /\ index' = Overlay(tree[p[2]], index)
    /\ UNCHANGED <<repoVars, worktree, headSha, requestVars, lockVars>>

\* git ls-tree, then delete all rows and insert the new ones.  The bun-sqlite
\* transaction ends at the first await of its callback, so the delete and every
\* insert commit on their own.
PublishIndex(p) ==
    /\ stage[p] = "index"
    /\ To(p, IF p[1] = "request" /\ p[2] \in Edits THEN "done" ELSE "head")
    /\ index' = tree[p[2]]
    /\ UNCHANGED <<repoVars, worktree, headSha, requestVars, lockVars>>

\* What is there when the old rows have been deleted and some of the new inserted.
PartlyIndexed(p) == LET t == tree[p[2]]
                    IN  {Only(t, S) : S \in SUBSET Present(t) \ {Present(t)}}

\* ls-tree fails, and the rows are left alone; or an insert does (the size of a
\* gitlink is no number and its column NOT NULL, the disk is full), and the rows
\* inserted before it stay.
PublishIndexFails(p) ==
    /\ "indexFail" \in Faults
    /\ stage[p] = "index"
    /\ \/ To(p, "failed") /\ UNCHANGED index
       \/ To(p, "torn") /\ index' \in PartlyIndexed(p)
    /\ UNCHANGED <<repoVars, worktree, headSha, requestVars, lockVars>>

\* Mutant of PublishHead: the whole record is stored, not its revision.
HeadOfRecord(p) ==
    /\ stage[p] = "head" /\ To(p, "done")
    /\ headSha' = p
    /\ UNCHANGED <<repoVars, worktree, index, requestVars, lockVars>>

PublishHead(p) ==
    /\ stage[p] = "head" /\ To(p, "done")
    /\ headSha' = p[2]
    /\ UNCHANGED <<repoVars, worktree, index, requestVars, lockVars>>

-----------------------------------------------------------------------------
(* The process dies: requests, publications and the lock map are gone; the   *)
(* files and rows stay as they are, also those of a re-indexing or unpacking *)
(* that was under way.                                                       *)

Crash ==
    /\ "crash" \in Faults
    /\ ~ Quiet
    /\ pc' = [r \in Requests |-> IF UnderWay(r) THEN "done" ELSE pc[r]]
    /\ reply' = [r \in Requests |-> IF UnderWay(r) THEN "crashed" ELSE reply[r]]
    /\ stage' = [p \in Publishers |->
                    IF stage[p] = "index" THEN "torn"
                    ELSE IF Publishing(p) THEN "failed" ELSE stage[p]]
    /\ worktree' \in {worktree} \cup
          UNION {{Overlay(Only(tree[p[2]], S), worktree) : S \in SUBSET Files} :
                    p \in {q \in Publishers : stage[q] = "untar"}}
    /\ index' \in {index} \cup
          UNION {PartlyIndexed(p) : p \in {q \in Publishers : stage[q] = "index"}}
    /\ LockRestart
    /\ UNCHANGED <<repoVars, headSha, base>>

-----------------------------------------------------------------------------

EditStep(e) == EditCommit(e) \/ EditPush(e) \/ EditPushed(e) \/ EditAnswer(e)
ClientStep(p) == ClientPush(p) \/ ClientPushed(p)
SyncStep(s) == SyncStart(s) \/ SyncImport(s) \/ SyncPush(s) \/ SyncPushed(s) \/ SyncAnswer(s)
PublishStep(p) == PublishClear(p) \/ PublishUntar(p) \/ PublishIndex(p) \/ PublishHead(p)

Next ==
    \/ \E e \in Edits : \/ EditClone(e) \/ EditRefuse(e) \/ EditStep(e)
                        \/ EditPushTimeout(e)
    \/ \E p \in Pushes : ClientCommit(p) \/ ClientStep(p) \/ ClientAbort(p)
    \/ \E s \in Syncs : \/ SyncRequest(s) \/ SyncStep(s) \/ SyncForget(s)
                        \/ SyncSourceFails(s) \/ SyncPushTimeout(s)
    \/ \E p \in Publishers : PublishStep(p) \/ PublishUntarFails(p) \/ PublishIndexFails(p)
    \/ Crash

Spec == Init /\ [][Next]_vars

\* Every git command is killed when its time is up and every await resumes, so
\* a request that has begun goes on; that requests arrive is not assumed.
Fairness ==
    /\ \A e \in Edits : WF_vars(EditStep(e))
    /\ \A p \in Pushes : WF_vars(ClientStep(p))
    /\ \A s \in Syncs : WF_vars(SyncStep(s))
    /\ \A p \in Publishers : WF_vars(PublishStep(p))

FairSpec == Spec /\ Fairness

-----------------------------------------------------------------------------

TypeOK ==
    /\ refs \in [Branches -> Commits]
    /\ pushed \subseteq Requests
    /\ rewritten \subseteq Branches
    /\ restored \in [Requests -> Commits]
    /\ tree \in [Requests -> Tree]
    /\ ancestry \in [Requests -> SUBSET Requests]
    /\ worktree \in Tree
    /\ index \in Tree
    /\ headSha \in Commits
    /\ pc \in [Requests -> PcStates]
    /\ base \in [Requests -> Commits]
    /\ reply \in [Requests -> Replies]
    /\ stage \in [Publishers -> Stages]
    /\ LockTypeOK

\* Web edits take no lock, yet once the push of one has gone through no later
\* edit, push or crash removes it from the history of HEAD: the fast-forward
\* check of git push stands in for the lock, also when the editor was told that
\* the edit failed.  Only a forced push (a client's, or an import when HEAD is
\* main) may drop it.
EditsNeverLost ==
    \A e \in Edits \cap pushed :
        HeadBranch \notin rewritten => e \in AncestryOf(refs[HeadBranch])

\* Whatever the interleaving and the failures, readers are never served
\* anything of a commit that the repository did not accept: not of an edit that
\* was rejected, refused or killed before its push.  head_sha names a commit
\* that exists, and a stale head_sha or a worktree mixed from two revisions is
\* still made of pushed content.
ServedWasPushed ==
    /\ headSha \in pushed \cup {NoCommit}
    /\ \A p \in Publishers : Publishing(p) => p[2] \in pushed
    /\ \A f \in Present(worktree) : \E c \in pushed : tree[c][f] = worktree[f]
    /\ \A r \in pushed : reply[r] \notin {"refused", "unchanged", "rejected"}

\* The file listing is that of one whole revision, or what is left of the
\* re-indexing of a single revision that a crash or a failed insert ended
\* halfway (the old rows are gone then); never a mixture of two revisions,
\* whoever indexes at the same time and whatever failed before.
IndexIsARevision ==
    index \in {EmptyTree} \cup {tree[c] : c \in pushed}
             \cup UNION {PartlyIndexed(p) : p \in {q \in Publishers : stage[q] = "torn"}}

\* fileExtractor.ts:51, "replaces the existing file records in a single
\* transaction": the listing is that of one whole revision, whatever stops the
\* replacing of its rows.
ListingReplacedAtomically == index \in {EmptyTree} \cup {tree[c] : c \in pushed}

\* Between its clone and its last write no import meets another one of the same
\* repository (githubSync.ts:495), now for the whole of syncGitHubRepoUnlocked.
OneImportAtATime ==
    \A s, t \in Syncs : UnderWay(s) /\ UnderWay(t) /\ pc[s] # "idle" /\ pc[t] # "idle" => s = t

\* A request that changes files and answers success has its revision served at
\* that moment, by /view, by the listing and by head_sha, whatever earlier
\* requests left behind when they failed.  (Not under "hookCut", when the hook of
\* its push may still be publishing the same revision.)
OkMeansServed ==
    [][\A r \in Edits \cup Syncs :
          reply[r] # "ok" /\ reply'[r] = "ok" =>
              worktree = tree[r] /\ index = tree[r] /\ headSha = r]_vars

\* Imports of one repository do not overlap in writing what is served: no two of
\* their extract and re-index sequences are under way at once (githubSync.ts:495,
\* "we serialize them").
ImportPublicationsSerialized ==
    \A p, q \in Publishers :
        p[2] \in Syncs /\ q[2] \in Syncs /\ Publishing(p) /\ Publishing(q) => p = q

\* An edit of a repository on which nothing else is under way starts from the
\* tree that its user is being served, so it changes only what it says it
\* changes (the edits of files.ts are relative to the listed files).
EditsStartFromServed ==
    [][\A e \in Edits : Quiet /\ pc[e] = "idle" /\ pc'[e] = "commit" =>
           TreeOf(base'[e]) = worktree]_vars

\* When nothing is under way, the three things derived from a revision are
\* derived from the same one.
DerivedStateAgrees == Quiet => worktree = TreeOf(headSha) /\ index = TreeOf(headSha)

\* When nothing is under way, what is served is the head of the repository
\* (product-guide.md:5, "extracts the latest tree for browsing and previewing").
ServesLatest == Quiet => worktree = TreeOf(refs[HeadBranch])

\* An edit that restored the whole tree to an earlier revision ends with that
\* revision's tree, which it has committed or found there already (files.ts:541,
\* "so the tree exactly matches the chosen revision").
RestoreMatchesRevision ==
    \A e \in Edits : restored[e] # NoCommit =>
        (IF reply[e] = "unchanged" THEN TreeOf(base[e]) ELSE tree[e]) = tree[restored[e]]

\* No request hangs: whatever fails, a request that was accepted is answered,
\* the imports waiting for the lock included.
EveryRequestIsAnswered ==
    \A r \in Requests : UnderWay(r) ~> pc[r] = "done"

-----------------------------------------------------------------------------

\* The repository as its readers see it.
Published == INSTANCE PublishedRepo WITH
    Trees <- Tree, Nothing <- EmptyTree,
    latest <- TreeOf(refs[HeadBranch]), served <- worktree, listed <- index

\* Requests that come one at a time, and imports that only the lock keeps apart,
\* publish as PublishedRepo promises: never an older tree after a newer one,
\* and the latest one in the end.
ImplementsPublishedRepo == Published!PublishedSpec
=============================================================================
