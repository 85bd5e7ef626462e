# A verification of Patra

Patra (this repository, `docs-share`) publishes static documents that are kept
in git: a Bun/Hono API server over SQLite and bare git repositories, a web
application, and a command-line client. This directory holds TLA+ models of its
server, the TLC configurations that check them on small instances, and proofs
that TLAPS checks for every instance. Paths below are relative to
`packages/server/src` unless they start with `packages/` or `docs/`.

## 1. The system: an inventory

| Component | State | Operations | What is hard about it |
|---|---|---|---|
| Git publication core: `routes/files.ts`, `routes/internal.ts`, `services/fileExtractor.ts`, `git/repoManager.ts`, `git/gitOps.ts` | bare repository, `DATA_DIR/worktrees/<id>`, the `files` rows, `repos.head_sha` | upload, copy, delete, restore, list; the post-receive hook; extract, index | nothing takes a lock; one push is published twice (hook and handler); four stores are written one after the other; timeouts, crashes |
| Smart HTTP: `git/smartHttp.ts` | none of its own | info/refs, upload-pack, receive-pack | any branch, force pushes, streams that are aborted while the hook runs |
| GitHub import: `services/githubSync.ts` | `repoSyncLocks` (in memory) | syncGitHubRepo | a lock made of a chain of promises, which does not cover the hook |
| Sync rows, retry, scheduler: `routes/repos.ts`, `services/githubSyncRetry.ts`, `services/scheduler.ts` | `github_syncs` rows, the in-flight set | start, retry, the tick of each job | rows read before an import and written after it; a status that a crash leaves behind |
| Teams and invitations: `routes/teams.ts`, `services/invitations.ts` | `teams`, `team_members`, `team_invitations` | create, invite, accept, role, remove, delete | checks and writes are separate statements; owner invariants; replayed tokens |
| Shares and viewer: `routes/shares.ts`, `middleware/shareAccess.ts`, `services/expiredShares.ts`, `routes/view.ts` | `shares` | create, accept, revoke, expire, access decision | path scopes, expiry between check and use, invitations joined with shares |
| Site data: `routes/siteData.ts`, `services/siteData.ts`, `services/siteDataCleanup.ts` | `site_collections`, `site_records` | ingest, configure, list, clean up | limits that are counted before they are enforced |
| Rate limits: `middleware/rateLimit.ts`, `RateLimiter` of `services/siteData.ts` | windows per key (in memory) | hit, prune | window edges, bounded maps |
| Webhooks: `routes/webhooks.ts`, `services/webhooks.ts`, `services/webhookCleanup.ts` | `webhooks`, `webhook_deliveries` | dispatch, deliver with retries, clean up | retries after timeouts, deliveries racing with deletion |
| Drafts: `routes/drafts.ts`, `services/drafts.ts` | `drafts`, files on disk | create, list, delete, serve | a row and a file that must agree |
| Authentication: `routes/auth.ts`, `routes/users.ts`, `middleware/session.ts`, `middleware/requireScope.ts`, `packages/cli/src/commands/login.ts` | sessions, tokens, device codes | sign in, issue, revoke, CLI login | one-time codes, polling |
| Analytics and audit: `services/analytics.ts`, `services/analyticsCleanup.ts` | event and rollup rows | record, aggregate, purge | an asynchronous transaction |
| Projects, admin, configuration, GitHub App client, API documents, web, CLI output | rows or nothing | create, read, update, delete; formatting | no concurrency of their own |

The components meet in four places. Every request that changes files pushes
into the bare repository and then *publishes* the new revision; imports are the
same with a lock in front; the viewer, listings, shares and site data read what
was published; and access to all of it goes through teams, invitations and shares.

## 2. Plan, and where it stands

In order, the behaviour that matters most first:

1. **Publication** (`RepoSyncLock`, `RepoTree`, `RepoPublish`, `PublishedRepo`
   and their proofs): done, section 3.
2. **Sync rows, retry and scheduler** (`GitHubSyncRow` over the lock of
   `RepoSyncLock`, and its proofs): done for one row, section 4. Left: the
   deletion of a repository while a sync is under way.
3. **People, teams and sharing**: `Directory` is what the rest of the server
   relies on about people and teams; `Teams` is the code and implements it;
   `Links`, `Grants` and `Projects` are modelled over it. Done, section 5.
4. **Documents and data of users, accounts, limits, deliveries**: `Drafts`,
   `Forms` over them, `Accounts`, `RateLimits`, `Webhooks`, `Views`. Done, section 6.
5. **Paths and the command-line client**: `Paths` as pure operators over file
   systems, `Push`, `Login`. Done, section 7.
6. **Proofs**: locks, publication with anything overlapping and requests in turn,
   sync rows; teams, sharing, paths and the client; forms, accounts, limits,
   deliveries and views; the compositions. Left: what needs fairness.

Modules that carry theorems use no recursive operators; their parameters are
CONSTANTS with the assumptions the code justifies. An operator whose comment
begins with "Mutant of" is a plausible mistake in the definition below it: it
takes part in no specification, and serves to show that a property would notice.

## 3. Publication: modules and how they correspond to the code

**`RepoSyncLock`** is `withRepoSyncLock` (`services/githubSync.ts:499-511`) for
one repository. There is no mutex object: a call (`Call`) reads the promise in
the map, chains its own onto it and stores it; `Start` is the reaction of
`previous.then(fn, fn)`; `Settle` is the end of the import; `Forget` is the
`finally` callback that drops the map entry. `LockRestart` is a new process.
`queue` is a history variable, needed only to say "in calling order".

**`RepoTree`** has trees (path to content, or absent) and what upload, copy,
delete and restore may commit. Contents are opaque, directories are left out
because git does not track them. `RestoredTree` is what a restore of the whole tree
makes: `git checkout <sha> -- .` brings the old files back and removes none.

**`RepoPublish`** is the life of requests that push: web edits, smart-HTTP
pushes and imports. `refs`, `pushed`, `tree` and `ancestry` are the bare
repository, `worktree`, `index` and `headSha` what readers are served, `pc`,
`base` and `reply` the requests. A request makes at most one commit, so its name
is the commit's name. Each push has up to two publications, `Hook(r)` and
`Own(r)`, whose `stage` walks through `rm -rf` (`PublishClear`), `git archive |
tar` (`PublishUntar`), the rows (`PublishIndex`) and `head_sha` (`PublishHead`);
a web edit writes `head_sha` before its own publication (`EditPushed`). Actions
are cut where the code awaits something that others can see; the work in a
request's private clone is one action. `restored` (the revision an edit restored as a
whole) and `rewritten` (the branches a forced push has rewritten) are history variables.

`Faults` chooses what may go wrong:

* `cloneFail`: a clone that fails is taken for an empty repository;
* `hookLost`: the hook's `curl -s` never arrives, and has no retry;
* `hookCut`: the server closes the hook's connection while the publication it asked
  for goes on (`index.ts` sets no idle timeout), so that the push returns before it
  (`HookReturned`);
* `pushTimeout`: `spawnGroup` kills a push, but not the request its hook already sent;
* `extractFail`: `git archive` or `tar` fails, after the worktree was cleared
  and perhaps unpacked in part;
* `indexFail`: `git ls-tree` or the insertion of a row fails. The rows are deleted and inserted in
  commits of their own (`services/fileExtractor.ts:92-101`; the callback of the
  transaction is asynchronous, the driver is not), so that an insertion that throws leaves part of
  a listing, without a crash; the size of a gitlink is such a case. The publication's
  `stage` is then `torn`;
* `sourceFail` and `crash`.

`Overlap` says which requests may be under way together: all of them, or none when
a property is about requests that come in turn.

**`PublishedRepo`** is what readers may expect: a latest tree; a served tree that
is the latest or empty while it is replaced; a listing that goes from one tree to
the latest; both reach the latest in the end. `ImplementsPublishedRepo` maps
`latest` to the tree of HEAD, `served` to the worktree and `listed` to the index.

### Runs

All runs of this section use `MCRepoPublish`. Two paths and one content are enough to tell
apart "old file kept", "file missing" and "mixture of two revisions", a second content tells
which of two edits wrote a path; two requests of a kind are enough for every
pairwise race, since a publication races with one other at a time; a further request
of another kind is there where the property relates them, and a third edit where two
must come before it. Requests, paths and contents are symmetric, and symmetry
is used in the runs without liveness.

| Run | Instance | Shows |
|---|---|---|
| `anything` | 2 edits that overlap in every way, 2 paths, 2 contents, every fault | `EditsNeverLost`, `ServedWasPushed`, `IndexIsARevision`, `TypeOK` |
| `heals` | 1 edit, 1 client push, 1 import, in turn, one branch, every fault but `hookCut` | `OkMeansServed`: success means served, whatever failed before |
| `answers` | 1 edit and 2 imports that overlap, 1 path, all faults but `hookCut`, `indexFail` and `crash`, weak fairness | `SyncsSerialized`, `CallingOrder`, `OneImportAtATime`, `ServedWasPushed`, `EveryRequestIsAnswered` |
| `in_turn` | 1 edit and 1 client push in turn, 2 imports that may overlap, no faults, weak fairness | `DerivedStateAgrees`, `ServesLatest`, `EditsStartFromServed`, `ImplementsPublishedRepo` |
| `branches` (violation) | 1 edit, 1 import, HEAD = master | an edit after an import starts from the wrong branch |
| `torn_index` (violation) | edits and a crash | the "transaction" of the index is not one |
| `timeout` (violation) | 2 imports, killed pushes | two imports publish at the same time |
| `restore` (violation) | 3 edits in turn | two uploads and a restore to the first: the file of the second stays |

The two runs of overlapping requests share the work because their product takes
longer than five minutes: `anything` has every fault and no import (an import adds
only the lock and a publication like an edit's), `answers` an edit among imports with the
faults that are not about the listing. The proofs of section 9 have no such limits.
`heals` leaves `hookCut` out: with it the property fails, because the publication
of a hook that was cut off may be clearing the worktree again when the request, whose own
publication is complete, answers success.

The violation runs state what the repository says of itself, and their
counterexamples are behaviours of the code; each is described, with the line it
contradicts, under `findings` of `PROJECT.json`. What the passing runs say
around them: without the lock, edits that overlap may leave an *older* accepted
tree served, but never anything that was not accepted; and the next request that
succeeds in turn repairs whatever was left.

Fairness is weak fairness of the steps of a request that has begun
(`EditStep`, `SyncStep`, `PublishStep`): every git command is bounded by
`GIT_PROCESS_TIMEOUT_MS`, and promises settle. A sync also waits for GitHub's API
(`assertRepoSizeWithinLimit`); the code sets no timeout there, so that these
requests end is an assumption about the runtime and GitHub. That requests arrive, that the hook's
call arrives and that a failed publication is retried is not assumed. With a
crash the process is gone, so crashes are not in the liveness runs. `CHECK_DEADLOCK`
is off because a finite set of requests ends.

## 4. Sync rows: module and how it corresponds to the code

**`GitHubSyncRow`** is the `github_syncs` row of one repository and everyone who
writes it. A member of `Starts` is one `POST /:repoId/github-sync`: `StartRead`
reads the row (`routes/repos.ts:200-208`), `StartCall` writes it and calls
`syncGitHubRepo` (`:245-286`), `ImportSettles` and `ImportFails` are what it
writes afterwards. The other syncs are passes of the retry job that select this
row: `Tick` is the scheduler's guard with the query
(`services/scheduler.ts:97-104`, `services/githubSyncRetry.ts:63-73`),
`RetryBegin` sets `syncing`, `RetryNoToken` and `RetryCall` are the two ways on.
`want` and `saw` are the configuration and `retry_count` a handler goes on with,
which may no longer be the row's: that is what the module is about. `Call`,
`Start`, `Settle`, `Forget` and `LockRestart` are those of `RepoSyncLock`; the
import itself is `ImportDone`, since `RepoPublish` has the rest. `Crash` loses
the lock, the in-flight set and whoever was at work, and keeps the row.
`attempts` and `stale` are history variables.

| Run | Instance | Shows |
|---|---|---|
| `sync_rows` | 2 requests, 3 retries, 2 configurations, budget 2, 1 crash, weak fairness | `RetryBudget`, `SyncingMeansUnderway`, `RowNamesImport`, `SuccessIsConfigured`, `SyncingEnds`, `TypeOK` |
| `stale_retry` (violation) | 2 requests, 1 retry, no crash | a retry imports a configuration the user has replaced, and the row says success |

Three retries exceed a budget of two, two requests can reconfigure the row around a
retry, and a retry needs a failed request before it, so these are the smallest
instances in which every property is at stake. `RowNamesImport` is not obvious:
each handler writes the row after its own import without looking at the others,
and it is right only because the handler's continuation runs before the next import
of the chain has done anything. `SuccessIsConfigured` excepts the case `stale`
that `stale_retry` exhibits. `SyncingMeansUnderway` and `SyncingEnds` except a
process that died: the row then says `syncing` until a user starts a sync again.
`RetryBudget` grants one more import per crash, because a retry that dies is not
counted.

Fairness: a request and a retry that have begun go on, under the same assumptions
as in section 3. Ticks are not fair (`SCHEDULER_ENABLED` may be false). The other
rows of a batch appear only as the time between `Tick` and `RetryBegin`.

## 5. People, teams and sharing

All components of the server use one SQLite connection through a synchronous
driver (`db/index.ts`), in one process. A handler therefore runs without
interruption between two waits for the body of a request, the disk, a child
process or the network, and the modules of this and the next section cut
handlers into actions exactly there. A handler that reads a row, waits and then
acts on what it read is two actions with the old value kept in between
(`requests`, `edits`, `opening`, `minting`, `patches`, ...).

**`Directory`** has three tables: `email` (`users.email`), `teams`, `role`
(`team_members`). Its actions say what may happen to them: a sign-in stores an
address that is free and may turn invitations into memberships, a team appears
with an owner or goes with its members, one membership changes and an owner remains.

**`Teams`** is `routes/teams.ts`, `services/invitations.ts` and the sign-in of
`routes/auth.ts`. `Begin` reads the caller's role and then waits for the body;
`InviteUser`, `InviteAddress`, `ChangeRole`, `UpdateTeam` and `Refuse` go on with
the role that was read, whatever has become of it. `Register` and `FinishRegistration`
are the two halves of a first sign-in around `git init`. Addresses have spellings
(`Lower`), because the code compares some of them in lower case and others as they
are. `ImplementsDirectory` is the refinement; its mapping is the identity on the
three tables, so that a stale role, a replayed token or a sign-in that takes
over an address can show up only as a step Directory does not allow.

**`Links`** is the life of public and organisation links: `CreateLink`, `UpdateLink`
(a second `POST` for the same path), `RevokeLink`, the sweep of
`services/expiredShares.ts`, and what the two routes that answer visitors decide:
`Described` (`routes/shares.ts:891-961`) and `Served` (`routes/view.ts`). A token is the
number of tokens drawn before it: all that matters is whether it is another one.

**`Grants`** is team shares and shares with addresses, with recipients that name
an account when they accept, the cascades of deleted teams, the client's
`share --revoke` (`RevokeTarget`), and `canAccessRepoPath`
(`CanAccess`) with its path scopes. A share keeps its path as the request spelled it
(`POST /` does not look at it), and `ShareScopeCovers` normalizes it at every decision: a
share of `/docs`, of `a/../b` or of `.git` is stored, is listed as incoming, and opens
nothing. `AccessIsConsistent` excepts these shares, and says of every other spelling
that the list and the decision agree in both directions. **`WrittenPaths`**
is what `Grants` and `Paths` have in common: how a path is spelled, and `Normalize`.

**`Projects`** is `routes/projects.ts`; `ProjectsHaveKeepers` is about the
cascade and about the team or person that may leave.

The three are checked over *any* behaviour of `Directory`, and by
`ImplementsDirectory` this covers every behaviour of `Teams`.

## 6. Documents, data, accounts and limits

**`Drafts`** is `routes/drafts.ts`: a row and a file written one after the other.
`Torn` is a file written in part and may be read as any content; `Fresh` says
that identifiers are not drawn twice. **`Forms`** (`routes/siteData.ts`,
`services/siteDataCleanup.ts`) extends it, because deleting a draft deletes its
opt-ins and submissions, which have no foreign key, in three commits: the
row (`DeleteDraft`), the submissions (`DropRecords`), the opt-ins (`DropForms`). A failure
(`FailDrop`) or a new process (`Restart`) between them leaves submissions that their owner
can neither list nor delete and that no job removes; the history variable `orphans`
has them. An opt-in that was authorized before the deletion may be inserted after it.
`RecordsHaveTarget` says that no submission comes in for a draft that is gone, and that
every other one has its owner. `drawn` is the history of identifiers, of which none is
drawn twice.

**`Accounts`** is what a person has beside an address: `account` (the user row
with its cached role and GitHub credential), `personal` repositories, `session`,
`token`, and the callbacks under way (`signIn`, `installs`, `minting`).
`Redeploy` ends the process and starts one with other `SYSADMIN_EMAILS`.

**`RateLimits`** has the five fixed-window limiters on the way of a public request
(`Route`): the two of `middleware/rateLimit.ts`, which share a `Map`, and the three of the
ingestion. A `Map` keeps the order of insertion, so a store is a sequence and
eviction takes its front. `spent` is a history of what a key was allowed, a set of records `[at, nth]` that numbers
the requests of one instant; it starts anew when a live bucket is evicted, which the
code accepts at its capacity. **`Selection`** has `Keep`, what deleting rows does to an
ordered store: the others stay, in their order. Limits and webhooks use it.

**`Webhooks`** (`services/webhooks.ts`, `routes/webhooks.ts`,
`services/webhookCleanup.ts`) runs deliveries on the row as it was when the event
happened; `posts` is what the receiver got, which may be more than the client
knows of (`Miss` with `arrives`). **`Views`** is the deduplication of views
(`services/analytics.ts`) with its retention.

## 7. Paths and the command-line client

**`Paths`** has the functions between the path in a request and a file:
`Normalize`, `ResolveInside`, `ResolveRealPathInside`, `JoinSharePath`
(`lib/security.ts`), `ServeFile` (`routes/view.ts`), the client's
`ClientAccepts`, and the selection and copy of an import (`ImportPath`,
`WithinLimit`, `CopyWithoutSymlinks`, `services/githubSync.ts`). A path as it is written is
the names between its separators and whether a `\` is one of these (the server splits
at both, the client refuses one). `Upward` are the names that begin with two dots, `Unfit`
those that contain two dots anywhere, which an import refuses (`services/githubSync.ts:113-127`);
the other characters it refuses are left out. A file system is a function from resolved paths to
nodes; the target of a link is the path it leads to. `RealPath`, which follows up to
`MaxHops` links one after the other, is the reference the results are
compared with: what the operating system finds. The loop of
`resolveRealPathInside` over the ancestors of a path is `Existing`, the nearest one that
exists; the recursion of `copyWithoutSymlinks` is said of each file: the walk reaches
it by entering every directory on the way. A state is one request.

**`Push`** is one run of `patra push` (`packages/cli/src/commands/push.ts`): each
answer may be lost before or after the server has acted, only `GET` is repeated, and
`Disturb` changes the files between `Collect` and `ReadFile`. **`Login`** is
`patra login` in several terminals, with a configuration file that is truncated
before it is written.

## 8. The runs of sections 5 to 7

| Run | Instance | Shows |
|---|---|---|
| `sharing` (`MCSharing`) | 2 people, 1 team with 1 repository, 3 addresses in 3 domains, two of which differ only in case, 3 spellings of a path for shares and 5 for requests, 1 link with 2 tokens, 1 mail share, 1 project; 2 minutes; 36 file systems, each asked for 177 paths below 2 shares; 2 files, 2 attempts, 1 team share; 2 servers, 2 terminals | `DescribedIsServed`, `AccessIsConsistent`, `ProjectsHaveKeepers`, `PathsStayInside`, `ClientIsHonest`, `TokensKeepRestrictions`, `ClaimsNeverMove`, `ExpiredLinksGo` |
| `server` (`MCServer`) | 2 people, 3 addresses (two spellings of one), 1 team, 2 waiting requests; 2 drafts, 2 contents, 2 waiting handlers, 1 form with 1 record of 2, retention of a day; 1 person in 2 browsers, 2 sessions, 1 token; 2 clients, windows of 2; 1 webhook, 2 events; 3 visitors of 2 addresses | `ImplementsDirectory`, `MembershipIsGiven`, `ListedIsWhole`, `RecordsHaveTarget`, `NothingGoesEarly`, `AccountsAreWhole`, `DeadStaysDead`, `LimitersAreFair`, `DeliveriesAreTrue`, `ViewsCountOnce` |

Components that share no state are checked side by side in one run: the variable
`part` says which one moves, and the others stay as they begin. (Their product
would multiply the states and show nothing more.) `SharingTypes`, `ServerTypes` and
`ClientIsHonest` are conjunctions over the parts.

Why the bounds are enough. Two people are the one who acts and the one acted upon;
a team with one owner and a second member is where a last owner can be lost, and two
waiting requests can each have read the role before the other acted. A third
address gives a person another one and lets the second person take over the first.
The whole repository, a directory, something below it, and two spellings that do not
normalize are every relation that `ShareScopeCovers` can tell apart. One link is enough because rows are
independent; two tokens show one change of token, and the clock passes the
shortest expiry. Two drafts are the source and the target of a copy, two
waits every overlap of two handlers. Windows of two ticks have a start, a
middle and an end, with a capacity of one or two every insertion evicts.
Two events for a webhook with a limit of one row make the retention choose.

Fairness: `ExpiredLinksGo` assumes weak fairness of `Sweep`, which the scheduler
starts at every interval (`services/scheduler.ts`) as long as `SCHEDULER_ENABLED`
is not false; nothing else here is fair. `CHECK_DEADLOCK` is off because bounded
clocks and identifiers run out.

### What the modelling showed beside the properties

None of these contradicts a document strongly enough to be a finding, and no run
depends on them; they are what a reader of the code may want to know.

* `share --revoke <email>` of the client deletes every mail share the person made for
  the target, whatever the address (`packages/cli/src/commands/share.ts:103-135`).
* When the first sign-in fails or the process dies during `git init`, the account has no
  personal repository and no later sign-in makes one (`routes/auth.ts`; the
  history variable `cutShort` in `AccountsAreWhole`), although `docs/product-guide.md:13`
  describes one per user. The same holds for a team (`routes/teams.ts:102`).
* One address can use up the global ceiling of the ingestion for everybody
  (`services/siteData.ts:24-37,151`).
* An invitation that was accepted can be accepted again by its address after the
  member was removed (`services/invitations.ts`); `MembershipIsGiven` allows it, because the
  address holds the invitation.
* The metadata of an organisation link compares domains as they are spelled and the
  viewer in lower case (`routes/shares.ts:934`, `routes/view.ts:317`): the metadata
  may refuse whom the viewer serves. `DescribedIsServed` is the direction that holds.
* Names that begin with two dots are refused by `resolveInside` and dropped at the
  top of an import (`Upward`).
* A share of a path that does not normalize (`/docs`) is stored and listed to its
  recipients, and opens nothing (`routes/shares.ts:218-252`, `middleware/shareAccess.ts:25-26`).
* A deletion of a draft that fails or dies after the row has gone leaves its
  submissions in the table for good (`routes/drafts.ts:305-309`, `orphans` in `Forms`).
* An insertion that fails while a listing is replaced leaves part of it until the next
  publication (`services/fileExtractor.ts:92-101`, the stage `torn` of `RepoPublish`).
* A share outlives its creator's access to the repository.

## 9. What is proved

For any number of requests, any paths, contents and branches:

* `LockChain`, `LockMutualExclusion`, `LockFirstComeFirstServed`
  (`RepoSyncLock_proofs`): with restarts at any time, at most one import runs
  and it is the oldest. The invariant is `ChainInv`: the queued calls are
  distinct, each is chained onto the one before it, only the first can be
  running, and the map entry is the last. Without it the guard of `Start`
  says nothing about calls other than the one chained onto.
* `TypeCorrect`, `PushedEditsStay`, `OnlyPushedIsServed`, `ImportsHaveOneHolder`,
  `ListingIsWhole` (`RepoPublish_proofs`), for *every* set of faults, crashes
  included, and every overlap. The invariants are `LinkInv` (an import is at
  work exactly while it holds the lock), `ProgressInv` (what a request's `pc` and
  answer say about its commit being pushed), `HistoryInv` (ancestry is
  transitive and made of pushed commits, which is what makes the fast-forward
  check preserve `EditsNeverLost`), `ServedInv` and `StageInv` (no publication
  begins twice). That `RepoPublish` uses the lock correctly is `LockSteps`: every step
  of it is a step of `RepoSyncLock` or leaves the lock alone.
* `SerialSuccessIsServed` (`RepoPublish_proofs`), with `Overlap = {}` and without
  `hookCut` (`OneByOne`): success means served, whatever failed before. `SerialInv` says that one request
  at a time has a publication under way and that what is served reflects how far
  its own publication has come.
* `SyncRowTypes`, `RetriesAreBounded`, `SyncingHasAWorker`
  (`GitHubSyncRow_proofs`), for any requests, retries, budget and number of
  crashes. The invariant `CountInv` says that one retry is under way at a time and that
  the `retry_count` it has read is still the row's, because no request writes that
  column; only so is `saw + 1` a count of the imports. `RowInv` says who will end a
  `syncing`, and `KindInv` keeps the control states of requests and retries apart.
* `RowNamesTheImport`, `SuccessHasTheRowsConfiguration` (same module). `LinkInv`
  ties the handlers to the lock, so that mutual exclusion gives: what an import has
  put into the repository is still there when its handler writes the row. `ConfigInv`
  says that the last call in the chain carries the row's configuration.

For any number of people, teams, addresses, repositories, paths, drafts, forms,
sessions and tokens:

* `TeamsImplementDirectory`, `StandingIsGiven`, `TeamTypes` (`Teams_proofs`). The
  invariant `IInv` says that only people with an account are members and only of
  teams that exist, that every team has an owner, and that invitations and waiting
  handlers belong to teams that exist; a handler that waits to change a role
  has read "owner". Without the last part a stale request could act on a team
  Directory has dropped. `TablesInv`, what Directory alone guarantees, is kept by
  `TablesKept` and reused for the modules over it.
* `RestrictionsStay`, `RoutesAgree`, `LinkTypes`, `ClaimsStay`, `AccessConsistent`,
  `GrantTypes`, `ProjectsKept` (`Sharing_proofs`), over every step of Directory.
  `RestrictionsStay` needs that a token that is drawn differs from the one before,
  which is the type of `token`. `AccessConsistent` rests on `CoversBelow`: covering is
  transitive whatever the spellings; and on `AccessIsListed`: the table that grants access
  by a share is the one that is listed. `ProjectsKept` rests on `OwnerStays`: the owner of a
  project is a team that exists or a person with an account, so that
  `OwnersInv` gives the keeper. `RoutesAgree` is about two decisions and holds in
  every state.
* `PushTypesKept`, `ExitCodesTell`, `TokensWork` (`Sharing_proofs`), for any files,
  limits, attempts, servers and terminals. `PhaseInv` says what each phase of
  `patra push` may rely on. Its part `SharedBut` is why the exit code is right: an answer that
  was lost after the server acted is counted as a failure, so what was done is at
  most what the client asked for, and exactly that when it counted no failure.
  `ReadInv` keeps what is uploaded within the limits although the files change
  after they were counted. `LoginInv` says that a command that has come as far as
  to write holds a token its server accepts.
* `PathsInside` (`Sharing_proofs`), for any file system with links in any place, any
  paths, base and limits. The state is one request, so the work is in lemmas about the
  operators. `RealBelow`: where a path leads, the path with a name more leads to the
  entry below, unless that is a link. Hence `ResolvedIsReal`: were there something at
  the path that `resolveRealPathInside` projects onto a nearest ancestor, a nearer one
  would have existed; what is opened is what the operating system finds, not only
  something inside. `SpelledOut`: the names that pass the check mean themselves when
  they are written again. `EntersAll`: the copy reaches a file below the selection just
  when the first name below the clone does not begin with two dots. That `RealPath` is
  well defined and follows links as it says is shown by induction over the hops
  (`Hops`), which `Selection_proofs` provides without an operator parameter: a set of numbers
  that has 0 and goes on has all (`UpTo`), because a set of numbers has a least one
  (`Least`).
* `ListedWhole`, `SubmissionsHaveOwners`, `InOrder`, `FormTypes` (`Server_proofs`).
  `FilesInv` says that a file is written by one handler, before there is a row, and
  removed by a handler whose draft still has its row; only so do overlapping
  uploads, copies and removals leave no row with a torn file. `DroppingInv` says that the
  site data that is being dropped is that of a draft whose identifier is used up
  (`GoneStays`), so that nothing of another draft goes. `TargetsInv` and
  `FormLimitsInv` are the two halves of `RecordsHaveTarget`; the second one counts,
  and assumes that `RecordIds` is finite. `FormsInv` is their conjunction.
* `AccountsWhole`, `DeadStays`, `AccountTypes` (`Server_proofs`). In `AccountsInv`,
  `FirstInv` says that at most one browser initialises the repository of a person,
  `RepositoryInv` counts repositories, `OwnedInv` gives every live session, token
  and callback an account, `CredentialInv` keeps the two credentials apart.
* `LimitersFair`, `LimitTypes` (`Services_proofs`), for any window, limits,
  capacities and clients. `StoresInv` bounds a store and gives a key one bucket in it, and
  `SpentInv` numbers the requests of one instant without a gap. `BudgetInv` says what an
  open bucket counts: the requests that were allowed since it was opened, while those of
  the window before it fit a budget of their own, which gives "at most twice
  the limit in any window". `AnswerInv` says that a refusal was due. That a
  sweep in the middle, an insertion into a full store or a request that passes one limiter and
  is refused by the next keeps this is `CheckLeaves` with `PassKeeps`.
* `DeliveriesHonest`, `WebhookTypes`: `JobsInv` says that a job is the only one of its
  event and webhook and has made at least the requests the receiver got, `LogInv` that
  nothing of it is in the log yet, `SilenceInv` that nothing is sent of an event to come.
* `ViewsCountedOnce`, `ViewTypes`: each row of `ViewsInv` has the window in which it
  was recorded, counted from the start of the clock, for itself; this is stronger than
  what the table shows after old rows were purged, and inductive.

Requests in turn (`TurnsAgree`, `TurnsServeLatest`, `TurnsEditTheServed`,
`TurnsImplementPublishedRepo` of `RepoPublish_proofs`) assume `InTurn`: only imports may
overlap, the repository has one branch, and nothing goes wrong after a push (an
import's source or a clone may fail). These are the circumstances in which the code can
keep what `PublishedRepo` promises; the violation runs show each of them to be needed.
The invariant `TurnInv` says that one request is busy at a time, that while it has
pushed, the three derived stores reflect how far its *two* publications have come
(`Reflects`; the second may be clearing the worktree while the listing is complete),
and that otherwise everything agrees with HEAD (`Settled`). The lock is what makes
imports that overlap take turns here, so the proof goes through `LinkInv` of the
lock. The refinement is proved for the initial states and every step, that is, for
the safety part of `PublishedRepo`.

What holds of a component holds where it runs beside the others: `ServerIsItsParts`
says that a behaviour of `MCServer` is one of each component of the server, and
`ServerTyped` and `ServerKeepsItsPromises` carry the results over. `SharingTyped`,
`ClientHonest` and `SharingKeepsItsPromises` do this for `MCSharing`, where links, grants and
projects also share the tables of Directory: `SharingInv` joins their invariants.

Each result is about every value of the constants that satisfies the named
assumptions (`RepoPublishAssumption`, `PushAssumption`, ...), which say no more than that parameters are
of their kind, that limits are positive where the code has them so, and that the sets of
which something is counted (`RecordIds`, `Visitors`, `Entries`) are finite.

Only model-checked: what needs fairness (`EveryRequestIsAnswered`, `SyncingEnds`,
`ExpiredLinksGo`, and that readers reach the latest tree in `ImplementsPublishedRepo`),
which this prover cannot do. Every other property of a passing run is proved.

## 10. What is not modelled, and why

Publication: authentication and path scopes of the edit routes (an edit that is
refused is `EditRefuse`); the contents of archives, MIME types and sizes; the GitHub
API (its failures are `SyncSourceFails`); two imports with the same content in
the same second, which git would give the same commit; the deletion of a
repository while requests on it are under way; listing, commit log and hook files.

Simplified without an effect on the properties: the creation of a team is one action
(`routes/teams.ts:73,84,93` are three commits without a wait in between, and `Teams` has
no crash); `PutGitHubToken` is one action (`routes/users.ts:269-271` waits for the body, but
goes on with nothing but who the caller is); a link's organisation is what follows the `@` of its creator's
address (an address without one, which only `POST /dev-login` of a development server
takes, would make the link one for everybody).

Sharing and data: names, descriptions, slugs and the payload of submissions; the
notifications that handlers send after they have answered, of which `Webhooks` has the
delivery; the cookie that remembers a link's password; the export formats; the list
routes, except where a property is about what a list shows.

Paths: the 308 redirect to a trailing slash; a tree that changes between the check
and the read; the ignore files of a clone, which `git add` honours after the copy. In
the run a file system has at most two entries beside the fixed ones.

Not modelled at all: the GitHub App client and the API documents, which keep no state;
the web application, whose pages only call the API; the administration routes and the
audit log, single rows behind one check; `checkAccess` in
`middleware/shareAccess.ts:188-304`, which nothing calls. `PROJECT.json` lists every
component with its status.
