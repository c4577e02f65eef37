# MergeCom, specified

TLA+ modules of MergeCom, its services and its two clients, the TLC
configurations that check them on small instances, and proofs that TLAPS checks
for every instance. The
repository is the reference; paths below are relative to its root.

    tlc -workers 2 -config MCInspectionJobs.cfg MCInspectionJobs
    tlapm InspectionJobs_proofs.tla

`PROJECT.json` lists, for tools, the runs, the seeded mistakes that each
property must notice (operators whose names start with `Bug`, used by no
action), the source lines behind every definition, the hazards and the
theorems.

## 1. The system

MergeCom keeps Office documents of a project as an immutable version history,
and lets people compare, merge, review and approve versions. There are four
services over PostgreSQL, Redis and an S3 store, and two clients.

| part | state it keeps | operations | talks to |
|---|---|---|---|
| API, versions (`services/api/src/versions`) | `document_branches`, `document_versions`, `artifacts`, `staged_uploads`, `idempotency_records`, rows of new jobs and outbox events | createUpload, finalizeUpload, cancelUpload, restoreVersion, createComparison, createRendition, createMerge, cleanup | clients; object store; the worker, by the rows it leaves |
| API, reviews (`services/api/src/reviews`) | `review_requests`, assignments, decisions, threads, `document_branches.approved_version_id` | createReview, decide, cancelReview, createThread, addComment, resolveThread | clients; outbox |
| API, projects (`services/api/src/projects`) | projects, folders, documents, project memberships | create, update, archive, delete, move, members | clients |
| API, identity (`services/api/src/identity`) | users, sessions, memberships, invitations, login and handoff transactions | login, logout, invite, accept, revoke, role and status changes | OIDC provider, mail server |
| API, notifications, workspace, onboarding | read marks, preferences, progress | mark read, list, upsert | clients |
| worker, processing (`services/worker/src/pipeline.ts`, `processing-store.ts`) | four job tables: inspections, comparisons, renditions, merges; snapshots; outbox | dispatch, sweep, claim, heartbeat, complete, recordFailure | BullMQ, document engine, rendition engine, object store |
| worker, notifications (`notification-*.ts`) | `notification_dispatches`, `user_notifications`, `notification_deliveries`, `outbox_events.status` | reconcile, claim, fan-out, send, complete, recordFailure | BullMQ, SMTP |
| document engine (`services/document-engine`) | none | inspect, compare, merge Open XML packages | worker |
| rendition engine (`services/rendition-engine`) | a temporary directory per call | render to PDF | worker |
| Office add-in (`apps/office-addin/src`) | the base of every file address, the workflow to resume, the list its pane shows | link, open a copy, Save & Compare | API, Office documents |
| web application (`apps/web/src`) | the query client's cache, fetches and mutations under way | the pages' queries and mutations | API |
| queue, database, object store, mail server | external | | |

How the parts interact. The API never calls the worker: a transaction that
creates a version also inserts a job row and an outbox event. A dispatcher in
every worker process copies claimable rows into BullMQ queues; a BullMQ worker
starts a handler, which claims the row by a conditional update, works without
a transaction (object store, engine, mail server), and writes its result in a
second transaction. So the database rows decide, and everything else may
happen twice, late, or not at all. The branch row is shared by pushes,
restores, the worker's merge completion and the approvals of reviews. Several
versions may share one artifact, and with it one scan status.

What is hard here:

* the time between claim and completion, in which leases expire, other
  handlers of the same process (with the *same* lease owner) or of another one
  take the row, the process dies, or an answer is lost;
* two stores without a common transaction: table and queue, row and object,
  row and mail server;
* transactions at read committed, which read before they lock and, after
  waiting for a lock, see a mixture of an old snapshot and the new locked row;
* repetition: idempotency keys, their records, and what a replay answers;
* attempts that run out, in whichever of four places notices it first;
* clients that work on what they saw a while ago: a base version kept by the
  add-in for a file, a list in a page that is fetched again after a change;
* a merge that decides on reports about documents, not on the documents.

What makes each part correct:

* jobs: a job ends exactly once, its ending is published exactly once, version
  status, scan status, snapshot and object agree with it, a live lease is
  respected, attempts are bounded, and every job ends;
* versions: numbers are given once, the main line only grows at its head, no
  version replaces one its author has not seen, one request makes one version;
* reviews: the status follows from the votes, votes are never lost, one open
  review per version, the approved pointer only follows approvals, forward;
* notifications: an event is fanned out completely or not at all, mail is sent
  at least once and at most once per attempt, every event ends;
* projects and identity: the folder tree is a tree, a deleted folder is empty,
  an organization keeps an owner, an invitation is used once;
* storage: what a row refers to exists and holds what the row says, an upload
  becomes one file or none, the quota is exceeded only where sections 5 and 6
  say;
* document engine: a merge that completes is the three-way merge of the
  contents, with either head as ours; an analysis calls eligible what merges;
* add-in: no save takes away what another one has saved, and none puts the same
  bytes on the main line twice;
* web application: people see what they have just changed, and see jobs end.

`PROJECT.json` lists each place where these could break as a hazard with its
source line, and the properties that would notice.

## 2. The modules

| module | models | extends or instantiates |
|---|---|---|
| `LeasedRow` | the columns every job table has (status, attempts, available_at, lease) and the updates of the SQL statements on them | |
| `InspectionOutcome` | what an outcome does to version status and scan status | |
| `JobLifecycle` | abstract: what a job family promises | |
| `InspectionJobs` | inspection rows and handlers, any delivery order | `LeasedRow`, `InspectionOutcome`; refines `JobLifecycle` |
| `DocumentPipeline` | dispatchers, BullMQ, faults, around `InspectionJobs` | `InspectionJobs` |
| `DerivedJobs` | comparisons, renditions and merges: rows, handlers, the objects they put and record | `LeasedRow`; refines `JobLifecycle` |
| `ArtifactStorage` | uploads, finalize requests, quota and cleanup, around `DerivedJobs` | `DerivedJobs` |
| `MainLine` | abstract: what a branch promises | |
| `VersionHistory` | uploads, versions, restores, merges, idempotency | `InspectionOutcome`; refines `MainLine` |
| `NotificationDelivery` | outbox, dispatches, deliveries, mail server | `LeasedRow`; refines `JobLifecycle` |
| `ReviewApproval` | reviews, decisions, approved pointer | |
| `ProjectTree` | a project, its folders and documents, optimistic updates, the cycle trigger | |
| `Membership` | logins, sessions, invitations, memberships and their locks | |
| `DocumentMerge` | the engine's three-way merge of Word, PowerPoint and Excel | |
| `OfficeSave` | files, panes and saves of the add-in, over the API's rule for bases | |
| `ServerData` | which rows every store function reads, and who may ask | |
| `ApiRequests` | the routes: who is let through, what the answer shows, what a call changes | `ServerData` |
| `WebQueries` | the hooks of `queries.ts` and the pages | `ApiRequests` |
| `WebCache` | a query of an open page, the query client, the server | `WebQueries` |
| `InspectionJobs_proofs` | theorems about `InspectionJobs` and the queue around it | `DocumentPipeline`, `TLAPS` |
| `ArtifactStorage_proofs` | theorems about `DerivedJobs` and the storage around it | `ArtifactStorage`, `TLAPS` |
| `VersionHistory_proofs` | theorems about `VersionHistory` and `DocumentMerge`, the merges it publishes | both, `TLAPS` |
| `OfficeSave_proofs` | theorems about the two clients, `OfficeSave` and `WebCache` | both, `TLAPS` |
| `NotificationDelivery_proofs`, `ReviewApproval_proofs`, `ProjectTree_proofs`, `Membership_proofs` | theorems about the module they are named after | that module, `TLAPS` |
| `MC...` | values for the constants | the module they are named after |

### LeasedRow, InspectionJobs

A row is a record of `status`, `attempts`, `due` (available_at has passed),
`owner` and `lease` (none, live, expired): clock time is kept as the two facts
that the statements compare with `now()`, and the actions `LeaseRunsOut` and
`BecomesDue` change them at any time. `slot[s]` is one execution of
`DocumentProcessor.process`, with a program counter at each of its awaits:
claimed (`inspecting`), snapshot put (`stored`), in the catch block
(`failing`). A slot belongs to a process, and the lease owner is the process,
as in `pipeline.ts:263`. That is the point of the model: a handler that lost
its lease passes the owner check again once its own process has claimed the
row anew.

| action | code |
|---|---|
| `Enqueue` | the job row of a new version (`versions/postgres-store.ts`) |
| `Sweep` | the first statements of `listDispatchable` |
| `Claim`, `Heartbeat` | `claim`, `heartbeat`; a claim's answer may be lost |
| `InspectFails`, `StoreSnapshot` | read, inspect, `putSnapshot` with If-None-Match; the engine's answer is any member of `Results`, so two attempts may get different bytes |
| `DropResult`, `CommitResult`, `CompleteThrows` | the returns, the commit and the errors of `complete` |
| `RecordRetry`, `RecordPermanent`, `FailureNotRecorded` | the branches of `recordFailure` |
| `Crash` | a process dies with all its handlers |

`DocumentPipeline` puts the queue in between: a dispatcher goes through sweep,
list, getState, remove, add and markDispatched, one step each, for every
process; an entry of the queue is absent, waiting, active with a lock holder,
or over. BullMQ is external and modelled from the options and calls in
`queue.ts` and `pipeline.ts`: an entry id is added once, a locked entry cannot
be removed, a lock that is not renewed is taken back, a throw delays or ends
the entry.

### DerivedJobs, ArtifactStorage

The three remaining families share `job` (a leased row each), `slot` and the
object storage. What an execution does between claim and completion is a
program counter (engine asked, objects left to put, put, failing); `left` are
the keys it has still to put, since a comparison has two and may stop between
them. A put of a key that exists keeps the bytes there (`PutOnce`), and what
the row then records is what was found, so late executions and renditions of
one file meet at the same key. `refers` is what rows say, `object` what the
storage holds: `ResultsIntact` compares the two.

`ArtifactStorage` adds the API's side: an upload from `CreateUpload` to its
end, the client's puts to its staging object, any number of finalize requests
with an artifact key of their own (inspect, copy, check and commit or replay,
tidy up), `Cancel`, expiry, and the cleanup timer as three steps: list the
references, list the objects, delete one by one. An object has an age, older
than an hour or not (`aged`); what a row records may turn old at any time, and so may
what no unfinished job can put. The transaction of `finalizeUpload` is two
steps: `CheckUpload` locks the row of the upload and compares its expiry,
`Commit` follows when the lock of the branch is there. In between others that
lock or update that row wait (`Locked`), but time passes and `createUpload`
counts; `caught`, a history variable, notes an upload that falls overdue just
then. `Outages` says whether an unfinished job may
find an object older than that which no row records; see section 6.

### VersionHistory

A version is its sequence number. `history` is the table, `head` the branch
pointer; uploads carry the base the client saw, merges are keyed by (base,
ours, theirs), `record` holds the idempotency records. Every transaction that
locks the branch is one action; what `createMerge` reads before it locks is
any past value that its checks still admit (`NotRefusedBefore`).
`KeepsLine` shows that the chain of parents from the head is a line that only
grows, and that everything else stands beside it (`MainLine`).

### NotificationDelivery

A job is an event (its dispatch) or a pair of event and user (its email).
`Reconcile` is the transaction before every listing, `FanOut` the fan-out
transaction, `Send` the call to the mail server, which is a step of its own
before `CompleteEmail`. Membership and mail preference change at any time; the
type-specific rules about recipients are the constant `Recipients`. The queue
is as free as in `InspectionJobs`.

### ReviewApproval

Requests and decisions are two actions: the snapshot, then the lock.
`ApprovedSequence` is what the join of `lockReview` gives when the branch row
has changed in between (null). Roles come and go meanwhile. Cancelling locks
everything it reads and is one action.

### ProjectTree

`row` holds the project, its folders and its documents with `deleted_at`,
parent, `archived_at` and `updated_at`; `tx[t]` is a request on a connection of
the pool. A request has seen a row (`See`), and goes through its checks (one
action per method of the store), its `update` with the trigger (`Write`) and
its `commit` (`Commit`), or is refused (`Rollback`). Between those three steps
others commit, and each statement sees only what is committed: that is read
committed, and what the trigger's walk over the ancestors relies on. A caller
may keep what it has seen for any time. `overlapped` remembers whether two
transactions were ever between checks and commit at once; `CalmTree` is what
holds until then; section 6 says what may happen after.

### Membership

`request[r]` is a request between `requireOrganization`, which has read the
actor's role, and the end of its transaction. Changing a member locks the
target (`LockTarget`), then, if an owner would be lost, one other owner
(`FindOwner`, which waits and looks again), then writes; two requests that hold
what the other one wants are ended by the database (`Rollback`). An invitation
is created, mailed, revoked if the mail fails, accepted in a transaction that
locks it, and expires. Sessions are cookies or handoffs to the add-in, each with
an active organization. First logins found the organization or are admitted by
`Policy`.

### DocumentMerge

A document is its targets (paragraphs, shapes, cells) with text, split and
markup, and what surrounds them. `Decide` goes through the mergers' checks in
their order, on what the inspector reports (`Fingerprint`, `Display`) and on
hashes, and gives an outcome, the analysis and a candidate; `WordChecks` and
`StableChecks` are the lists of checks, of which the first that fails gives the
answer. `Possible` says which documents there are of a kind. The reference
is the merge of contents target by target (`Content`), which the code never
computes: `MergedRight` compares the two.

### OfficeSave

`Files` are addresses opened in one browser; the base stored for each and the
workflow to resume survive the pane. A save is a `run`: captured and announced
(`BeginSave`), finalized (`Finalize`), its answer lost (`LoseAnswer`) or kept
(`Keep`), and continued by a redraw that may come while another save is under
way. A finalization whose answer was lost may still happen (`FinalizeLate`).
The API's side is its rule: the main line is extended if the base is its head,
and the version is kept aside otherwise.

### ServerData, ApiRequests, WebQueries, WebCache

`ServerData` gives, for every store function a page depends on, the kinds of
rows its answer shows (its joins), and the authorization functions with the
roles as in the code. `ApiRequests` is one definition per route, `WebQueries`
one per hook, with the key, the request, what makes it poll, what it stores and
what it invalidates, and one per page with the hooks it mounts. `WebCache` is
the dynamics: one query of one page is watched, with any of the page's
mutations under way, while fetches start, are abandoned, fail and arrive, and
others change the server. What a mutation means for a query is four predicates
(`Changes`, `Creates`, `SetsData`, `Invalidates`). `TablesAssumption` says of
the tables that the mutations of a page invalidate the queries whose answers
they change; `OwnChangesShown`, that this is enough, whatever arrives when. A
forgotten invalidation of any mutation for any query of its page makes the
first false, which TLC reports before it starts the run, and one that does not
abandon the fetch under way violates the second.

TanStack Query (5.90.12) is external: an invalidation with data abandons the
fetch under way and fetches again, one without data lets it go on; storing an
answer abandons nothing; polls abandon nothing; a failed fetch keeps data and
mark.

## 3. The runs

All runs end within four minutes. "Slots" are concurrent handlers.

| run | instance | distinct states | shows |
|---|---|---|---|
| `inspection` | 2 versions of one file, 2 processes, 3 slots (two in one process), 2 attempts, a clean and a quarantining result | 254,533 | `OutcomeReported`, `SnapshotIntact`, `ScanFollows`, `LeaseRespected`, `NothingRewritten`, refinement of `JobLifecycle` |
| `pipeline` | 1 version, 2 processes with a dispatcher and a slot each, 2 attempts, 2 faults | 202,493 | `CalmDeliveries`; liveness: `EveryJobEnds`, `RequestsPublished` |
| `derived` | a comparison, 2 renditions of one file, a merge, of which 2 are requested; 2 processes with a slot each, 2 attempts, 2 engine answers, room for 1 object | 697,724 | `RowsAgree`, `ResultsIntact`, refinement of `JobLifecycle` |
| `storage` | 2 renditions or a merge, 1 slot, 2 uploads (one with other bytes than declared), 2 finalize requests, the cleanup timer; 3 beginnings of uploads, claims and requests | 1,164,469 | `ReferencesHold`, `OneFilePerUpload`, `QuotaKept` |
| `versions` | 2 uploads, 2 keys per operation, 4 versions | 150,452 | `Linear`, `OncePerRequest`, `MergesAreSound`, `HistoryKept`, refinement of `MainLine` |
| `notifications` | 1 event, 1 user, 2 processes, 3 slots, 2 attempts | 30,780 | `FanOutAtomic`, `MailAccounted`, refinement of `JobLifecycle`; liveness: `EveryEventEnds` |
| `reviews` | 2 versions, 2 reviews, 3 users, 2 keys, 2 transactions | 207,144 | `VotesDecide`, `OncePerKey`, `EvidenceKept`, `PointerFollowsVotes` |
| `projects` | 2 folders, 1 document, 2 transactions, 2 times | 431,030 | `NoLostUpdate`, `CalmTree` |
| `membership` | 3 users (a founder, one admitted as administrator, one below), 2 sessions, 1 invitation, 2 requests at a time, 5 begun | 1,092,435 | `OwnerRemains`, `AdminsKeepBelow`, `InvitationsEndOnce` |
| `merging` | documents of 3 targets and 3 texts, 2 edits on one side and 1 on the other, for Word, slides and sheets | 243,714 | `MergedRight`, `EitherOrder`, `EligibleMeans` |
| `office_save` | 2 files, 2 changes, 2 calls at a time, 3 versions | 1,054,750 | `NothingOverwritten`, `NoDuplicateOnLine` |
| `web` | every query of every page with that page's mutations, 2 under way, 2 changes of the server, 1 failed fetch, 2 sorts of people | 541,612 | `OwnChangesShown`; liveness: `EndsShown` |

Why the bounds are enough for the cases that matter:

* two slots in one process and one in another give every kind of late handler:
  same owner, other owner; a third of either kind would repeat a pair. Two
  attempts give a first, a retried and a last attempt; `MaxAttempts` is 5 in
  the code, and the theorems below hold for any.
* two versions of one file are needed for `ScanFollows`; two results, for the
  conflict of two puts.
* two faults let a crash fall into the recovery from another; `MaxFaults` is
  how the run says that faults stop, which liveness needs.
* two requested jobs of the derived families are two renditions that share a
  key, or a merge and another family; room for one object makes the second
  publication meet the quota.
* three beginnings in `storage` are, for example, two uploads and a
  finalization, one upload with two finalizations, or an upload beside a merge
  that is tried twice; each with the cleanup in any place.
* four versions hold a fork and its merge: a base, two pushes from it, one of
  them aside, and the merge. Two uploads and two keys give each operation a
  rival and a repetition.
* two reviews of two versions with two transactions are what the pointer needs
  to be overtaken; three users are an author, a lead and a reviewer whose role
  comes and goes.
* two folders are the smallest cycle that passes the trigger, a folder and a
  document the smallest pair that a delete can leave behind. Two times give a
  row its first value and one change, each by the clock or by the added
  millisecond; a third time multiplies the states by eighteen.
* two owners, made in two logins and a promotion, who then change each other in
  two requests, are five beginnings; the third user is one who is admitted, or
  invited, meanwhile.
* two edits against one suffice for every pair of checks of the mergers: a
  check looks at one edit, at two edits of one side, or at one of each side.
* two files, two calls and three versions hold a base that was overtaken, a
  lost answer and the repetition.
* one change by the person and one by others, or two by the person, are what a
  fetch needs to be older than what it overwrites.
* one event with one recipient suffices for `FanOutAtomic` in time (before,
  twice, after losing access); several recipients are inserted by one loop in
  one transaction. Two users exceed a million states.

Symmetry is used over versions of the same file, slots, processes, engine
answers, keys, folders, transactions, sessions, requests, files and changes,
in runs without liveness properties only.

`CHECK_DEADLOCK FALSE` is set where everything may come to rest: all jobs
ended, all uploads and versions settled, the project deleted, every session
ended, a merge request answered, a page that polls nothing. The runs of
`NotificationDelivery` and `ReviewApproval` check for deadlock; since
memberships and roles may always change there, that says little.

### Fairness

Only `DocumentPipeline`, `NotificationDelivery` and `WebCache` claim liveness.

* Weak fairness of the dispatcher's steps: `setInterval` runs it for as long
  as a process lives, and a dead process is restarted by its supervisor.
* Weak fairness of the steps of a handler: the engine calls carry an abort
  timeout; mail and storage calls are assumed to end by the defaults of their
  clients. It covers only
  steps whose calls are answered; unanswered ones are faults.
* Weak fairness of `BecomesDue` and of `LeaseRunsOut` *for a job nobody works
  on*: clocks run. A lease that a heartbeat renews need not run out.
* Delivery of a waiting entry is weakly fair in `DocumentPipeline`, where the
  entry stays until it is delivered, and `Claim` is strongly fair in
  `NotificationDelivery`, which has no queue of its own: the dispatcher lists
  a claimable row again and again, and the handlers are not always idle.
* Weak fairness of `Poll`, `Serve` and `Arrive` in `WebCache`: the timer of a
  polled query runs while the page is open and visible, and a fetch that is
  not lost is answered.
* There is none for clients, submissions, crashes or faults.

## 4. The proofs

Eight modules hold proofs, each beside the component it is named after. They
speak of any sets of versions, files, users, processes, handlers, requests and
keys, and of any bounds; nothing is fixed but what the assumptions below say.
Where a theorem states a property of section 3 the run checks it on an
instance, the theorem for all of them. Every inductive invariant was first
checked by TLC as an invariant of the run of its component, in all the distinct
states the table of section 3 gives.

| module | theorem | says |
|---|---|---|
| `InspectionJobs_proofs` | `TypeCorrect` | types, with attempts never past the maximum |
| | `OutcomesAreReported`, `SnapshotsAreIntact`, `ScansFollow` | `OutcomeReported`, `SnapshotIntact`, `ScanFollows` |
| | `NothingIsRewritten`, `LeasesAreRespected` | no step rewrites an ending, a snapshot or an object, or releases a file; a live lease is only given up by a handler of its own process on that job |
| | `LifecycleIsKept` | refinement of `JobLifecycle` |
| | `PipelineRunsJobs` | refinement: behind the queue of `DocumentPipeline`, the jobs behave as `InspectionJobs` lets them, so all of the above holds there |
| | `PipelineTypes`, `DeliveriesAreCalm` | types of queue, locks and dispatchers; `CalmDeliveries` |
| `ArtifactStorage_proofs` | `RowsAlwaysAgree`, `ResultsStayIntact` | `RowsAgree` and `ResultsIntact` of `DerivedJobs` |
| | `LifecycleIsKept` | refinement of `JobLifecycle` by the three families |
| | `UploadsBecomeOne`, `QuotaAlwaysKept` | `OneFilePerUpload`, `QuotaKept`, also with outages |
| | `CleanupSparesReferences` | `ReferencesHold`, without outages |
| | `RowsAgreeInStorage`, `StorageKeepsLifecycle` | `RowsAgree` and the refinement of `JobLifecycle` again, beside uploads, requests and cleanup, also with outages |
| `VersionHistory_proofs` | `TypeCorrect`, `LineIsLinear`, `RequestsMakeOne`, `SoundMerges` | types, `Linear`, `OncePerRequest`, `MergesAreSound` |
| | `HistoryIsKept`, `LineIsKept` | `HistoryKept`; refinement of `MainLine` |
| | `MergesAreRight`, `EitherHeadMayBeOurs`, `EligibleIsKept` | `MergedRight`, `EitherOrder`, `EligibleMeans` of `DocumentMerge`, for documents with any number of targets and any texts |
| | `PassedIsVerified` | once all checks pass, the verification of the candidate cannot fail |
| | `AnswersAreDecisions`, `MergeTypeCorrect` | the invariant and the types of `DocumentMerge` |
| `NotificationDelivery_proofs` | `TypeCorrect`, `FanOutsAreAtomic`, `MailIsAccounted` | types, `FanOutAtomic`, `MailAccounted` |
| | `LifecycleIsKept` | refinement of `JobLifecycle` by the dispatches |
| `ReviewApproval_proofs` | `TypeCorrect`, `StatusFollowsVotes`, `KeysOpenOnce` | types, `VotesDecide`, `OncePerKey` |
| | `ReviewsDoNotOverlap` | a version has one open review at most |
| | `EvidenceIsKept`, `PointerFollows` | `EvidenceKept`, `PointerFollowsVotes` |
| `ProjectTree_proofs` | `TypeCorrect`, `CalmTreeHolds`, `UpdatesAreNotLost` | types, `CalmTree`, `NoLostUpdate` |
| `Membership_proofs` | `TypeCorrect`, `AnOwnerRemains`, `InvitationsEnd`, `AdminsOnlyBelow` | types, `OwnerRemains`, `InvitationsEndOnce`, `AdminsKeepBelow` |
| `OfficeSave_proofs` | `TypeCorrect`, `NothingIsOverwritten`, `NothingIsDuplicated` | types, `NothingOverwritten`, `NoDuplicateOnLine` |
| | `WebTypeCorrect`, `OwnChangesAreShown` | types and `OwnChangesShown` of `WebCache` |

### The assumptions

They are the `ASSUME`s of the modules. What they say of the code:
`MaxAttempts` is a positive natural and bounds are naturals; every handler
belongs to a process, every version to a file, every event has a set of
recipients; the families of jobs, the kinds of rows, the events and their mails
are apart; the quota is a natural; an upload's bytes are what was declared or
are not; roles are those of the schema; a review asks a non-empty, finite set
of people (`createReview` refuses an empty one); a project has finitely many
folders, without which a walk to the top need not end; `None` and `Root`, which
stand for SQL null, and `Nothing` and `Blank` of a document are apart from
what they stand beside; what is merged are documents that exist of their kind
(`InputsAssumption`). Finite sets are assumed nowhere else.

One assumption is not about constants. `TablesAssumption` is a statement about
the tables of `WebQueries`, `ApiRequests` and `ServerData`: for every page and
every query of it, the mutations of the page invalidate the query if they
change it (`Followed`; except the pairs of `LeftStale`). The tables are finite
and have no parameter, so TLC, which evaluates it in the run `web`, decides it
once and for all; the proofs use it as it stands instead of going through the
tables.

### The arguments

The proofs are laid out alike: lemmas on what an action does to the rows,
lemmas on how the parts of the invariant follow from that, one step per action,
and theorems that draw the properties from the invariant. In each case the
properties of the runs are not inductive by themselves; what they lack is what
the code relies on between two of its steps.

* `InspectionJobs`. `Shape`: a row has an owner and a lease exactly while it
  runs, a waiting row has an attempt left (or a claim would pass the maximum),
  and a handler that stored a snapshot holds the very result that lies in the
  object store (or a commit could record something else). `Reports` is the
  three properties, inductive on top of it.
* `DocumentPipeline`. A lock is held by a handler that works on that version,
  and as long as nothing failed every busy handler holds its lock; an active
  entry is not added again, so no second handler starts, *although leases run
  out meanwhile*. A dispatcher's list may be old at every step, and the proof
  uses nothing of it.
* `DerivedJobs`. `Story`: what a row records is a result its family can have,
  only a job that has ended, and not in failure, records one, and a merge has
  a candidate among the files, and one only, exactly when it is completed.
  `Held`: what an execution of an unfinished job has put so far is still there
  with its bytes, though others put under the same key; that is what makes
  recording after the last put sound.
* `ArtifactStorage`. `Finalizing`: only inspected bytes are copied, a copy of a
  request belongs to no other, and cleanup neither sees it old nor dooms it
  before the request is over; an upload that is finalized has one file, any
  other none. `Locking`: one request at most has checked an upload and not
  committed, the upload is pending until then, and if it is overdue it was
  caught. `Counts`: files, open uploads, published merges and late uploads are
  finitely many, and a step that adds a file takes an open upload away, makes a
  caught one late, or publishes a merge. `CleanupSpares`, without outages: an old object that a job may still
  put is recorded, cleanup dooms nothing that is recorded or may yet be put, and
  between its look at the rows and its look at the storage no recorded object
  turns old. With outages a retry may find an old object that no row records
  and put nothing new, and cleanup may take it away under the retry; then
  neither `Held` nor `ResultsIntact` holds (`FilesHold` in section 6), while
  rows, uploads and quota still agree.
* `VersionHistory`. Parents are older than their children, the line from the
  head has no version twice, and what lies beside it makes up the rest; what
  uploads, merges and records name has been created. `Ancestry` and `LineTo`
  are recursive functions; what is needed of them for histories of any length,
  such as that an append leaves the ancestors of older versions alone, comes by
  descent: a set of naturals has a least member (`LeastNumber`, from the
  library's theorem that `<` is well-founded), and a least version for which it
  failed would have a parent for which it holds.
* `NotificationDelivery`. `Accounts`: the mails accepted and the handlers that
  are about to send one are together no more than the attempts, for each
  delivery; a claim adds one to either side, a crash takes one from the left.
* `ReviewApproval`. A transaction holds its key alone from its snapshot on; the
  approved and the objecting are among the assigned, the status says which of
  them there are, and of the open reviews of a version there is one. Two
  decisions that were both taken from old snapshots are counted in the row they
  lock, which is why the status follows.
* `ProjectTree`. `Changing`: between `Write` and `Commit` the row is as its
  writer saw it, and no other transaction writes it. `Calm`: before any two
  transactions have overlapped, a running one runs alone, and what its checks
  found of parents and contents still holds when it commits. The trigger's
  walk is a function of as many steps as there are folders; the lemmas show
  that it is the least set that holds its start and every parent of its
  members (`AboveHolds`, `AboveLeast`), and from that that a move keeps the
  tree if the walk does not meet the moved folder (`MoveKeepsTree`).
* `Membership`. `Holding`, `Exclusive`, `Covered`: a transaction that changes a
  row has it locked and may change it, no two lock the same row, and one that
  takes an owner away has locked *another* active owner; so of any two such
  transactions neither can take the one that the other counts on.
  `Acceptors`: one transaction accepts an invitation, and finds it open.
* `OfficeSave`. `BasesHeld`: a file holds every change of its base. `Sound`: a
  save under way carries every change of its base, and no version up to that
  base has its bytes; a finalization extends the line only from its head, so
  neither property can fail when it lands, however late.
* `DocumentMerge`. There is one step, so the invariant only says that the
  answer is a decision on two heads and their base; the argument is about
  `Decide`. `ChangesOfContents`: a comparison whose changes are all mergeable
  changes contents of targets that are listed in both documents, in the same
  shape, and reports a target exactly if its fingerprints differ. So if every
  check passes the heads are `Joinable`: they keep the shape and the parts of
  their base, changed only texts, and where both changed a target they agree.
  The candidate then `Joins` them: each target is that of the side which
  changed it. From that follow the three-way merge, target by target
  (`JoinIsThreeWay`); that swapping the heads gives the same contents
  (`JoinsShowTheSame`), the checks being symmetric (`PassesEitherWay`); and
  that the candidate's own comparison finds the union of the changes, so that
  the verification that follows never fails (`JoinIsVerified`). What the
  proof needs and the code nowhere says: the mergers do not compare the order
  of shapes, they compare places. Equal places mean equal order only if there
  are two shapes; an order of fewer is none, which `Possible` now says of
  slides (`SlidesKeepOrder`).
* `WebCache`. What the page owes was changed by a mutation that changes the
  query, made nothing new (the page had data, and data of a rendition shows
  that there is one: `DataHasJob`), and is not in `LeftStale`; so by
  `TablesAssumption` it invalidates the query, and with data to mark the
  invalidation abandons the fetch under way. Hence `OwedIsComing`: an answer
  under way is never older than what is owed. An answer stored by a mutation
  itself may be older, and clears the mark; `TablesAssumption` has that no
  mutation of a page that owes anything stores without invalidating.

### Only model-checked

* Liveness, which rests on fairness: `EveryJobEnds`, `RequestsPublished`,
  `EveryEventEnds`, `EndsShown`.
* `TablesAssumption` of `WebCache`, which TLC decides, as said above.
* What a recursive function computes for every argument, beyond what descent to
  a least number gives, would need induction with a formula as a parameter.

## 5. What is abstracted and what is left out

Everywhere:

* Times are the facts a row is compared by; delays and back-off have no length.
* A transaction that only reads or only throws is not an action; one that is
  rolled back has no effect, except where its waiting matters
  (`ReviewApproval`, `Membership`) or what it has written is in others' way
  (`ProjectTree`).
* Lock order is modelled in `Membership` only; elsewhere transactions take all
  their locks at once, but for `finalizeUpload` in `ArtifactStorage`, which
  keeps the row of the upload while it waits for the branch. A deadlock aborts one of them, which any step not taken
  also covers; that some pairs do deadlock is listed as a hazard.
* Engine output is a member of a small set of results; file contents, hashes
  and JSON are identities of results.
* Authorization is a guard where it can change during an operation (reviews,
  recipients, members) or decides what a page may ask (`ApiRequests`), and an
  assumption on the caller elsewhere.

By module:

* Idempotency records of versions do not age: a replay after the record
  expired runs into the unique index and changes nothing else. A key of
  `ReviewApproval` is a key within the day its record is kept.
* `ArtifactStorage`: an execution or request ends within the hour cleanup
  waits after it has put an object, and, unless `Outages`, no job is tried an
  hour after an attempt that failed and left the object it will put; a client
  that repeats the put of an upload sends the same bytes; multipart uploads and
  download links change no row of the protocol. The worker does not count open
  uploads against the quota, so `QuotaKept` bounds the excess by the merges
  published, and by the uploads that fell overdue between the check and the
  commit of their finalization (`ReservationsHold` in section 6). There is one
  clock: the check compares the API's, `createUpload` the database's, and an
  API whose clock is late widens that window by the difference.
* `Membership`: one organization; a single statement is atomic; `Rollback`
  covers denials, the last owner and the victims of deadlocks. Two pending
  invitations of one address may exist, as in the code. Disabled users,
  shared addresses, project invitations and rate limits are left out.
* `DocumentMerge`: request validation, package checks, nested paragraphs and
  the reading and writing of Open XML; duplicate shape identifiers, which make
  the engine answer 500 and the worker try again; for slides, what surrounds
  the shapes is unchecked by the merger and by the model.
* `OfficeSave`: files with equal changes have equal bytes; capturing the file
  and announcing its upload are one step, and so are storing the base and the
  workflow; one browser holds all files. The comparison after a save, and the
  part of the workflow that awaits it, are a redraw. A file that is replaced
  from outside is not modelled.
* `ServerData`: which rows an answer shows, not how it is computed. A list is
  read at one instant, though its statements are several.
* `WebCache`: one id of every kind; one query at a time; a change counts from
  the answer to it, when the page had loaded; a refused call or a lost answer
  shows an error and fetches nothing. A page that is replaced by an error after
  a failed background fetch, leaving the page by signing out, and pages in the
  background, whose timers rest, are left out. `LeftStale` lists the pairs of a
  mutation and a query that the code does leave stale; `TablesAssumption` is
  false if one of them is removed. An upload of the history page takes the
  *shown* head as its base: a list that was fetched again after the person
  chose the file makes the other's version its base without a conflict.

Not modelled: unique names, ordering and creation keys of projects; review
discussions beyond who may and what changes; the ranking and contents of work
lists, search and the checklist; configuration, HTTP, CSRF and parsing; the
rendition engine (a stateless process per call) and the document engine's
inspection and comparison reports as such; sign-in of the add-in; rendering,
forms, navigation and viewers of the web application; generated contracts,
fixtures, scripts and the archived prototypes.

## 6. Known disagreements

Statements of the documentation that the code does not keep, found while
modelling. The formulas are in the modules; they do not hold, so no run has
them, and TLC shows each violated when it is put in a configuration as the only
property (with the values of the run of its module unless said otherwise).

* `NoEmailStranded` (`NotificationDelivery`). `recordEmailFailure`
  (`services/worker/src/notification-store.ts:505`) decides between retry and
  end by the attempts its own handler claimed, while its guard is only that the
  row runs under this process's lease owner. After the sweep and a second
  handler of the process took the last attempt, a late failure of the first
  makes the row `retryable_failed` with no attempt left, and nothing takes it
  again. `docs/product/notifications.md:36`: "exhausted or permanent work
  retains a failure code and error for operators."
* `PointerForward` (`ReviewApproval`). `lockReview`
  (`services/api/src/reviews/postgres-store.ts:549`) left-joins the approved
  version and locks only review and branch. A transaction that waited for the
  branch row sees the new branch with the old join, so the approved sequence is
  null, and the older of two approvals that meet moves the pointer back.
  `docs/product/review-workflow.md:36`: "the pointer does not move backward."
* `FoldersFormTree` (`ProjectTree`). The trigger
  (`services/api/drizzle/0001_good_kate_bishop.sql:143`) walks the ancestors
  without a lock: two folders moved under each other at the same time both
  pass and form a cycle, round which `getFolderPath` then goes without end.
  `docs/product/projects-folders.md:16`: "A database trigger walks folder
  ancestry and rejects self-parenting and cycles."
* `SameOutcome` (`VersionHistory`). A repeated finalization
  (`services/api/src/versions/postgres-store.ts:2202`) derives its outcome from
  the version's present status, so a push that conflicted is answered `created`
  once its inspection failed. `docs/product/version-semantics.md:42`: "Repeated
  finalization with the same idempotency key returns the same outcome".
* `MergeRequestsRepeat` (`VersionHistory`). `createMerge` (same file, line
  1680) compares the head before it looks for the key's record, so a repeated
  request is refused once the head moved, by its own result if by nothing else.
  `docs/product/conservative-merge.md:122`: "Requests are idempotent".
* `FilesHold` (`ArtifactStorage`, with `Outages = TRUE`, no `Renditions`, no
  `Uploads` and `Sent <- NothingSent`, no `Attempts`, `Quota = 2`). `cleanup`
  (`services/api/src/versions/service.ts:924`) reads the references once. A
  merge whose first attempt put its candidate more than an hour ago is tried
  again, finds the object and publishes it, and cleanup, which read before,
  deletes the file of the new version. In the same way it deletes the pages of
  a rendition whose file had an earlier rendition that failed after its put.
  `docs/product/artifact-versioning.md:45`: "only after an age threshold and a
  fresh database reference check".
* `ReservationsHold` (`ArtifactStorage`). `finalizeUpload`
  (`services/api/src/versions/postgres-store.ts:2248`) compares the expiry of
  the upload, then waits for the branch lock, and does not lock the
  organization. If the upload falls overdue meanwhile, a `createUpload`
  (line 2003) counts neither it nor its file and gives its place away, and the
  files and open uploads exceed the quota once the file is committed.
  `docs/phase-status.md:436`: "serialized organization quota reservations".
* `FrameKept` (`DocumentMerge`). Markup of `word/document.xml` in no paragraph
  and in no counted structure (margins, properties of tables and rows) is
  compared by none of the checks of a Word merge
  (`services/document-engine/src/MergeCom.DocumentEngine/OoxmlMerger.cs:152`), so a
  change of it on their side is lost beside a change of a paragraph.
  `docs/product/conservative-merge.md:143` asks for manual resolution. The
  Excel merger has such a check.
* Without a formula: `docs/product/office-version-push.md:56` says "An unbased or
  stale push is still uploaded, but finalization preserves it as an incoming
  conflict"; `createUpload` refuses an upload without a base once the branch has
  a head (`services/api/src/versions/postgres-store.ts:1982`).

## 7. Plan

Done: the job protocol, the pipeline around it, the three derived families,
object storage, versions, notifications, reviews, the project tree, membership,
the three-way merge, the add-in's saves, and the web application's queries with
the routes behind them; and the proofs of section 4. Next, in this order:

1. Proofs. For `PointerForward` and `FoldersFormTree`, the weakest condition
   on transactions under which they hold, as `CalmTree` is one. For Word, the
   condition on the markup around the paragraphs under which `FrameKept` holds.
2. Review discussions, as threads and comments beside `ReviewApproval`: with
   its decisions they exceed the time of a run and need an instance of their
   own.
3. The order of locks across the transactions of one branch.
