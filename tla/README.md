# A verification project for AnnotationPlatform

AnnotationPlatform is a platform on which a few dozen people annotate legal
decisions with references to statutes. A FastAPI process keeps the state in
SQLite, a background thread mirrors it to a Neon Postgres database, and a React
client edits it. This directory holds TLA+ models of the parts of that program
that are concurrent, lease-based, retried or restored, the TLC runs that check
them on small instances, and proofs, checked by TLAPS, of the results that
matter most.

Contents: [the system](#the-system), [the plan](#the-plan),
[the modules](#the-modules-and-the-code), [the runs](#the-runs),
[the proofs](#the-proofs), [what was found](#what-was-found),
[what is not modelled](#what-is-not-modelled-and-why).

## The system

### How the process runs

One uvicorn worker serves everything. What interleaves with what follows from
how a handler is written:

* `async def` handlers and the asyncio tasks (lock sweep, retention, backup)
  share the event loop. Their database calls are synchronous, so two of them
  interleave only where one awaits something that suspends.
* `def` handlers (heartbeat, skip, drafts, promote, demote, enable, most of
  training) and all dependencies (session lookup, `require_*`) run in a thread
  pool. Each of their SQL statements or transactions may fall between any two
  statements of a handler on the loop.
* the mirror dispatcher runs its batches in a worker thread.
* the command line (`backend/cli.py`) is a process of its own on the same file.

Every request has its own connection in autocommit mode; `BEGIN IMMEDIATE`
serialises writers. The models take a transaction as one step, a read outside
of a transaction as a step of its own, and the moment between authentication
and handler as an interleaving point.

### Components

| component | state it keeps | operations | talks to | hard because |
|---|---|---|---|---|
| document locks (`locks/`) | `document_locks`: one row per document with holder and `expires_at` | acquire, heartbeat, release, force release, sweep; released by save, complete, skip, logout, disable | annotations call it inside their transactions; users call it on logout and disable; every change is announced over SSE | leases against a clock; heartbeat and skip run in the pool, the rest on the loop; reads before transactions |
| annotations (`annotations/`) | `annotations`, `annotation_references` (denormalised), `annotation_versions`, `drafts` | save, complete, uncomplete, save and complete, skip, drafts | locks, quality, gamification, behavioural warnings | four paths write the same rows; a save replaces the whole list |
| quality audit (`quality/`) | `model_predictions`, `annotation_audit_logs` | upload of predictions, pre-audit, audit of a completion, acknowledgements | runs inside the transaction of a completion; documents drop stale predictions | a report, a new prediction, a new text and an acknowledgement in any order; two algorithms that must agree on what differs |
| mirror (`mirror/`, triggers) | `_outbox`, `.mirror-dispatcher.pid`, the `baran_*` tables in Neon | trigger, drain, apply, record, back off, give up, requeue | every write of a mirrored table queues a row; the boot restores from Neon | two databases without a common transaction; retries; crashes between the two commits |
| boot and shutdown (`main.py`) | - | purge of the queue, restore, seed, start of tasks | mirror, users, locks | a restart may meet any state |
| accounts (`users/`, `cli.py`) | `users`, `user_sessions`, `invite_codes` | register, login, logout, expiry, promote, demote, disable, enable, seed, account commands | every request authenticates here; disable and logout release locks | requests of administrators against each other, and against a shell |
| training (`training/`) | `training_attempts` (details as JSON), question and gold pools | start, quiz, documents, finalise, skip, reset, pool edits | gates all annotation work; awards points | read-modify-write of a JSON blob; pools that change under an attempt |
| gamification (`gamification/`) | ledger of points, totals, daily counters, streak, badges | record save, complete, skip | called after the commit of the event that it rewards | a dozen statements and transactions, each of which may fail; counters kept by read-modify-write outside transactions |
| SSE (`sse/`, `shared/sse.py`) | queues of subscribers, the roster of who is online | subscribe, publish, unsubscribe, heartbeat | locks, annotations, notifications, users; the hooks of every open page | slow consumers, order of events, connections that outlive their page |
| feed (`shuffle/`) | none | three tabs over annotations and drafts, read in pages | reads annotations and drafts | three queries that must be disjoint and cover everything; paging while documents move |
| documents (`documents/`) | `documents_meta` and reference tables | ingest, list | drops predictions whose text changed | two autocommitted statements |
| backup and restore (`backup/`, `cli.py`) | snapshots on disk, a git repository and its remote | dump, name, rotate, commit, push; restore by route or command | replaces every table | steps that fail or are killed between files, repository and remote; order of the tables against cascades and triggers |
| retention (`retention/`) | none | one deleting transaction per cycle | drafts, logs, sessions | deletes what a page may be looking at |
| behavioural warnings, notifications, feedback | one table each | insert, list, mark read | called after a save | single statements |
| exports, statistics, administration and help pages | none | reads, settings | - | nothing concurrent |
| frontend: event stream and queries (`useSSE`, `api/queries`) | the connection, cached pages of the feed, the roster | connect, reconnect, invalidate, poll, page | SSE, feed, users | answers and events that overtake each other |
| frontend: the annotation page (`AnnotateDoc`) | list, open comparison, accepted suggestions | compare, accept, override, complete, retry | quality, annotations | chains of requests that other clicks, failures and a new prediction overtake |
| frontend: the rest | view state | rendering | - | - |

`PROJECT.json` lists each of them with its sources, its status and the reason
when it is not modelled; its `hazards` list, at their lines, what in this code a
test would hardly reach, and the properties that cover it.

### What makes each component correct

* **Locks.** A promise of "yours until T" is kept unless it is given up or taken
  by an administrator; there is one holder at a time and no hand-over while a
  lease runs; nobody writes under another user's lease; peers are told who
  holds a locked document; a user who has left does not keep documents locked.
* **Annotations.** The chain of versions replays to the row and to the
  denormalised rows; what an editor read under its lock is the annotation as long
  as it has the lock.
* **Quality audit.** Completed content is content that was audited; an override
  of the model acknowledges the prediction in force, for the present text, and
  what acknowledges it by itself is known; the panel says what the bucket says; a completion is given up
  only for a reason.
* **Mirror.** The mirror is a past of the local database and catches up with it;
  trouble with one row stays with that row and those that reference it; nothing
  stays queued for ever.
* **Accounts.** There is always an administrator; whoever is disabled is out; a
  restart repairs a lock-out.
* **Training.** An attempt gets one verdict, on the work that was done, and one
  reward; it can be finished; nobody passes the gate otherwise.
* **Gamification.** A total is the sum of its ledger; a badge follows from it
  and is announced once; streak and counters are those of the days.
* **Backup.** What can be restored is one committed state; what was
  acknowledged is in the remote repository; the next push is accepted.
* **Restore.** It gives the snapshot or leaves the database as it was, and the
  former database is never lost; what refuses it is known.
* **Live views.** A page that was told of everything shows what is there, but
  for a few ways to miss it that are known; the roster becomes right by itself;
  every document is in one tab, with an item that says so.

## The plan

Done, in this order: the lease and the locks; the annotations on top of the
lease; the replica and the outbox that implements it; the accounts; the training
gate; gamification; the backup cycle; the restore; the feed with the broker and
an open page; the comparison and the page that completes a document with it.
Proofs followed each of them: every invariant and every action property of a
run is a theorem.

What would come next, and why it has not:

* an editor session in the browser: lock keeping and draft autosave composed
  with `DocumentLocks`. The requests it sends are in the models already, in any
  order, so that it would add guards and no behaviour of the server;
* lists sorted by a column that a save or a draft changes, with the places of
  the documents as part of the state of `Feed`;
* the boot as one module over `MirrorOutbox`, `Accounts` and `SnapshotRestore`.

## The modules and the code

Each component has a module; `MC<module>` gives its constants values, and
`<module>Proofs` holds its theorems (`BackupProofs` those of `SnapshotRestore`
too, `AccountsAndViewsProofs` those of `Accounts`, `Feed` and `LiveViews`; the
specifications in these are about separate variables, and only lemmas are
shared). Constants are parameters of the
deployment or of the model; the latter are called bounds where they are
declared. A definition marked "Mutant" in a comment stands before the one it
deforms and is used by nothing.

### LockLease, DocumentLocks

`LockLease` is the promise: `holder[d]` is a user or nobody, granted when there
is nobody, and ended. `DocumentLocks` is `backend/locks` with the places that
touch its table.

| variable | code |
|---|---|
| `now` | what `_now()` returns, in the unit of the leases |
| `locks` | rows of `document_locks` |
| `active`, `session` | `users.is_active`; a live row of `user_sessions` |
| `request` | a request that has passed its dependencies and waits for its handler |
| `loop` | the handler on the event loop, between two of its database statements |
| `lease`, `heard` | history: what each user was promised last, and whom the last event on a document named |

`acquire` is `AcquireCommit` (the transaction) and `AcquireAnswer` (the row read
again, the event); `release` and the forced release are a read, then the
transaction and the event; the sweep is the clock, then the transaction and the
events; a save or complete is the first check, then the transaction with the
second check. `Heartbeat` and `Skip` are one transaction each at any moment.
Since publishing does not suspend, a transaction and its event on the loop are
one step. The second check reads `expires > now` while `get_lock` reads
`expires >= now`; the model keeps both.

### Annotations

| variable | code |
|---|---|
| `holder` | the lock, as in `LockLease` |
| `ann`, `denorm`, `versions`, `drafts` | the tables of the same names; autosaves are followed of one user, `Watched` (a bound: a draft touches nothing but itself) |
| `audit` | the newest row of `annotation_audit_logs` for a document |
| `text`, `ingest`, `pred` | `documents_meta.pdf_text`, an ingestion between its two statements, `model_predictions` |
| `shown` | history: the fingerprint a user was shown last |
| `view` | what the list in the page of one user, `Watched`, begins with: the references, and whether they were read under a lock that was not lost since (`kept`) |

Every write is one `BEGIN IMMEDIATE` transaction, hence one action: `Save` is
`save_annotation`; `Complete`, `Uncomplete` and `SaveAndComplete` are the
branches of `set_complete`; each includes its draft, lock, version, audit and
denormalised rows. Requests that fail change nothing and have no action, except
`AckStale`, whose answer shows the user a new fingerprint. `LockGranted` is any
way to hold the lock: opening a document, trying again, or a heartbeat that
revives a lease which had run out. None of them makes the page read again: it
takes over the first answer of its query, which may come from the cache of an
earlier visit or be older than the grant (`Load` at any time), and its own write
alone makes it forget (`Forget`). A completion that
changes nothing is a stutter here. References are members of `Ref` up to their
canonical key; `Normalised` drops a generic reference next to a specific one of
the same law, as the code does. Which comparisons are GREEN is a constant here
and is computed in `ReferenceAudit`.

### ReferenceAudit, AuditDialog

`ReferenceAudit` holds functions only: what `normalize_references` leaves of a
list (`Cleaned`), what is compared (`Compared`: known laws completed, ignored
articles and repetitions dropped), the bucket of `route_document` (`Bucket`) and
the rows the panel shows (`ABDiff`). A reference is a record of law number and
name, article, paragraph, clause and quotation; which quotations are alike is a
constant relation, and saving has a table of laws of its own
(`SavedNumberOf`, which knows more of them). `AuditDialog` is the page (`routes/AnnotateDoc.tsx`) against
the server's audit:

| variable | code |
|---|---|
| `pred`, `ann`, `logged` | the rows of `model_predictions` and `annotations` for the document, the newest of `annotation_audit_logs` |
| `page` | list, `auditPhase`, the shown report, `acceptedKeys`, `isCompleted`, the toast |
| `job` | a chain of requests that a click started: pre-audit, commit, second audit, second commit |

A request is served in one step and answered in a later one; either may be lost.
`ServeComplete` is `evaluate_for_commit` inside `set_complete`. Buttons are
enabled as the page enables them, so two chains may run at once. A page with
`phase` "away" stands for no page: the run then compares lists with answers only.

### Replica, MirrorOutbox

`Replica` is a database and a copy that trails it by a queue of row writes.
`MirrorOutbox` is the triggers, `backend/mirror` and the mirror's part of the
boot.

| variable | code |
|---|---|
| `local`, `mirror` | the rows of the mirrored tables in SQLite and in Neon |
| `outbox`, `last` | `_outbox` and its AUTOINCREMENT |
| `batch`, `answer` | rows of the running batch not yet recorded; what Neon said of the next one |
| `process`, `pid`, `pidFile` | the server (with or without a dispatcher), its number, the PID file |
| `troubled`, `reached` | history: rows with a refused, delayed or dropped write; writes Neon has committed |
| `spare` | what is left of the model's bounds |

`Apply` and `MarkDelivered` or `MarkFailed` are two steps, since Neon and SQLite
commit separately; requests, shutdown, death and requeue fall in between.
`ApplyFails` also covers the call that commits and whose answer is lost.
`Boot` purges, restores, and takes the PID file. Times are abstracted: a backoff
may elapse at any moment. References have depth one: a row and those that
reference it. The delete guard and `ON DELETE` actions in SQLite are the
condition `ReferencesHold`.

### Accounts

| variable | code |
|---|---|
| `account`, `session` | `users.role` and `is_active`; a user's live sessions, as one |
| `login` | a login between its password check and its INSERT |
| `request` | the requests under `/api/admin/users` and how far they are |
| `cli` | a `demote-admin` between its count and its UPDATE |
| `serving` | whether the server is up |
| `overtaken`, `raced` | history: a guard was evaluated on a reading that no longer held; users disabled during a login of theirs |

A request is accepted by the dependencies, passes `_ensure_admin`, reads its
target, and commits; promote, demote and enable do so in the pool, disable on
the loop (`LoopFree`). The two variables `BOOTSTRAP_ADMIN_USERNAME` and
`BOOTSTRAP_ADMIN_PASSWORD` are taken to be set. `SessionsClosed` is retention's
`close_expired_sessions`. Locks that logout and disable release are in
`DocumentLocks`.

### Training

| variable | code |
|---|---|
| `maxAttempts` | the setting `training.max_attempts` |
| `hasPassed` | `users.has_passed_training` |
| `made`, `att` | AUTOINCREMENT and rows of `training_attempts`; `details` is `annotation_details_json` |
| `docRow`, `questionRow` | the override tables of gold documents and questions |
| `awards`, `notices` | `training_pass` ledger rows and `training_passed` notifications, per attempt |
| `skip` | a `skip_training` between its statements, with the details it read |
| `bypassed` | history: users who skipped since their last reset, or were inserted with the gate open, as the bootstrap administrator is |

A submission is one transaction and includes `finalize_if_complete` with its
three fault-isolated rewards (`Failable` names those that may fail).
`skip_training` checks, reads the open attempts before `BEGIN`, and writes the
details back: three steps. The gold documents of an attempt are drawn again from
the present pool at every call: `Draw` is any function that draws enough. Flags and
documents share the keys of one JSON object, and the counters leave out keys that
begin with an underscore (`Submitted`, `PassedDocs`): `Underscored` are the
documents an administrator gave such an id.

### Gamification

| variable | code |
|---|---|
| `ledger`, `rows`, `badges`, `inbox` | `gamification_ledger`, `gamification_state`, `badges_earned`, notifications |
| `chain`, `completed` | what the side effects look up: the two newest authors of a document, its flag |
| `job` | the side effects of the running request (`run_after_save`, `run_after_complete`), statement by statement |
| `skipping` | a `record_skip` between its read and its write |
| `lost`, `unchecked`, `activeDays`, `events`, `overlapped` | history: points without a total, users due for a badge check, days and events that were counted, users one of whose skips overlapped |

The routes do not suspend between commit and the end of their side effects, so
there is one `job`; skips run in the pool between its steps. Every step may
raise, and what the code isolates is skipped while the rest goes on.

### Backup

| variable | code |
|---|---|
| `db`, `clock` | the number of the newest transaction; the minute of a snapshot's name |
| `lock`, `cycle` | `_backup_cycle_lock`; the cycles of the loop and of "run now", step by step |
| `snaps`, `latest` | `<name>.json.gz`, `latest.json.gz` |
| `repo`, `remote` | the directory's `.git`: whether it exists, has an identity, its commits; the commits of the branch at the remote |
| `acked`, `whole` | history: cycles that reported success; initialisations that ran to their end on this disk |

A snapshot is read table by table in one read transaction; rename, copy,
rotation, initialisation (in its four git steps), commit and push are steps that
may raise, time out after the remote side acted, or be cut off by a death.

### SnapshotRestore

Six tables stand for all, with each kind of reference on both sides of the table
it refers to in the alphabetical order of a restore. `file` is the database,
`schema` the last migration it has seen, `aside` the newest one kept as
`corrupt-<time>.db.bak`, `cli` the command between its steps; `report` and
`before` are history. `Restored` is `restore_from_snapshot`: per table a DELETE
with its cascades and with the delete guard of v0019, then the rows, with the
guard of v0020 on predictions; references are checked at the commit. A
prediction is trusted or not; those that are not were written before v0020.
`RouteRestore` applies it to the live database, `CliMove`, `CliCreate` and
`CliRestore` to a new one; the command may fail or be killed in between.

### Feed, LiveViews

`Feed` holds the three tabs as sets, their order and their pages. The place of a
document in a list (`Rank`) is the number of documents that sort up to it, which
is what an ORDER BY over a total order gives. `LiveViews` is
the broker and one open page, which watches either a tab or the roster:

| variable | code |
|---|---|
| `ann`, `draft` | what the tabs and the states of their items depend on |
| `owed` | events of a committed transaction that the handler publishes next |
| `live`, `sub`, `queue` | running generators, `_subscribers`, their queues |
| `link`, `feed`, `roster`, `own` | the page: its EventSource, its two queries with the fetch under way, its own draft write with the draft in its cache |
| `feedSure`, `rosterSure` | history: the page was told of every change since its last full fetch began |

A publication does not suspend and is one step with what it drops; a read of the
feed is a SELECT and, for the first page, a COUNT. The query library is modelled
from how the hooks use it: an invalidation drops the fetch in flight and starts
over, but joins the very first fetch, and reads as many pages as are shown;
`fetchNextPage` cancels what is under way and appends to the pages that are
there. `feed.missed` says how an invalidation may have come to nothing: joined to
a first fetch that had read already, cut short by scrolling, or lost with a
request that failed. The page compares what it writes of a draft with the draft
in its cache (`DraftAnswered`), and an answer that is aborted, superseded or an
error is dropped (`DraftDropped`). `WriteDraft` is a write of another page;
`RetentionPurge` deletes drafts. Neither tells anybody.

## The runs

Twelve runs, one for each question. Type invariants are proved for every
instance where a module has proofs, and are then not run again. Times are for
two workers.

| run | asks | instance | shows |
|---|---|---|---|
| `locks` | are leases honoured, announced, respected by writes and freed? | 2 users, 1 document, leases of 1 and 2, clock to 5 | `LeaseHonoured`, `HolderAnnounced`, `NoWriteUnderLease`, `ImplementsLease`, `AbandonedLockIsFreed` |
| `annotations` | do rows, chain, audit and lock agree, and are overrides informed? | 2 users, of whom the page and the drafts of one are followed, 1 document, a generic and a specific reference, 2 texts, 2 model outputs, chains of 3 | `ChainReplays`, `CompletionIsAudited`, `EditIsCurrent`, `OverrideIsInformed` |
| `audit` | do panel and bucket agree, and does the page complete what was seen? | lists of up to 3 of 7 references against answers of up to 3 (those of 3 in one order each); a page with 2 chains, 2 predictions, an edit or a failure | `RowsMatchBucket`, `OffersAreNew`, `UnpressedOverride`, `RefusedOnlyIfOvertaken` |
| `audit_ack_retry` | is an acknowledgement always of somebody who saw the comparison, as a docstring says? | the page alone | no: see below |
| `mirror` | is the mirror a replica while Neon answers? | 5 row writes, 2 kills, 1 shutdown, 1 local error | `ImplementsReplica` |
| `mirror_faults` | does trouble stay where it is, and does the queue drain? | 2 writes of 4 rows, 2 failures, a kill, a lost disk, a requeue | `UndisturbedRowIsCurrent`, `RefusalHasACause`, `QueueDrains` |
| `mirror_retry` | is a retry harmless, as the docs say? | 2 writes, 1 failure | no: see below |
| `users` | is there always an administrator, and are the disabled out? | 2 users, 2 requests at a time | `AnAdminRemains`, `DisabledAreLoggedOut` |
| `training` | is there one verdict, one reward, and a way on? | 2 users, 2 attempts, 4 documents, one with an underscored id, of which 2 are drawn, 2 questions, 1 pool edit, 1 skip, points may fail | `AttemptCanBeFinished`, `AwardedOnce`, `ColumnsMatchDetails`, `GateIsEarned`, `VerdictIsFinal` |
| `gamification` | do total, badges, streak and counters follow from what happened? | 2 users, 1 document, 3 days, 3 requests, 1 skip, 1 failure | `TotalIsTheLedger`, `BadgesFollowTheLedger`, `StreakIsTheRun`, `CountersAreTheDays` |
| `backup` | is what can be restored whole, and what was acknowledged there; and what does a restore refuse, lose and keep? | 2 callers, 3 cycles, 2 tables, 1 snapshot kept, 2 writes, 2 faults, 1 redeployment; or 2 users, 1 document, 6 tables, 7 row writes | `SnapshotsAreWhole`, `AckedBackupIsRemote`, `LatestIsNewest`, `NextPushIsAccepted`, `RefusalIsTheGuard`, `LossIsOfFormerUsers`, `CommandRestoresExactly`, `FormerDatabaseIsKept` |
| `live` | does a page show what is there? | 2 users, 4 connections, queues of 1, 2 documents, pages of 1; one tab or the roster | `FeedIsCurrent`, `RosterIsCurrent`, `TabsPartition`, `RosterConverges` |

### Why these bounds are enough

* Locks of different documents do not interact except through the sweep and
  logout, which treat each row by itself, and through the loop, which one
  document's handlers already occupy for each other. Two users suffice for a
  row to pass from one to another. A lease of 1 and one of 2 in 5 units of time
  let a row expire, be revived, be taken over, and be swept. A lease must end
  before `Horizon`, so that what happens after its end is part of the run;
  requests for longer ones are lost.
* A chain of three versions lets a document be completed, reopened by another
  user's edit and completed again. Two references are the smallest set in which
  normalisation matters; two texts and two outputs let a prediction be replaced
  and become stale. The theorems remove the bound on the chain.
* The references of `audit` have every relation the code distinguishes: one law
  by number and by name, a law as a whole, two articles' places, another
  quotation, an ignored article, a number with another law's name, and a law
  whose name only the table of saving knows. Three of them
  on a side make pairs, repetitions and leftovers within one article. The page
  of a new document meets no answer, an unusable one, one that agrees with the
  empty list, and one that agrees once its reference is entered or accepted, so
  that every replacement turns agreement into disagreement or back; the theorems
  take any lists, orders and answers.
* Five writes of a parent and its child exhibit a child that overtakes its
  parent and a value that overtakes another; two failures use up
  `MaxRetries` = 2; a batch of two is both smaller and larger than the queue.
* Two administrators are the fewest of whom one may remove the other, and two
  requests and one command are the fewest that can overtake each other.
* Two attempts let a user fail, try again and be locked out; the reward whose
  loss shows is the points, and the other two fail by the same `Failable`; two documents
  of the release and two that an edit may add let it change a draw under an
  attempt, also to one that no count sees.
* Three days have a gap; three requests reach a review that is kept by a third
  save; one skip and one failure fall anywhere in between.
* Three cycles are one that fails, one that repairs, and one of the other
  caller; a redeployment meets a remote repository that is ahead.
* Seven writes fill every table once and write one row again after a snapshot.
  A cycle and a restore share only a finished snapshot, so that the run takes
  one of them while the other stands at its beginning (`MCSpec` in `MCBackup`).
* A queue of one is full after one event, so that the next one drops its
  subscriber; two pages of one document are the fewest between which a document
  can move. Feed and roster share only the connection and are watched one at a
  time: the feed with two writes, of which a failing request may take the place of
  one, and a connection; the roster with four connections, which let either user
  come back once, and one lock event beside them.

Users, chains of requests, and texts are interchangeable in the modules
where a run permutes them; no run that checks liveness has a symmetry. In
`annotations` the texts are permuted, since neither the outputs nor the policy
mentions one, and the users are not, since one of them is followed. Deadlock is checked where the bounds do not stop the system; the
others run out of writes, cycles or days.

### Fairness

* `DocumentLocks`: the clock advances; the handler on the loop finishes; an
  authenticated request is served or lost; the sweep task, which sleeps and
  wakes for as long as the process lives, gets the loop and the write lock
  again and again (strong fairness: other handlers come in between, and asyncio
  runs ready callbacks in order). Users promise nothing: a holder who never
  comes back is the case `AbandonedLockIsFreed` is about.
* `MirrorOutbox`: the dispatcher goes on while the process is up, a backoff
  elapses, and the supervisor restarts the process (`restart: unless-stopped`
  in docker-compose.yml). Requests, failures, deaths and requeues promise
  nothing.
* `LiveViews`: the server answers a request for the roster, the page receives
  the answer, and asks again after its `refetchInterval`. The interval rests
  while the page is hidden, so that this is said of a page in view, and of a
  hidden one once it is looked at again. Nobody has to connect,
  stay, write or scroll, and no event has to be delivered.

## The proofs

TLAPS checks these for every value of the constants that meets the named
assumptions in the modules: any users, documents, rows, references, statements,
settings, lists and predictions, and however many requests, failures and deaths.

| module | theorem | states |
|---|---|---|
| `DocumentLocksProofs` | `LeasesAreHonoured`, `WritesRespectLeases`, `PeersAreTold`, `LocksImplementLease` | `LeaseHonoured`, `NoWriteUnderLease`, `HolderAnnounced`, `ImplementsLease` |
| `AnnotationsProofs` | `TypesHold`, `ChainsReplay`, `CompletedContentIsAudited`, `EditsAreCurrent`, `OverridesAreInformed` | `TypeOK`, `ChainReplays`, `CompletionIsAudited`, `EditIsCurrent`, `OverrideIsInformed` |
| | `AuthorsCounted`, `CreditIsDue`, `CompletionsAreSigned`, `AnnotationsKeepLease` | `AuthorsAreCountedOnce`, `EditorWroteTheContent`, `CompleterMarkedIt`; that the lock refines `LockLease` here too |
| `MirrorOutboxProofs` | `TypesHold`, `UndisturbedRowsAreCurrent`, `RefusalsHaveACause`, `MirrorIsReplica` | `TypeOK`, `UndisturbedRowIsCurrent`, `RefusalHasACause`, `ImplementsReplica` |
| | `QuietQueuesDrainEqual`, `DeliveredWasCommitted` | `DrainedQueueMeansEqual` where no row had trouble; `DeliveredIsInNeon` |
| `AccountsAndViewsProofs` | `AccountTypesHold`, `AdminRemains`, `DisabledLoggedOut`, `BootRepairs` | `TypeOK`, `AnAdminRemains`, `DisabledAreLoggedOut`, `BootFindsAdmin` |
| | `LiveTypesHold`, `FeedStaysCurrent`, `RosterStaysCurrent`, `OneTabEach`, `ListsHoldTheirTabs` | `LiveTypeOK`, `FeedIsCurrent`, `RosterIsCurrent`, `TabsPartition`; that a list has the documents of its tab, each once and in order |
| `TrainingProofs` | `TypesHold`, `OneAward`, `ColumnsAgree`, `GateEarned`, `NoAttemptIsStuck`, `VerdictStands`, `AttemptsCounted`, `PoolsKept` | `TypeOK`, the five properties of the run, `AttemptsAreCounted`, `PoolsAreKept` |
| `GamificationProofs` | `TypesHold`, `TotalsHold`, `BadgesHold`, `StreaksHold`, `CountersHold` | `TypeOK` and the four properties of the run |
| `AuditDialogProofs` | `PanelMatchesBucket`, `PanelOffersTheNew`, `OverridesAreExplained`, `RefusalsAreOvertaken`; of the operators `RowsAgreeWithBucket`, `OffersAreNewForAll` | `RowsMatchBucket`, `OffersAreNew`, `UnpressedOverride`, `RefusedOnlyIfOvertaken` |
| `BackupProofs` | `FilesAreWhole`, `AcknowledgedIsRestorable`, `LatestAgrees`, `PushesFastForward`, `NothingIsReplaced` | `SnapshotsAreWhole`, `AckedBackupIsRemote`, `LatestIsNewest`, `NextPushIsAccepted`; that a rename only ever adds a file |
| | `OnlyTheGuardsRefuse`, `WhatARestoreLoses`, `TheCommandIsExact`, `FormerDatabaseStays` | `RefusalIsTheGuard`, `LossIsOfFormerUsers`, `CommandRestoresExactly`, `FormerDatabaseIsKept` |

The arguments:

* **Locks.** `LeaseHonoured` needs `ClockOK`: a sweep's cutoff is a time that
  has passed, otherwise it could delete a promised row. A promise with time left
  is a row with time left, which the check in the transaction sees. Each step
  either only ends leases, or renews the holder's or grants a free one, hence
  the refinement. `PeersAreTold` rests on `Announced`: whom the last event named
  is the holder of the row, unless the handler on the loop is between its read
  or commit and its event.
* **Annotations.** `ChainReplays` and `CompletionIsAudited` are inductive
  together: each path appends a version that follows from the row, which is the
  newest version. `EditIsCurrent` needs `ViewIsHeld`: what was read under a lock counts as
  kept only while its reader holds that lock, and a write of another user is then
  refused. A lock that ends, for whatever reason, ends that for good; what the
  page goes on with after a revived lease is in the model, and not in the
  property, since it may be out of date (see below).
  Three columns repeat what the chain says, and are kept by other statements than
  it (`Told`, `CompleterMarkedIt`). `last_edited_by` is the author of the newest
  version with a change. `unique_users_count` is at most the number of authors:
  the code misses one whose first version only set the flag (see below), so it
  is no equality. `completed_by_user_id` is the author of the newest mark, which
  is more than the chain invariant of `service.py:566` asks for: it needs that a
  completed row has an edit count (`Told`), so that completing it again appends
  an edit and no mark. `DocumentLocks` implements `LockLease`, and
  `AnnotationsKeepLease` shows that this module's lock is no more than that,
  with saves, completions and skips that release it: what is proved of
  annotations rests on the lock only through `LockLease`.
* **Mirror.** The invariant says what the queue will do. `LatestIsLocal`:
  the newest queued write of an undisturbed row is its local value.
  `BatchIsFront`: what is in the batch precedes everything undisturbed outside of
  it. `UntroubledIsEligible`: an undisturbed row never waits. `AnswerIsTrue`: an
  "ok" means that Neon has the value. `ParentsFirst`: at every queued write of a
  child, the latest earlier word on its parent, in the queue or in Neon, is that
  it exists, and the converse for deletions. `UndisturbedRowIsCurrent` alone says
  nothing of writes that are still queued and is not inductive.
  `MirrorIsReplica` has the hypothesis `NeonAnswers`: no failing call, no lost
  disk, and no boot with something to purge or restore, since those are the
  cases in which the mirror is not a replica (see below). The lag is what Neon
  has not committed; `RepeatIsHarmless` says that a write that Neon has and the
  table still queues is the oldest one, and its repetition changes nothing,
  the cascade of a deletion included. `DeliveredWasCommitted` needs only that an
  "ok" stands for a commit (`AnswerIsCommitted`) and has no such hypothesis.
  `QuietQueuesDrainEqual` is the claim that `mirror_retry` refutes, under the
  condition that makes it true.
* **Accounts.** Every transaction that removes an administrator counts inside
  it, or used a reading that still held.
* **Training.** An open attempt's columns follow its details, and a skip that
  writes old details back closes the attempt with them; a reward is given in the
  transaction that sets the verdict. `NoAttemptIsStuck` counts: an attempt with
  fewer submissions than a draw has documents has one of the present draw left,
  or one with an underscored id, which no count sees.
* **Gamification.** One fact per position of `job`: which ledger rows await
  their total, whose badges await their check. The streak is proved with
  intervals of days.
* **Audit.** Rows and bucket are two algorithms; the lemmas show what the place
  of a reference within its article pairs, for any finite list. A click's
  consent travels with its chain of requests, and a commit carries the
  fingerprint of the last comparison that was answered. It asked for nothing
  then; that it does so when the server compares again is for one of two reasons,
  which `UnpressedOverride` names.

* **Backup.** `SnapshotsAreWhole` alone is not inductive: a file becomes what its
  cycle has read (`Cycles`, where the tables read so far are one state no older
  than the start), moves into the directory, from there into a commit and from
  there to the remote repository. `Histories` says of every commit, local and
  remote, what `Directory` says of the files. Names are unique because each
  cycle takes the first free one of its minute and the lock admits one cycle;
  hence the newest file is the last one, rotation keeps it, and the copy `latest`
  lags behind it only between the rename and the copy. Only the initialisation
  that ran to its end (`whole`) makes the remote branch a prefix of the local
  one. A push only ever extends the remote branch, so what was acknowledged
  stays in it.
* **Restore.** Whatever the database holds is referentially sound (`AllSound`),
  so that the fold over the tables in their order can be followed one table at a
  time: at each place, what is refilled so far is the snapshot less what a later
  deletion cascades to. A reference is never dangling at the commit, since both
  its ends are replaced by those of the same snapshot; what remains are the two
  triggers. `FormerDatabaseIsKept` needs to know where the database is at each
  position of the command (`Owed`).
* **Live views.** While the page is told of every change (`feedSure`), what it
  shows and what it has fetched so far is the list as it is now, read up to the
  offset of the next request (`UpToDate`), or there is news it must yet hear
  (`FeedNews`): an event the handler has still to publish, one in its queue, or
  the answer to its own draft write. Any of these drops the fetch under way, or says in `feed.missed` that it
  did not and is excluded with it.
  `NextPage` says that the page at the end of a beginning of a list makes a
  longer beginning, and `ItemsOf` that the pages flatten one by one; together they
  give the read by offset. The roster is the same argument with "presence";
  a departure whose event found no room in the page's queue either stands behind
  another "presence" there or ends `rosterSure` (`Tell`). A page whose queue was dropped is
  excluded by `link \in sub`; that it heals is `RosterConverges`.

TLC checked the inductive invariants on the small instances before they were
proved. Where a proof follows a fold or a recursive function (a restore, a
normalised list, the items of the pages) it is by induction on a natural number,
taken from the well-foundedness of `<` for one set of numbers; the library's
induction theorems, which have an operator as a parameter, are not used, as the
provers cannot instantiate them.

Only model-checked is liveness: `AbandonedLockIsFreed`, `QueueDrains` and
`RosterConverges`. The provers do not do ENABLED, and with it fairness.

## What was found

`mirror_retry` ends in a counterexample against a line of the docs (quoted in
`PROJECT.json`): a row whose call failed once waits for its backoff while later
writes of the same row are delivered; its retry then overwrites the newer value
in the mirror, for good. The same follows a requeue of dead letters.

`audit_ack_retry` ends in a counterexample against the docstring of `AuditAck`
(`annotations/models.py:119`): the page compares again after a refusal, is told
that the prediction cannot be used, and sends its fingerprint as an
acknowledgement all the same (`routes/AnnotateDoc.tsx:220`). If the prediction
becomes usable with the same answer before that request is served, an override is
logged of somebody who was shown nothing. `UnpressedOverride` says that this, and
the case that follows first, are the only ways.

Seen while modelling; most of them are what a property makes an exception for:

* `annotations/service.py:632`: the comparison that counts is of the list as
  saving leaves it, while the page compared the list as it is entered. The table
  that saving reads laws by (`annotations/diff.py:68`, 28 laws) knows more names than
  that of the comparison, so that a generic reference may go and what was GREEN is
  not any more, under a fingerprint that the page sends by itself.
* `hooks/useReferencesState.ts:96`: the list of a page begins with the first
  answer of its query, which a cache may give and which is not asked for again
  when the lock is granted, or revived by a heartbeat after it ran out
  (`locks/service.py:165`). So a save under a valid lease may replace what its
  author never read; the lease (`README.md:263`) keeps writes apart, and not what
  was read before it. The
  re-check in the transaction names a row that is gone as its first case
  (`annotations/service.py:268`) and does not test for it.
* `hooks/useDraft.ts:82`: the answer of a draft write that is superseded,
  aborted or an error invalidates nothing although the write may have committed,
  and the comparison at line 59 is with the draft in the cache: the feed keeps a
  document in the wrong tab until something else happens.
* `components/annotation/DocList.tsx:55`: scrolling during a refetch cancels it
  and appends a page to the old ones; the query then counts as read, and the list
  stays stale, against what `hooks/sse/feedHandlers.ts:7` wants. An event that is
  handled after the first fetch of a tab has read joins that fetch
  (`feedHandlers.ts:20`) and is lost in the same way.
* `annotations/service.py:145`: a user whose first version only changed the
  flag is never counted in `unique_users_count` (line 136 says who is new).
* `annotations/service.py:500`: completing what is complete keeps the lock until
  its lease ends; the docstring at line 406 says that it is dropped
  unconditionally.
* `annotations/service.py:585`: who changes a completed annotation by completing
  it again is its last editor; `completed_by_user_id` stays with who marked it.
* `annotations/drafts.py:42`: an autosave that is processed after the save it
  preceded brings the deleted draft back.
* `main.py:249`: every boot purges undelivered rows of the document tables, not
  only the first one after that cleanup was written. `main.py:201`: after a lost
  disk the restore may bring back half of a transaction, since Neon has its rows
  one by one. `main.py:286`: a restore with rows still queued brings back what
  they will delete or change again.
* `mirror/dispatcher.py:80`: in a container uvicorn is always process 1
  (`Dockerfile:92`), so a server that was killed leaves a PID file in which the
  next one finds its own number and takes it for a live dispatcher
  (`audit/FIX-LOG.md:12` has it take over a stale file). It serves requests and
  mirrors nothing, and never releases the file, so that every later boot refuses
  as well: `QueueDrains` does not hold there, and `mirror_faults` checks it for
  processes with numbers that differ.
* `users/service.py:377`: the role that exempts a target from the
  last-administrator check of `disable_user` is read before the transaction
  (comment at line 373). `users/service.py:527`: a boot enables the bootstrap
  administrator again although other administrators are active.
* `cli.py:153`: a login that is under way during `reset-password` keeps a
  session that was opened with the old password.
* `training/service.py:453`: the counts leave out keys that begin with an
  underscore, and an administrator may give a gold document such an id
  (`training/routes.py:158` checks nothing). An attempt that draws it never
  finishes; the docstrings at lines 359 and 425 have every third document finish
  it. `AttemptCanBeFinished` makes that exception.
* `training/service.py:781`: a skip reads the open attempts before its
  transaction and overwrites a submission that commits in between; the attempt
  is closed with it, so that nothing follows. If that submission was the one
  that passed, `passed` and its points stay, and the details lose its document.
* `gamification/service.py:122`, `:231`: counters are reset whenever the last
  active day is not today, and only saves set that day, so that skips and
  completions of a day without a save do not add up; a skip in the pool
  overwrites the counters of a save on the loop. `review_kept` goes to the
  author of the previous version also when that version only changed the flag.
* `backup/restore.py:128`: a restore into a live database loses the rows of
  users that the database had before, and is refused when there is human work:
  the tables are replaced in alphabetical order with cascades. The command,
  which restores into a new database, loses nothing and meets no human work. A
  snapshot with one prediction of untrusted provenance, which
  the migration v0020 left in its database, is refused as a whole by the insert
  guard (`migrations/v0020_prediction_provenance_guard.py:28`, at
  `restore.py:194`), into a new database too, whatever annotations it holds
  (`docs/deployment.md:156` is about keeping those). The command moves the
  database without its `-wal` file.
* `backup/git_remote.py:155`: an initialisation that was cut off between two of
  its commands is taken for a complete one by the next cycle; the docstring
  (line 151) excludes a half-initialised directory. A killed `git` leaves
  its `index.lock`; the first commit after a redeployment drops the older
  snapshots from the tree, but not from the history.
* `shared/sse.py:52`: a subscriber dropped for a full queue keeps its connection
  and reads a queue that nobody fills, until the poll; the roster heals, the
  feed does not. A draft deleted by retention, or changed in another tab of the
  same user, is announced to no page.
* `api/queries/users.ts:18`: the comment has the roster fetched when the channel
  returns; `useSSE.ts:32` does so when it is lost.
* `shuffle/service.py:352`, `:367`: a page and the total beside it are two
  statements; with documents that move in between, a page repeats or skips one
  until the next invalidation.
* `routes/AnnotateDoc.tsx`: an accepted suggestion with the identity of a listed
  reference and another quotation is dropped as its duplicate and stays marked
  as accepted. A pre-audit "must never block a submit" (line 290), but a second
  audit that fails does. "Tamamla" in the panel of a document that another tab
  completed reopens it.
* `quality/service.py:430`: the queue of documents without a prediction is
  ordered and limited, so that as many of them as the limit, if their prediction
  always fails, hold back the others.

## What is not modelled, and why

* No state of their own, or one statement per operation, so that nothing can
  interleave: exports, statistics, feedback, administration and help pages,
  behavioural warnings, the inbox of notifications (the rows that a badge or a
  pass creates are counted in their modules).
* Contents that the properties do not tell apart: parsing and validation of
  references, the scores behind alike quotations, passwords, invite codes,
  schema synchronisation, log and audit texts, the daily shuffle (another order
  of the same list).
* The queue that the model agent polls, and the agent.
* In the browser: lock keeping and the typing behind draft autosave (their
  requests are in the models of the server, in any order); in `LiveViews`
  refetches by window focus, tabs that were shown before and come from the cache,
  a poll that rests in a hidden page; rendering.
* In `Feed`: lists sorted by `updated_at` or `editors_count`, whose places change
  with every save and draft; of an item, the fields beside its state.
* Two reads of the day within one request that midnight separates; snapshots
  whose files have the same modification time; a server that runs during the
  restore command.
* Code without behaviour of interest here: migrations, deployment and corpus
  scripts; of these, the restart policy, the process number and the empty disk
  of a new deployment are the environment of the models.
* The failure of SQLite itself (a full disk, a corrupt file) beyond the busy
  timeout (`LoopBusy`) and the local error (`IterationFails`).
