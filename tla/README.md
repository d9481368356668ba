# Verification of ADinsights

TLA+ models, TLC runs and TLAPS proofs for the Django/Celery backend of ADinsights
(`src/backend`): the parts in which a wrong interleaving, a lost worker or a stale copy is visible
to a client. Content Operations (the path of a draft to a post) came first, then the machinery
around connectors: keys, credentials, Airbyte, Google Ads, Meta, and the exports built on their
data. `PROJECT.json` holds the machine-readable index: components, runs, mutants, the map from
every definition to the lines it models, hazards and theorems.

## 1. The system

A multi-tenant Django application with Celery workers and Celery beat. Processes share nothing
but the database, the broker and external services. `ATOMIC_REQUESTS` is off: a request commits
every save on its own. Celery acknowledges late and rejects on worker loss, so a task may be
delivered again. Handlers protect themselves with `transaction.atomic` and
`select_for_update` where they do at all; most load a row, call a provider for seconds or minutes,
and save the row, or the columns they name, over whatever it has become.

| Component | State | Operations | Hard behaviour | What makes it correct |
| --- | --- | --- | --- | --- |
| Drafts, versions, approvals, schedules (`content_ops/views.py`, `models.py`, `serializers.py`) | draft state and active version, versions, approval requests, schedules with an approval snapshot | PATCH, create version, submit to internal/client review, decide, schedule, unschedule, publish-now | stale copies written back, checks done before the save they guard, requests that end half-way | nothing is posted that a client did not approve; decisions and cancellations stand; approvals are for the active version |
| Schedule dispatcher (`content_ops/scheduler.py`) | schedules, attempts keyed by idempotency key | scan of due schedules, dispatch, dispatch-now | scan without a lock against cancel and publish-now | a schedule is dispatched once, and only if its snapshot is current |
| Publish attempt processor (`content_ops/publisher.py`, `tasks.py`) | attempt state, retry count, media container, published posts, aggregate state of schedule and draft | process scan, direct task, retry scan, claim, calls of the Graph API, marks | overlapping workers, unlocked preflight, lost answers, lost workers, expiring containers | one publish call at a time, bounded calls, outcomes stand, schedule is the aggregate, everything settles |
| Graph adapters (`facebook_graph.py`, `instagram_graph.py`) | posts and containers at Meta | publish, create container, poll, media_publish | answer lost after the effect | classified outcome |
| Generation jobs (`generation.py`, `image_generation.py`, `metering.py`) | job state, usage records, quotas | request, run, cancel, edit, delete | check-then-act on caps, redelivery, outcome saved over a cancellation | results are stored once, tokens pass the cap by one call a worker at most |
| Tenant keys (`core/crypto/*`, sealed rows in `integrations/models.py`) | tenant key, sealed rows | first key, seal, open, weekly rotation | rotation is not one transaction, stores the key last, and overlaps writes of the rows | every listed secret is readable with the stored key, and is the newest one |
| Airbyte scheduling (`integrations/airbyte`, `core/tasks.py`, `integrations/views.py`) | connection rows, the tenant's status, Airbyte's jobs | due selection, trigger, poll, webhook, backfill, reconcile, PATCH | poll, webhook and PATCH race; retry of a trigger | rows tell what jobs did, intervals are kept, rows catch up |
| Google Ads engine (`integrations/tasks.py`, `google_ads/parity.py`, `google_ads_views.py`) | sync state: engines, fallback, two failure counters | hourly SDK sync, daily parity check, rollback, provisioning | counters computed from rows loaded minutes ago, two saves per rollback | an account rolls back exactly after the failures that earn it, and stays rolled back |
| Connector lifecycle (`connector_lifecycle_views.py`, `google_ads_views.py`) | credential, Airbyte source and connection, rows that mirror them | callback, exchange, refresh, provision, disconnect, reconnect, delete | calls under a row lock, answers lost after the effect, late creations, disconnect against all | one source and connection per account, a disconnect stands, refresh tokens are not lost |
| Meta direct sync (`integrations/tasks.py`, `views.py`) | one `MetaAccountSyncState` row per account, messages | sync request, slice with three fetches, hourly and daily tasks, webhook, provisioning | five writers of one row, redelivery, inline fallback, errors half-way | a row shown active has data, a row that says running has a job, and comes to an end |
| Report exports (`analytics/phase2_views.py`, `tasks.py`, `reporting_*.py`) | job rows, frozen previews, cache, files, messages | export, dry run, render, edit, delete, download | redelivery, lost worker, a send that fails after the message is out, stale cache | what can be downloaded exists and shows what was asked for; jobs end |
| Publishing identities, readiness, organic metrics | derived rows | idempotent upserts | none across steps | – |
| Metrics snapshots, AI summaries (`analytics/tasks.py`, ...) | cached snapshot, one summary a day | refresh, generate | a lock with a lifetime | – |
| Alerts and notifications | rule runs, channels | evaluate, notify | redelivery | – |
| Accounts, tenancy, audit | users, tenants, audit rows | CRUD, invitations, resets | – | – |
| Reporting and warehouse adapters, frontend, dbt, observability | none of their own | reads, SQL, rendering | – | – |

How they interact: a request writes drafts and schedules; beat's dispatch task turns due
schedules into attempts, publish-now does so inside the request; beat's process task (which
publish-now enqueues once more) takes attempts through preflight, claim and Graph calls and
writes the aggregate back to the schedule and the draft, where the next request finds it.
`ContentWorkflow` and `PublishPipeline` share exactly this interface: the first ends in an attempt
cut to its preflight and its outcome, the second starts from a dispatched schedule.

The connectors share the credential: OAuth callbacks and refreshes save it (`ConnectorLifecycle`
follows its refresh token, `TenantSecrets` the key that seals it), provisioning turns it into an
Airbyte source and connection, whose jobs `AirbyteSync` schedules, unless the account is read by
the provider's SDK (`GoogleAdsEngine`) or Graph API (`MetaDirectSync`). Each module takes what
another one owns as given or as a step of its environment: a fetch succeeds or fails, a credential
is there or not.

## 2. Modules

| Module | What it is |
| --- | --- |
| `PublishPipeline` | the attempt processor: workers, database rows, Graph calls |
| `AttemptLifecycle` | what the processor promises of a Facebook attempt: waits, is held, asks once, is delivered, waits again or is closed |
| `PublishPipeline_proofs` | theorems for all constants, with the refinement |
| `ContentWorkflow` | requests, decisions, schedules, dispatch, for one draft |
| `ScheduleLifecycle` | what the workflow promises of a schedule: made once, vouched for by a client or not, dispatched once, sent, ended |
| `ContentWorkflow_proofs` | theorems for all constants, with the refinement |
| `GenerationJobs` | caption and image jobs, quotas and metering |
| `TenantSecrets` | the tenant's key, its rotation, and every writer of a sealed row |
| `AirbyteSync` | connections, Airbyte's jobs and everything that stores what became of them |
| `GoogleAdsEngine` | which engine reads an account, and the rollback |
| `ConnectorState`, `ConnectorLifecycle` | credential, source, connection and the requests at work on them: their state and its properties, and the steps |
| `MetaDirectSync` | one account's sync state and its five writers |
| `ReportExports` | export jobs of one report |
| `GoogleAdsEngine_proofs`, `GenerationJobs_proofs`, `TenantSecrets_proofs`, `MetaDirectSync_proofs`, `ReportExports_proofs` | theorems for all constants |
| `AirbyteConnections_proofs` | the same for the two modules that write connection rows: it extends `AirbyteSync` and `ConnectorState`, and has the steps of `ConnectorLifecycle` as the instance `Conn` |
| `MC*` | the same for TLC: symmetry sets, where there are any |

Definitions that stand before another one with the comment "Mutant of" are variants of the next
one with a plausible error (section 3); nothing else uses them.

### PublishPipeline

One schedule, dispatched, with a set of Facebook Page attempts and a set of Instagram attempts
(several Facebook attempts are possible: targets may name different pages). A worker is a program
counter (`pc`), the attempt it holds (`cur`), the rest of its scan (`todo`) and the provider answer
it has not stored yet (`verdict`). The database has the attempt's state, retry count and container,
the schedule's and the draft's state, and the number of `PublishedPost` rows.

*Grain.* Every transaction is one step. `_locked_attempt` joins schedule, draft, version and
workspace, and `FOR UPDATE` without `of=` locks all joined rows, so transactions of one workspace
exclude each other; one that meets a lock reads `None` and the caller drops its result (`Miss`).
Unlocked reads (scan, preflight, the reads before and after polling) and Graph calls are steps of
their own. On PostgreSQL the join of the nullable `publishing_identity` makes this
`FOR UPDATE` invalid, and on SQLite `select_for_update` does nothing (one writer at a time): the
model describes the code on a database that executes it as written.

*Actions.* `ScanDueAttempts`, `TakeAttempt`, `ProcessContentPublishAttempt` (the direct task, only
for Facebook attempts; it is registered with Celery and routed, but enqueued by hand only), `Preflight` and `MarkAttemptBlocked`; for Facebook `ClaimFacebookAttempt`,
`CallFacebook`; for Instagram `PrepareInstagramAttempt`, `CreateMediaContainer`,
`MarkInstagramContainerPending`, `GetMediaContainerStatus`, `MarkInstagramContainerReady`,
`PublishMediaContainer`, `MarkInstagramContainerExpired`; `MarkProviderFailure`,
`MarkAttemptPublished`, `RequeueFailedPublishAttempt`; and the environment: `Crash` (a lost worker,
or an exception other than the provider errors), `ContainerAges`, `FitnessChanges` (whatever the
preflight checks besides the two states), `SubmitInternalReview` (accepted in every draft state).

*Abstractions.* Time is not modelled: a retry may be due at once (the retry endpoint ignores
`next_retry_at`), a container is `fresh` or `expired`. Scan order is arbitrary. Counters saturate at
`CounterCap`. Review states of the draft are one. Whether Meta publishes one container twice is
left open. `STATE_PREFLIGHT` is never written by the code and is left out.

### ContentWorkflow

One draft, its versions, approval requests, schedules (one target each), and requests being served.
A request is a program counter and what it has read: `seen` is the draft as it was loaded (only
the columns used later), `snapshot` the approval snapshot it is building. Each save and each read
of shared rows is a step; `Abort` may end a request after any of them. The transactions
(`SaveVersion`, `Decide`, `DispatchSchedule`) are one step. The dispatch scan lists schedules
(`due`) without a lock and dispatches them later; a dispatch may find the rows locked and do
nothing. Processing is one worker, cut to preflight and claim-with-answer: what several workers do
to an attempt is the subject of `PublishPipeline`.

*Abstractions.* Time is not modelled: a schedule may be due at any moment. The approval mode of
the workspace may be changed at any moment, so publish-now may find either. Draft states no code
tells apart are one (`generated` and `draft`; the two `changes_requested`). A PATCH may name any
version of the draft; the serializer also accepts a version of another draft, which is left out.
`ContentSchedule.STATE_LOCKED` is never written.

### AttemptLifecycle, ScheduleLifecycle and the refinements

`AttemptLifecycle` has three variables (phase, tries, posts) and no workers, locks, reads or
crashes. `PublishPipeline` implements it (`FollowsLifecycle`, checked by TLC in `FacebookSafety`
and proved in `PublishPipeline_proofs`): an attempt is *held* while some worker has claimed it and
not yet called, *asked* from the call to the stored answer, and *closed* when it is blocked, failed
for good, or left in `publishing` by a lost worker; tries are Graph calls, posts are live posts.
The mapping says what the many steps come to: scans, overlapping preflights, late blocks and missed
locks are stutters.

`ScheduleLifecycle` has no drafts, reviews, requests, copies or workers: clients endorse versions;
a schedule is created for one version, with a client's approval if there is one, is dispatched once,
sent if it was vouched for, and ended. `ContentWorkflow` implements it (`FollowsLifecycle`, checked
in `Workflow`, proved in `ContentWorkflow_proofs`): a schedule is *queued* while its attempt waits,
*ended* when it was cancelled, failed or published. Everything that happens to the draft, its other
versions and its reviews is a stutter, however it overlaps; so is a dispatch that came too late.

### GenerationJobs

A job has a status and a size; a history counts the batches of results stored for it. A worker's
run is cut at the claim transaction, the provider call, and the second transaction; a request's at
its quota check, the load before a cancellation or edit, and the save. Any job may be delivered at
any moment and any number of times. `mixed` remembers the jobs two operations worked on at once:
the properties say nothing of those that the code does not protect.

### TenantSecrets

A sealed column is a pair of the key that sealed it and the grant it holds. The rotation is cut at
each load, each row's save and the store of the key; editors (callback, API edit, token refresh)
at their load, the read of the key, and the save. A first save of a tenant may generate a key.
`exposed` and `contended` name the rows written in overlaps.

### AirbyteSync

Airbyte's jobs, the connection rows, the tenant's status row, workers that trigger, poll, backfill,
reconcile or serve a webhook, and a PATCH that loads and saves all of a row. Each Airbyte call, each
row's save and each status save is a step. Webhooks may be lost, late, repeated and out of order.
Time counts intervals; cron expressions are not modelled.

### GoogleAdsEngine

Per account: desired and effective engine, the fallback flag and the two failure counters; per task:
the account in hand and the counters as loaded. A failure is counted in one save and rolled back in
a second one. Fetched rows, child customers (whose errors do not count) and alerts are left out.

### ConnectorLifecycle

The credential is a key and the grant whose refresh token it holds; `sources` and `links` are
Airbyte's side, `local` the rows that mirror it. Requests are cut at every load, lock, Airbyte call
and save; a creation whose request gave up may land later. The generic connectors and Google Ads
differ in how they use a source they find and in what disconnect does; one instance has one of
them.

### MetaDirectSync

All tasks load the row and save all of it (`_touch_meta_sync_state`), the views save the columns
they change, which for the columns modelled is all of them too. The copy a task is about to save is
in its memory from the load on. Touches that set every column need no load. The account and
hierarchy fetches touch the row alike and are one step; hours are not modelled, so the reuse of a
job that is under way (a request that changes nothing) is always possible and never required.
History: `known` windows (some insights were stored; or the row was given the window though its
sync failed or had not begun), `dropped` jobs (their request failed or died with them).

### ReportExports

A request freezes a preview, found in the cache or built, creates the job and sends it; a send may
be refused though the message is out. A worker may die at every step, its message comes back. The
artifact is written, verified and completed in separate steps. `file` is the shared disk.

## 3. Runs

Configurations assign constants only; their names mean what they mean in the theorems.

| Run | Instance (distinct states) | Properties |
| --- | --- | --- |
| `FacebookSafety` | 1 Facebook attempt, 3 workers, 2 failures allowed, 2 crashes, lock contention | `FacebookCallExclusive`, `FacebookRetryBudget`, `FacebookOutcomeStands`, `FollowsLifecycle` |
| `InstagramSafety` | 1 Instagram attempt, 2 workers, 1 crash, contention (211 k) | `WaitingAttemptsHaveBudget`, `RecordedPostsAreLive` |
| `PipelineLiveness` | one attempt of each channel, 1 worker (83 k) | `TypeOK`, `ScheduleFollowsAttempts`, `EveryAttemptSettles` |
| `Workflow` | 2 requests overlapping once, 2 approval requests, 1 schedule, 2 versions (2.9 M) | `TypeOK`, `PostedWasClientApproved`, `FollowsLifecycle`, `DecisionsStand`, `OnlyPatchSeparatesApproval` |
| `GenerationJobs` | 1 caption and 1 image job, 2 workers, 1 request (1.1 M) | `TypeOK`, `ResultsStoredOnce`, `TokensBounded` |
| `TenantSecrets` | 1 credential, 1 channel, 1 rotator, 2 editors, 2 keys, 2 grants (1.7 M) | `TypeOK`, `OnlyOverlapsLoseSecrets`, `OnlyOverlapsBringBackTokens` |
| `AirbyteSync` | 1 connection, 2 workers, 2 intervals, 2 jobs, 1 PATCH or lost worker (980 k) | `TypeOK`, `RowsTellTheTruth`, `IntervalKept` |
| `AirbyteCatchUp` | 2 connections, 1 worker, 2 jobs, forced failures or not (60 k) | `RowsCatchUp` |
| `ReportExports` | 1 job, 2 workers, new data once, 2 edits, 1 fault (498 k) | `TypeOK`, `Downloadable`, `ShowsWhatWasAsked`, `Settles` |
| `GoogleAdsEngine` | 1 account, 2 tasks, 2 faults, 1 provisioning request (367 k) | `TypeOK`, `FailuresRollBack`, `RolledBackUsesAirbyte`, `RollbackIsEarned` |
| `ConnectorLifecycle` | 2 requests, either provider, 2 grants, 2 sources and connections, 1 late creation (546 k) | `TypeInvariant`, `NoDuplicates`, `DisconnectStands`, `RefreshTokenStays` |
| `MetaDirectSync` | 2 processes, 2 slices, 2 days, 1 retry, 1 upset (367 k) | `TypeOK`, `ActiveHasData`, `RunningIsUnderWay`, `RunningEnds` |

*What they show.* Every one passes: the property holds in every state the instance can reach,
crashes, losses and overlaps included. Where the code does not protect something (section 5), the
property names what it excludes by a history variable (`mixed`, `exposed`, `contended`,
`disturbed`, `crossed`, `survivors`, `doubt`, `known`, `dropped`), and says with it that nothing
*else* goes wrong: `ResultsStoredOnce` fails as soon as `mixed` forgets one of the overlaps it
stands for.

*Bounds.* A race needs the holder of a row and one intruder, so two workers or requests reach each
of them; the third worker of `FacebookSafety` scans while one calls and one blocks late. Two
allowed failures tell "one more try" from "terminal". In `Workflow` a full life takes an internal
and a client request, two versions give every stale copy something to be stale about, one pair of
overlapping requests gives each race between two requests, and decisions, scans and the processor
interleave with both without a bound. In `TenantSecrets` the second key is the one a rotation
brings, the second grant makes the first one old. In `AirbyteSync` the second job makes the first
one stale and the second interval is the one in which a connection may not be triggered again. In
`GoogleAdsEngine` the limits (3 and 2) are the code's own. In `ConnectorLifecycle` a second source
or connection is the duplicate. In `MetaDirectSync` a second slice and a second day make a copy
wrong, and an upset is anything that is not the plain course of a slice: an hourly task, webhook,
provisioning, retry, error or lost process.

Larger instances were checked once, with the same result, and are too slow to keep:
`PublishPipeline` with 2 Facebook attempts (625 k without crashes, 971 k with one and no
contention), `TenantSecrets` with 2 rotators and 3 keys (0.46 M with one credential, channel and
editor; 9.4 M with one credential and 2 editors), `AirbyteCatchUp` with a fault (1.3 M),
`ReportExports` with data changing twice (287 k) or 2 faults (301 k), `MetaDirectSync` with 2
upsets (3.9 M, safety) and with 3 upsets and one slice (851 k, liveness too). The theorems of
section 4 cover all sizes.

*Fairness*, where a run checks liveness:

- `PipelineLiveness`: a worker that holds an attempt goes on (weak fairness of its steps). Beat
  enqueues the process scan and the retry scan every minute (`CELERY_BEAT_SCHEDULE`), and the queue
  serves them between other tasks: strong fairness of each worker's scan, since a worker may be
  busy with the direct task when the scan is due; weak fairness of the requeue. Time passes for
  containers. Nothing is assumed of users, of the direct task, of crashes or of contention:
  `EveryAttemptSettles` is checked without the last two, and with one crash it fails (section 5).
- `AirbyteCatchUp`: Airbyte's jobs end, workers go on, and beat's hourly backfill runs and is
  answered about each connection again and again (strong fairness: it may find the worker busy and
  Airbyte may fail to answer now and then). Nothing is assumed of webhooks: all may be lost.
- `ReportExports`: requests go on unless they die, idle workers take messages, and a task goes on
  unless its worker is lost, whose message the broker delivers again (acknowledged late).
- `MetaDirectSync`: processes go on and idle ones take what the broker holds.

*Deadlock* is checked in `FacebookSafety`, `InstagramSafety`, `PipelineLiveness` and `Workflow`. In
`Workflow` a request that meets one of the bounds can always end (`Abort`), so no bound produces a
deadlock that would hide behind a disabled check. In the other models everything may come to rest
once time, grants, jobs or faults are used up, with nothing left to do; their configurations say
`CHECK_DEADLOCK FALSE`, and the liveness properties tell whether anything was left waiting.

*Mutants.* For each property of each run `PROJECT.json` names a mutated definition, written
before the original (an off-by-one retry budget, a claim that accepts `publishing`, a
cache key without the report's stamp, a rotation that seals null columns, a loser of the race for
the first key that seals with the key it generated, ...), under which TLC refutes the property.

## 4. Proofs

TLAPS checks, for every set of workers, attempts, requests, rows, jobs and accounts and every
value of the bounds:

`PublishPipeline_proofs`

- `TypeCorrect`, `AggregateHolds` (`ScheduleFollowsAttempts`), `BudgetOfWaitingAttempts`.
- `FacebookCallsExclude`, `FacebookCallsBounded`, `FacebookOutcomesStand`. Exclusion alone is not
  inductive: what keeps a second worker out is that the attempt stays in `publishing` as long as a
  call is held, and what bounds the calls is that each is counted when its answer is stored, while
  an attempt whose worker was lost is never called again. `FacebookInv` conjoins `ClaimIsVisible`,
  `FacebookCallExclusive`, `CallsAreCounted` and `FacebookRetryBudget`.
- `RecordsAreLive`, from `PostsCoverRecords` (posts cover the records written and the successes
  still held by workers) and `PublishedHasRecord`.
- `ImplementsLifecycle`: the processor implements `AttemptLifecycle` for every Facebook attempt.
  Each action touches one attempt at most; the proof takes the ways it can do so one by one and
  names the abstract step of each. It needs `FacebookInv` and two more facts: an attempt with a
  recorded post rests (`RecordedRests`), and a stored success has a live post (`AnswersHavePosts`).

`ContentWorkflow_proofs`

- `TypeCorrect`.
- `PostsAreClientApproved`: `ApprovalsCarried` says that every copy of a client approval on the way
  (the row, the snapshot under construction, the schedule's snapshot, the claimed attempt) is of a
  version a client approved. Copies are never re-checked by the code, so each hand-over must keep
  it; that a snapshot under construction is only kept between its read and its save is the
  strengthening.
- `DispatchesOnce`: `StepMoves` lists the ways any step may change a schedule;
  `AttemptsFollowDispatch` (an undispatched schedule has no attempt, a claimed attempt waits) is the
  invariant that excludes the others.
- `ImplementsSchedules`: the workflow implements `ScheduleLifecycle`, from the same two invariants
  (`AttemptsFollowDispatch`: what is dispatched or cancelled was scheduled, what waits was
  dispatched; `ApprovalsCarried`: what a new schedule vouches for is endorsed, what is sent is
  vouched for). One lemma for each action that moves a schedule names its abstract step;
  `LifeStepIsLifecycle` carries the step of one schedule to the function of all of them.
- `DecisionsAreFinal`, `PatchAloneSeparatesApproval`: action properties from the type invariant.

`GenerationJobs_proofs`

- `TypeCorrect`.
- `StoredAtMostOnce`: `OnceInv` says that an unmixed job has one operation at work on it at most
  (`Alone`), that what that one read of the job is still so (`UpToDate`), and that a job has results
  exactly when it is succeeded (`Consistent`). Without the second part a stale claim would store a
  second batch.
- `TokensStayBounded`: a call that was checked against the cap and is not billed yet is a promise;
  usage plus promises never exceed the bound (`TokensInv`), because a check made when the cap is
  reached promises nothing. Finiteness of the workers is needed here, and assumed.

`TenantSecrets_proofs`

- `TypeCorrect`, with what all copies of a row have in common.
- `SecretsStayReadable` (`OnlyOverlapsLoseSecrets`): operations that overlap know of each other
  (`Meetings`), so a rotation that met no other is alone (`LoneIsAlone`). Of that one: what it has
  written opens with its key, the rest with the stored key (`RowsOpen`), and every listed row is
  written, still to be written, or empty (`EverythingListed`), so that the key it stores opens all
  of them. An editor that met no rotation seals with the stored key and carries copies it opens
  (`SealsWithStoredKey`, `CopiesOpen`).
- `NewestTokensStay` (`OnlyOverlapsBringBackTokens`): an editor that met nobody holds the row as it
  is (`CopyIsRow`), a lone rotation holds every unexposed row it has yet to write as it is
  (`ListedIsRow`), and tokens are numbered as granted (`GensInv`), so that a fresh one differs from
  every copy.

`GoogleAdsEngine_proofs`

- `TypeCorrect`.
- `FailuresLeadToRollback`: for an undisturbed account the row's counters agree with the history
  (`RowsAgree`), so do the copies tasks hold (`CopiesAgree`), one task holds it at most
  (`OneTaskHolds`), and a streak at its limit has been followed by the rollback or a task is about
  to do it (`LimitActs`).
- `RollbackIsAlwaysEarned`: a task is about to roll back only after such a streak
  (`RollbackIsDue`, of the same invariant).
- `RollbackStands`: a provisioning request that is about to save read the fallback flag as it
  still is, or set the engine the flag calls for (`RequestKnows`).

`MetaDirectSync_proofs`

- `TypeCorrect`: a slice has one message at most (`OneMessage`: on the broker, or with the process
  that took it).
- `ActiveIsBacked`: what holds of the row must hold of every copy a process is about to save
  (`Backed`), but for one whose phase failed, whose window becomes known to have failed as it is
  saved; and a slice that goes on with rows has stored its window's insights.
- `RunningHasSlice`: the only copies that say running are those that start a slice, in the process
  that runs it (`StartsOnly`), and a row that says so has its slice on the broker or in a process
  that has yet to save (`InHand`, stronger than being under way: a slice's later fetches are not
  enough, since the row said otherwise before them).

`ReportExports_proofs`

- `TypeCorrect`.
- `CompletedIsDownloadable` (`Downloadable`): a file once begun never disappears, and a job whose
  message was not repeated has that message or one task that took it, and neither once it is
  completed (`OneTask`), so that nothing opens its file again. Nothing has touched a job whose
  request has not sent it yet (`Untouched`).
- `ArtifactsShowWhatWasAsked` (`ShowsWhatWasAsked`): a stamp tells the edit, in the report, in a
  cached preview and in a request that has yet to make its job (`StampsTell`), so a preview taken
  from the cache is of the edit the request saw. What is frozen then is what every task holds of the
  job or renders from the data of the moment, never older (`MemoriesFit`).

`AirbyteConnections_proofs`, of `AirbyteSync`

- `TypeCorrect`, with the shape of a worker's memory (`ShapeInv`: a pass has loaded, fetched and
  saved each connection once at most, in this order).
- `RowsStayTrue` (`RowsTellTheTruth`): each copy of a sync state, in a row, in a worker, in the PATCH
  under way, is something Airbyte said of a job of that connection, and an end is that job's end
  (`TruthInv`); jobs never change their end, so a stale copy stays true. That the tenant's status is
  the row's needs more: only one operation is at an undisturbed connection (`Alone`), and what it
  has saved so far, or will save of the PATCH, agrees with the row (`Agree`).
- `TriggersKeepInterval` (`IntervalKept`): an undisturbed row is not older than the last trigger of
  its connection, unless a worker is on the way to store an update that is not (`Fresh`); no update
  that Airbyte may still give of the row's job, or of one asked about, is older either (`Since`); and
  what a pass is to trigger it loaded as due (`DueInv`). `LatestSince` carries it over to the job
  Airbyte lists as the latest; that there is a latest one is proved with the library's well-founded
  induction (on the order of the naturals, not on an operator).

`AirbyteConnections_proofs`, of `ConnectorLifecycle` (`ConnInv`)

- `ConnTypeCorrect`, with what a request must have in memory before each step (`Sound`: a token before
  it provisions, a source before it lists connections, a connection before it saves it).
- `OneSourceAndLink` (`NoDuplicates`): a ga4 request asks Airbyte for anything only while it holds
  the row's lock (`LockInv`), so what it found missing is still missing when it creates it
  (`OneInv`). Of a timed-out request the creation may land after the lock was released; this is the
  one exception the property names.
- `DisconnectsStand` (`DisconnectStands`): after a disconnect with no survivors no request is past the
  lock or has the credential in memory (`ClosedInv`); a request that has only chosen the row fails
  to find it under the lock, as its key is no longer there. For google_ads, which pauses and deletes
  in two statements, the invariant holds between them: nothing is active then but what a survivor
  saved.
- `RefreshTokensStay` (`RefreshTokenStays`): without overlaps one request at most is between its load
  and its save, and it has the row's refresh token in memory, unless the row was replaced, when its
  save fails (`KeptInv`).

Both proofs first sort the steps into a few kinds of effects (`Kinds`, `RequestKinds`: a worker's
memory becomes `me` and the rows change so), then show each part of the invariant for each kind.

The assumptions are the named `ASSUME`s of the modules, which TLC evaluates in every run. They ask
for finiteness and disjointness where it is used and otherwise only say that bounds are numbers:
the saturating counters and the `Max*` constants are arbitrary in the theorems, so they bound
nothing there.

Every safety property of section 3 is proved. Only model-checked is liveness
(`EveryAttemptSettles`, `RowsCatchUp`, `Settles`, `RunningEnds`), which needs fairness and
`ENABLED` and is beyond TLAPS.

## 5. What the models found

None of these breaks a property of section 3: each is a behaviour of the code that the models have
and the properties leave open, on purpose and by name. Lines are of `src/backend`.

Publishing:

1. A worker lost between claim and answer leaves `publishing` for ever; nothing lists the attempt
   again (`content_ops/publisher.py:391`). Lost after `container_creating`, the same.
2. A blocked mark that was decided by an earlier preflight overwrites `published` (`:937`).
3. Two workers poll and publish one Instagram container (`:1111`).
4. A success whose row is locked by another transaction is dropped; the post is never recorded
   (`:1031`).
5. An expired container is a dead end though retries are left (`:1193`).
6. In a workspace that bypasses approval, publish-now is always blocked by the processor's own
   approval check (`:1391`). `PostsAreClientApproved` is the other side of it.
7. A late ready mark lands on a row whose container was discarded; a retry after a lost answer posts
   twice; a second worker moves `failed_terminal` of an Instagram attempt on.

Workflow (`content_ops/views.py`):

8. A version created after internal approval keeps the draft's state and goes to the client
   unreviewed (`:1402`).
9. Two schedule requests create two schedules of one version, both posted; unscheduling one of them
   sets the draft to `client_approved` while the other is dispatched.
10. A failed dispatch leaves the draft `scheduled`. A request lost after it saved a schedule and
    before it saved the draft leaves a schedule that no scan lists (`:1584`).
11. A PATCH reverts a draft state committed meanwhile; a PATCH to another version and back lets an
    old schedule through although its approvals were superseded (`:1347`).

Generation: concurrent requests exceed each quota by one each (check, then create); overlapping
deliveries of one job store its results twice; a failure is stored over a cancellation and a
cancellation over a success.

Tenant keys: the rotation lists neither `MetaConnection` nor `MetaPage`
(`core/crypto/dek_manager.py:180`), so their tokens do not open after the first one. A rotation that dies, or
meets another one, loses the rows it wrote; one that meets an edit brings back the older secret.

Google Ads engine:

- The runbook (`src/docs/runbooks/google-ads-sdk-migration.md`) ends a rollback by provisioning the
  account again; no code clears `fallback_active`, so a rolled back account stays on Airbyte.
- The answer `sdk_fallback_active` (`integrations/google_ads_views.py:418`) needs a row that is on
  the SDK and has fallen back: only the race of `crossed` makes one.
- `sync_google_ads_sdk_finalize_daily` passes `self` on to a task that is bound itself
  (`integrations/tasks.py:582`), where it arrives as the first parameter.
- Errors of single child customers do not count as a failure; an account is rolled back whether or
  not it has an Airbyte connection; parity alerts go on after the rollback.

Connector lifecycle: ga4 provisioning after a reconnect finds the source by name and keeps the old
refresh token in it; Google Ads provisioning creates a second source when the first one's
configuration was rejected; a disconnect pauses the rows here and leaves Airbyte's connections as
they are; `Disconnected by operator.` stays as the last error of an account connected again; a
refresh or callback under way re-inserts a credential that was deleted meanwhile.

Meta direct sync: the account and hierarchy tasks set `succeeded` over failed insights, so an account
is shown active for a window that was never fetched (the exception in `ActiveHasData`); the same
steps inside a slice set `succeeded` while it still runs, so a second request starts another slice;
an error of the broker client that is not a connection error leaves the row `pending` with nothing
sent; the second, longer fetch is outside the slice's `try`: its errors are neither retried nor
stored.

## 6. Not modelled, and the plan

Next, in this order:

1. Metrics snapshots (a cache refreshed under a lock that expires) and AI daily summaries (one row a
   day by look-up and insert): `analytics/snapshots.py`, `analytics/tasks.py`.
2. Liveness of the workflow: an approved and scheduled draft is dispatched or fails, under the
   fairness of beat, and unless a request was lost half-way.
3. What the modelled components leave out: workspaces, briefs, assets, comments and deletion in
   `ContentWorkflow`; creation and deletion of connections, telemetry and cron schedules in
   `AirbyteSync`; OAuth state, consent and status pages in `ConnectorLifecycle`; logout, page and
   post insights, token refresh and the backfill commands around `MetaDirectSync`; setup, status and
   the fetched rows around `GoogleAdsEngine`; layout, quotas, dashboards and templates around
   `ReportExports`.
4. Alert rules: one notification per run under redelivery.

Not planned: reporting queries and warehouse adapters (pure reads), the frontend (a cache of server
state), dbt models, image composition and exports of files (sequential data processing),
publishing identities and organic metrics (idempotent upserts), observability and request plumbing,
accounts (CRUD without a protocol of several steps). They are most of the repository's lines: what
the map covers is the code in which the order of steps decides the outcome.
