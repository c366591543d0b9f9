# LedgerMind audit pipeline: formal model

This directory is a verification development of the LedgerMind audit pipeline
(`src/`, a TypeScript server and worker over MongoDB, with a React client). It
holds TLA+ modules translated from the source, TLC configurations that check
them on small instances, and proofs checked by TLAPS for every value of the
constants.

Paths below are relative to `src/server/src/` unless they start with `client/`
or are the repository's `README.md`.

## 1. The system

An auditor creates or edits a *journal entry*. The server stores it at once and
enqueues a job; a worker process claims the job, computes the entry's
*intelligence* (risk, anomalies, flags, vectors) and writes it back. Two MongoDB
collections, `entries` and `queue_jobs`, are all that the processes share. No
transaction spans two commands, so every `await` of a database command is a
point where any other process may run.

| Component | State | Operations | Talks to |
| --- | --- | --- | --- |
| Job queue (`adapters/queue/MongoQueueService.ts`, `models/QueueJobModel.ts`) | `queue_jobs`: status, attempts, lockedAt, lockedBy, key | enqueue, claimNext, complete, fail, reclaimStale | called by all the others |
| Worker (`worker/EnrichmentWorker.ts`, `worker/index.ts`) | its step and the job in hand | poll loop, process, shutdown | queue, enrichment service |
| Sweeper (`worker/EnrichmentSweeper.ts`) | the batch of identifiers it has read | tick: reap, scan, enqueue | queue, repository |
| Entry service (`application/EntryService.ts`) | what a request has read | create, updateCore, updateAuditMetadata | repository, admission, queue |
| Entry repository (`adapters/persistence/MongoEntryRepository.ts`) | `entries` | targeted updates, cursor, scans | MongoDB |
| Enrichment service (`application/EnrichmentService.ts`) | the entry it has read | enrich, reevaluateRiskOnly | rules, repository |
| Model migration, reevaluation (`application/ModelMigrationService.ts`, `ComplianceReevaluationService.ts`) | cursor and fetched batch | migrate, reevaluate | repository, queue |
| Admission control (`application/AdmissionControl.ts`) | cached depth and its age | canAdmit | queue |
| Rules, vectors, similarity (`domain/intelligence/*`, `application/SimilaritySearchService.ts`) | none | pure functions; search | repository |
| HTTP layer (`adapters/http/*`) | rate limiter's buckets | routing, validation, limits, timeout | services |
| Client (`client/src/*`) | what each component shows | polling, searching, saving | HTTP |

### What is hard

- *Interleaving.* A handler, a worker, the sweeper and a migration each take
  several steps on one entry and one job.
- *Failure.* A process may die, and a command may throw, between any two steps;
  a command may also take effect and its reply be lost.
- *Time.* Locks expire after `JOB_LOCK_TTL_MS`, whether the holder is dead or
  slow. A request that has timed out (503) goes on running.
- *Deduplication.* The unique partial index makes an enqueue a no-op while a job
  with the same key is pending **or processing**.
- *Snapshots.* enrich, migrate and reevaluate act on an entry as it was when it
  was read and write without looking again.
- *Caches and windows.* Admission reads a cached depth that several calls may
  refresh at once; the limiter forgets buckets and starts windows anywhere.
- *Late answers.* The dashboard shows whatever response arrives last, and its
  edit form sends what it was opened with.

What makes each component correct: the queue keeps active keys unique and loses
no job; the workers share no job, respect the attempts and settle every job; the
pipeline shows nothing as completed that is outdated and leaves nothing stale
unattended; migrations reach their target; every entry is eventually enriched; bursts and
the age of what admission knows are bounded; one request creates an entry; the
rules agree with each other and with what marks an entry stale; the views end up
with the answer to what they ask.
Which of these hold, and under which conditions, is what section 4 reports.
`PROJECT.json` lists the hazards line by line with the properties aimed at them.

## 2. The modules

```
Domain ── JobQueue ── WorkerPool ──┬── EnrichmentPipeline ── BatchJobs
                                EntryStore
                      TaskLifecycle (abstract), implemented by WorkerPool

Clock ──┬── RateLimiter ────────┬── ApiServer
        └── AdmissionControl ───┘
RiskRules ── AuditDesk
SimilaritySearch ── ClientViews

proofs:  JobQueueProofs ── WorkerPoolProofs ── EnrichmentPipelineProofs
                                           ──┬── BatchJobsProofs
                                             └── CurrentIntelligenceProofs
         ApiServerProofs     AuditDeskProofs     ClientViewsProofs
```

Four groups look at the system from four sides. Each leaves out what the others
are about, and says so where it does.

### Queue, workers, entries, batch jobs

**Domain** — the identifiers both collections speak of, and `JobReason`.

**JobQueue** — one operator per database command of `MongoQueueService`.
`jobs` is the collection, indexed by insertion number; `createdAt` order is that
number (two jobs created in the same millisecond are ordered arbitrarily by
MongoDB; the model orders them by insertion, and any insertion order is a
behaviour). `lockedAt` is reduced to `none`, `fresh` or `expired`, all that
`reclaimStale` distinguishes; error texts are left out. `Enqueue` has the
duplicate-key no-op; `Complete` is unconditional, as in the code; `fail` is two
commands, its read and its update, and the update (`Requeue`, `Bury`) is subject
to the unique index. The constraint matters: failing a job that is completed
already makes its key active again. `QueueSpec` lets any caller issue any
command at any time; it has a theorem and no run, since every command fires in
the runs of the modules above it.

**TaskLifecycle** — the abstract specification: tasks, runners and starts, with
no locks or commands.

**WorkerPool** — `EnrichmentWorker.loop`/`process` as a step counter per
process (`claimed`: before findById; `read`; `wrote`: before complete;
`failing`: in the catch block; `requeue`, `bury`: fail() has decided). Faults:
`Crash` (the process dies, the shutdown handler exits mid-job, or fail() itself
throws), `EnrichFails`, `LoseCompleteReply` (complete() took effect and threw),
`LeaseOverrun` (a live worker's lock expires). Two constants say which faults a
run admits: `LeaseRespected` (no live worker outlasts its lock) and
`RepliesArrive`. With both, `PoolSpec` is `TimelyPoolSpec`, which leaves out the
actions that cannot happen then (theorem `PoolIsTimely`); `worker_pool` checks that
one, and `pipeline_enriched` has the faults. `jobs[j].owner` is the process that
claimed `j`; the code's `WORKER_ID` may be the same for several processes (its
default is), which changes nothing, as nothing reads `lockedBy`.

**EntryStore** — one operator per update of `MongoEntryRepository`. The
analytical fields of an entry are one value, its *core*; a computed field is
represented by the core it was computed from, so "outdated" means `risk # core`.

**EnrichmentPipeline** — composes both: request handlers (`create`,
`updateCore`) as step counters with what they hold, the workers' enrich over the
entries, and the sweeper's tick. Every worker process has a sweeper of its own
(`worker/index.ts`), which enqueues at the version of that process and goes with
it: in `WorkerDies` the job in hand is abandoned and, unless it was only fail()
that threw, the sweeper's tick with it.
Admission control may answer either way here. A
handler that was answered 503 keeps running, so a client's retry is simply
another handler.

**BatchJobs** — adds the runs of the migration and of the reevaluation, any
number of each (`Migrations`, `Reevaluations`), one after the other or, if
`Overlapping`, at once. `walk` is per run its step, the identifiers the cursor has
passed (`read`) and the batch in hand, filled one entry at a time (`FetchNext`),
each entry *as it was when the cursor passed it*. A run may die at any step
(`AbortWalk`); what it leaves is what it has done so far. The collection may start
with entries that were enriched earlier at any version. Two variables are history:
`migrated`, the entries a migration has handled, and `stranded`, those a migration
has marked in one of the two situations in which the code may leave them without
a job: a worker had written the entry for an earlier migration's job and not yet
completed it, so that the insert is taken for a duplicate of that job (`Late`), or
the run died between mark and insert. An insert takes the entry out again.

### The API process

**Clock** — `Date.now()` in ticks.

**RateLimiter** — the buckets of `RateLimiter.ts`: a client's window starts with
its first request, expired buckets are pruned when there are too many.
`passes` and `retryAt` are history: what was granted and what was promised.

**AdmissionControl** — `canAdmit` as three steps, because it awaits a count:
`AskHit`/`AskMiss`, `CountPending` (the database counts), `Resume` (the cache is
written, dated when the caller *asked*). `countedAt` is history.

**ApiServer** — the chain limiter → timeout → handler for `POST /api/entries`,
the handler being `EntryService.create` over the unique index on `entryNo`. An
entry number is followed only as far as the depth of the queue depends on it:
`absent`, `fresh` (stored, not enqueued), `deferred`, `pending`, `claimed`. The
sweeper and the workers appear as what they do to that.

### The rules and the editing of fields

**RiskRules** — `signals.ts`, `RiskScoringService`, `AnomalyDetectionService`
and `ComplianceService` as operators on an entry's fields. Scores are in
hundredths: the code's sums of two-digit weights are rounded before they are
compared. A description is the number of suspicious words in it, or `Blank`; a
GL number what `glIssue` says of it; a date its UTC weekday and hour.

**AuditDesk** — one entry, edited through the form of `UpdateControls` and by
other clients of PUT and PATCH. The modal fetches the entry first (`FetchEntry`)
and the form takes the values of the first answer (`OpenForm`), however old. A PUT
runs `EntryService.updateCore` step by step and a PATCH `updateAuditMetadata` as
one command, each in a request that may time out, and *field by field*: which fields a form sends, what `Number("")` makes of an
emptied amount, what `didAnalyticalChange` looks at, how `$set` merges. `touched`
(what the author actually edited), `basis` (what the intelligence was computed
from) and `torn` (a handler died between its two writes) are history. No worker
runs here: that is EnrichmentPipeline's subject, which in turn has no fields.

### The dashboard

**SimilaritySearch** — `findSimilarityCandidates`, the ranking, `topK` and the
`truncated` flag. Scores are given: the vectors' arithmetic is not modelled. The
stable sort is stated by what it returns: the entry at place *i* is the one with
*i* - 1 entries before it in the order of the answer (`Before`, `Ranked`).

**ClientViews** — the list (`AuditDashboard`), the open entry
(`EntryDetailModal`) and the panel (`SimilaritySearchPanel`), one of them per
behaviour. Each sends requests on timers and clicks, keeps no record of what is
in flight and shows whatever answer arrives; requests are served and answered in
any order, or fail, while the entries change.

### Configurations and variants

**MC…** modules fix values that a `.cfg` cannot express (records, functions) and
symmetry; the `.cfg` files give the other constants.

**Broken variants.** Definitions marked *Broken variant* are not part of any
specification. Each is the faulty form of the definition after it, written
beside it so that the sensitivity of a property can be tried: putting the
variant in its place must violate the property. `PROJECT.json` ("mutants") pairs
them.

## 3. Bounds and fairness

| Constant | Meaning | Values in the runs, and why they suffice |
| --- | --- | --- |
| `MaxJobs` | jobs ever inserted | 2–6. A key collision needs two jobs; the third lets a finished job come back beside its successor and another key's job. Liveness runs use enough that the bound is never what stops progress. |
| `MaxAttempts` | `WORKER_MAX_ATTEMPTS` | 2 or 3; the default is 3. 2 separates "requeue" from "bury". |
| `MaxClaims` | claims of one job in `QueueSpec` | 0: no run counts them. |
| `MaxCrashes` | crashes and overrun leases together | 0–2; 0 in `batch_jobs`, whose aborts are those of the batch jobs. |
| `MaxEdits`, `MaxFailures`, `MaxAborts` | edits, enrichments that throw, handlers, walks or ticks that throw half-way | 0–2 per run, to keep the cause of what a run shows apart. |
| `Migrations`, `Reevaluations`, `Overlapping` | runs of the batch jobs | `batch_jobs` has two migrations, one after the other or at once, and a reevaluation; `reevaluation_mixes` one reevaluation. |
| `Entries`, `Workers`, `Requests`, `Cores`, `Versions` | | 1–2 each, and one entry: every hazard found concerns one entry and two processes. Between entries there is the order in a batch and in a sweep: it makes the snapshot of an entry older, which one entry alone may become too, as the cursor passes it before its batch is handed out (`LastBatch`). The theorems are for any number of entries and any `BatchSize`. |
| `MaxTime`, `Second`, `Window`, `Ttl` | ticks | 4, 2, 2, 2: two windows and two lifetimes of the cache, with instants strictly inside both and inside a second. |
| `MaxRequests`, `PruneAbove`, `MaxDepth` | limits | 1, 0, 1: every limit is reached, and pruning happens at every request. |
| `Callers`, `Numbers`, `Clients`, `MaxArrivals` | | 2, 2, 1, 3: two cache misses that overlap, a retry, and a burst longer than the bound. The limiter keeps nothing in common between clients but the size of its map. |
| `Amounts`, `Dates`, `Inputs` | field values | one on each side of each threshold of the rules. |
| `Auditors`, `Handlers`, `MaxSaves`, `MaxPatches` | | 1 form and any other client, 2 handlers, 2 saves, 1 status change; 2 forms where they overwrite each other. |
| `Slots` | requests in flight | 2: enough for one answer to overtake another. |
| `MaxChanges`, `MaxChoices`, client `MaxFailures` | | 1, 2, 1. |
| `CandidateLimit`, `TopK`, `PageSize` | | 3, 1, 2, over collections from below the candidate limit to above it. |

`CHECK_DEADLOCK FALSE` is set where the bounds can be spent: a system whose
queue is empty and whose clients are silent has nothing left to do. Symmetry is
used only in runs without liveness properties.

Fairness is weak fairness only. `WorkerStep` (`TimelyStep`): the loop runs as long
as the process does, and a database command returns or throws. `LockAgesOut`: time
passes. `Reap`/`Sweep`: `tick` catches everything and reschedules itself.
`RequestStep`: a handler once started runs on. `WalkStep`: so does a batch job.
In ClientViews: interval timers fire, and every request is answered or fails
(the browser gives up on it). Nothing obliges clients to create, edit or click,
or faults to happen.

In the pipeline's liveness checks the fairness of a worker is on all its steps
together: a worker that fails an enrichment is making progress. `MaxFailures`
bounds how often that happens; entries that fail for ever are not covered.

## 4. What the runs show

Passing:

| Run | Shows |
| --- | --- |
| `worker_pool` | With leases respected, through crashes, failed enrichments and failing fail() calls: no two workers are on one job, a worker's job is never claimed under its feet, attempts stay within `MaxAttempts` plus one per crash (`reclaimStale` does not look at attempts), and the pool implements `TaskLifecycle`. Every job is finished or given up in the end. |
| `pipeline_patient` | One worker, and an auditor who edits again only when the recomputation of the previous edit is over, with no handler dying half-way: stale entries always have work, completed entries are current, and every edit is caught up with. |
| `pipeline_enriched` | Every created entry is eventually enriched, whatever admission decides, whoever dies and whatever lease or reply is lost; every job is finished or given up, active keys stay unique, and a processing job always carries a lock, so the reaper sees it. |
| `batch_jobs` | Two migrations, which may overlap, and a reevaluation walk the collection while a worker and its sweeper run; any of the three may die half-way, and the entry is pending or enriched at either version at the start. A migrated entry is at the target version or has a job; it is current or has a job, or one is about to be inserted; and it ends current and at the target version for good. The last two hold but for entries that are `stranded`. |
| `api_server` | In no span of one window's length is a client granted more than twice the limit, although windows start anywhere and buckets are pruned; a client that waits as long as `Retry-After` says is not rejected; no admission rests on a count that was `QUEUE_DEPTH_TTL_MS` old when it was asked for, although several calls miss the cache together and are answered in any order; one of several requests for a number creates the entry, although clients retry after a 503 while the first handler runs on. |
| `audit_desk` | On each side of every threshold the rules agree with each other: a factor raises the score exactly where an anomaly is reported, and the badge is "high" exactly when review is demanded. No analytical field changes without its handler going on to mark the entry stale. Intelligence shown as current follows from the entry's fields, debit and credit excepted. |
| `client_views` | When the entries stop changing, the list and the open entry end up with the answer to what they ask for, although answers overtake each other; a similarity result belongs to the strategy on display unless searches overlapped; an answer not marked as truncated misses no closer entry. |

`PatientEdits` is an assumption on the auditor, not on the code: it, `MaxAborts = 0`
of `pipeline_patient` and `MaxEdits = 0` of `batch_jobs` say how much the code
achieves, and the disagreements below show what happens without them. The same goes
for `LeaseRespected` of `worker_pool`, the single worker of `pipeline_patient`
(`pipeline_outdated`) and `WorkerVersion = Target` of `batch_jobs`. The exceptions
in `MigratedIsSettled` and `MigrationSettles` (`stranded`), in `ShownIsExplained`
(debit and credit; a handler that died between its writes) and in
`ResultsMatchStrategy` (overlapping searches) are as narrow as the code allows:
without any one of them the property is violated. `MaxAttempts` of
`pipeline_patient` and `batch_jobs` is larger than their faults, so that no job is
given up there: a recomputation that is given up leaves its entry stale for good.
No enqueue of a liveness run is refused for `MaxJobs`: a larger bound reaches the
same states. The largest runs are `api_server` (2.5 million states), `audit_desk`
(some 815,000), `pipeline_patient` (some 240,000) and `batch_jobs` (some 217,000),
one to two and a half minutes each.

Violations, each a place where the code and what is said about it differ:

| Run | What TLC finds |
| --- | --- |
| `pipeline_lost` | A second edit between a recomputation's read and its complete(): the enqueue is swallowed by the active job, and the entry stays `stale` with an empty queue. The sweeper looks at `pending` entries only. |
| `pipeline_outdated` | Two workers on the `created` and the `core_changed` job of one entry: the older read may be written last, and the entry is shown as completed with outdated intelligence. |
| `admission_bypassed` | Admission control defers an entry because the queue is full; the sweeper's next tick enqueues it, full or not. |
| `edit_forms` | Two forms opened on one entry and saved one after the other: the second puts back the fields its author never touched, and no 409 is sent, since the version compared is one the same request has just read. |
| `reevaluation_mixes` | A reevaluation meets an entry that is stale after an edit and completes it with the new risk over the old vectors (`EnrichmentService.ts:75`: "embeddings stay valid"), while the recomputation is still queued. |

Further disagreements have no run of their own. These TLC shows when a passing run's
assumption is dropped:

| Change | What TLC finds |
| --- | --- |
| `LeaseRespected = FALSE` in `MCWorkerPool.cfg`, with `PoolSpec`: `MutualExclusion`, `LeaseHeld` | A worker outlasts `JOB_LOCK_TTL_MS`; the reaper returns its job and a second worker claims it. Claims are atomic, as README §16 argues, but reclaiming does not ask whether the holder is alive. |
| `MaxAborts = 1` in `MCEnrichmentPipelinePatient.cfg`: `CompletedIsCurrent` | The process handling an edit dies between its first two commands: the entry is shown as completed with the intelligence of the old core, and no job is made. |
| The same: `StaleHasWork` | The process dies one command later, between mark and enqueue: the entry is stale with an empty queue. |
| `CompletedIsCurrent` in `MCBatchJobsMixed.cfg`, `PatientEdits = TRUE` | An entry is edited and enriched between a reevaluation's fetch and its write, which puts the old core's risk back for good. |
| `MigratedIsSettled` without `stranded` in `MCBatchJobs.cfg` | A second migration ("restartable", `ModelMigrationService.ts:17`) marks an entry stale on its snapshot while the first one's job is finishing; its enqueue is swallowed. The entry is stale for good *at the target version*, so further runs skip it. |
| `WorkerVersion = v1` in `MCBatchJobs.cfg`: `MigrationReachesTarget` | A job does not carry the version to enrich at: a worker started with the old one completes the migration's jobs at the old one, as README §20 step 7 would. |
| `ResultsMatchStrategy` without `overlapped` in `MCClientViews.cfg` | The strategy is changed during a search; the old strategy's answer arrives last and stays under the new label, since nothing polls the panel. |

These show on reading:

- Saving a comment sends the status the form was opened with and undoes what
  somebody else has set, without a conflict: `version` is "bumped on every
  mutation" (`domain/entry/Entry.ts:37`), but a PATCH neither checks nor bumps it.
- The sweeper's batch is the first pending entries: if the enrichment of as many
  entries as it takes fails for ever, no other entry gets into it.
- The entry status `failed`, "exhausted retries" in
  `domain/entry/Intelligence.ts:15`, is written nowhere: a given-up job leaves
  its entry `pending` (and the sweeper enqueues it again) or `stale`.
- No update of the intelligence bumps `version` either
  (`domain/entry/Entry.ts:37`).
- Edits of debit or credit change the balance rule's verdict and do not mark the
  entry stale.
- A PATCH replaces the whole `comments` array by the one comment it adds.
- An amount that was deleted from the form is saved as 0 (`Number("")`).
- "At most one cheap count per window" (`application/AdmissionControl.ts:11`):
  calls that miss the cache together each count. "Bounded memory"
  (`adapters/http/RateLimiter.ts:11`): buckets go only when they have expired,
  so within one window the map has one per client. "(local)" hours in
  `domain/intelligence/signals.ts:17` are UTC hours.
- An entry that is only unbalanced has an anomaly of high severity and a
  violation flag, but its risk is low (30, and medium begins at 34).
- On a page that has ceased to exist the list shows no entries; its error banner
  stays when polls succeed again; and the message after a save says that a
  recomputation was enqueued even when the edit was not analytical
  (`client/src/components/UpdateControls.jsx:41`).

## 5. What is proved

All proofs hold for any sets of entries, versions, workers, clients, callers and
auditors and any bounds. They rest only on the named assumptions on constants
(`DomainAssumption`, `QueueAssumption`, `PoolAssumption`, `StoreAssumption`,
`PipelineAssumption`, `BatchAssumption`; `ClockAssumption`,
`LimiterAssumption`, `AdmissionAssumption`, `ApiAssumption`; `RulesAssumption`,
`DeskAssumption`; `SearchAssumption`, `ViewsAssumption`) and on the hypotheses a
theorem states. Sequences are sorted, filtered and paged by rank, with functions
and cardinalities, so that none of these proofs needs induction over data.

The queue and the workers:

- **QueueCorrect** (`JobQueueProofs`): `QueueSpec => []` of the type invariant,
  `UniqueActiveKey` and `LockedIffProcessing`. The three are inductive together
  with `FreshSlots` (slots beyond `tail` are untouched), which is needed to know
  that an inserted job is new. Every command either leaves the keys of all jobs
  alone or checks the index; one lemma per kind of command.
- **PoolTypeCorrect, PoolUniqueActiveKey** (`WorkerPoolProofs`): each pool step
  is a queue command on a filled slot or leaves the queue alone
  (`PoolStepCases`), so the queue's invariant carries over, without any
  assumption on leases or replies.
- **PoolIsTimely**: with leases respected and replies that arrive, the pool is the
  one `worker_pool` checks.
- **PoolMutualExclusion**: under `LeaseRespected`, `MutualExclusion` and
  `LeaseHeld`. The strengthening is `WorkHeld`: a worker's job is processing
  with a fresh lock of its own, or it is completed and the worker is about to
  fail it. In neither case can another worker claim it, and `LockAgesOut`
  cannot touch it because it is not abandoned.
- **PoolRetryBudget**: under `LeaseRespected`, `RetryBudget` and
  `FailedExhausted`. The strengthening relates attempts to what fail() has
  decided on (`Decided`) and to the job's status (`InBudget`).
- **PoolKeepsPromise**: with respected leases and
  replies that arrive, `PoolSpec => KeepsPromise`. `OnProcessing` is added to
  the invariant; then each action of the pool is one step of the task of its
  job, `Crash` is `Abandon`, `Reap` is `Recover`, and reading, writing and
  deciding are stutters.

The compositions:

- **PipelineRunsPool** (`EnrichmentPipelineProofs`): `PipelineSpec => PoolSpec`.
  Handlers, workers over entries and the sweeper do to the queue and the workers
  only what the pool allows, so everything proved of the pool holds of the
  pipeline. Needed for it: a handler under way knows its entry (`InHand`).
  **PipelineTypeCorrect** and **PipelineQueueCorrect** follow.
- **PipelineStaleHasWork**: with `PatientEdits`, no aborted handlers, respected
  leases and replies, `StaleHasWork`. That a stale entry has work is not
  inductive: the step to fear is the completion of its last job. `StaleInv` says
  why it cannot hurt: while a handler that will succeed is about to write an
  edit, mark it or enqueue it, no recomputation of the entry is active and no
  other handler is marking it (`EditsAlone`, `OneMarker`); so a worker that has
  written its recomputation and awaits complete() wrote after the last mark, and
  the entry is not stale (`FreshResult`). A stale entry therefore has a
  recomputation of its own, a handler that owes it one, or one that was given up
  (`Promised`). This holds for any number of workers.
- **PipelineCompletedIsCurrent** (`CurrentIntelligenceProofs`): with the same
  assumptions and a single worker (`OneWorker`), `CompletedIsCurrent`, through
  crashes of the worker, enrichments that throw, swallowed duplicates, sweeps and
  conflicting edits. `CurrentInv` follows an outdated read to its end. What a
  worker has read is still so, or an edit is outstanding (its handler marks it, or
  its job is in the queue or given up) and the worker's job is another one
  (`ReadCurrent`); a recomputation that is written and not yet completed wrote
  what is so (`WroteCurrent`); hence an entry shown as completed is current or has
  an edit outstanding (`Shown`). A second worker breaks `ReadCurrent`: it
  completes the recomputation while the first still holds the older read, which is
  what `pipeline_outdated` finds.
- **BatchRunsPool, BatchTypeCorrect** (`BatchJobsProofs`): the same for the
  batch jobs on top of the pipeline. With them the guarantees of queue and pool
  are guarantees of the whole system: **BatchQueueCorrect** (no assumption),
  **BatchWorkersExclusive** (leases respected) and **BatchKeepsPromise** (replies
  arrive as well): requests, sweeper, workers and batch jobs together implement
  `TaskLifecycle`.
- **MigrationOnTarget**: when the workers run the target version
  (`WorkerVersion = Target`), `MigrationReachesTarget`, with any number of workers
  and of migrations, one after the other or at once, and any edits, aborts,
  crashes, lost replies and overrun leases. `ReachInv`: a worker
  that has written its result has left the entry at the target version, and an
  existing entry never loses that version again; so the only command that removes
  a job for good without giving it up, complete(), comes after the version is
  there.
- **MigrationSettlesOrWaits**: when nobody edits (`MaxEdits = 0`),
  `MigratedIsSettled`, for any number of migrations, one after the other or
  overlapping, and any versions, workers and reevaluations, with crashes, lost
  replies, overrun leases and aborts. It rests first on what is remembered: a
  worker (`seen`) and a batch hold entries that exist (`Known`) with the core they
  still have (`StillSo`), and what is stored was computed from that core
  (`OfItsCore`), so that an entry that is completed is current. Then the step to
  fear is an enqueue that is swallowed by a job whose worker has already written.
  `SettledInv` follows it: an entry that is stale is `Attended`, that is stranded,
  or with a job whose result is yet to be written, or about to get one; and
  whenever an insert is due, the entry is completed or stranded, or has such a job,
  or no written job stands in the way of the insert (`Insertable`). The last
  survives because a worker becomes `Late` only by writing, which completes the
  entry (`LateByWriting`); a second mark after that is what strands it. `Statused`
  keeps out the entries that were never enriched: nothing a migration marks or has
  handled becomes pending again.

The API process (`ApiServerProofs`):

- **ApiTypeCorrect**, which needs that there are at most as many pending jobs as
  entry numbers.
- **FreshDepthCorrect**: the cache is never dated after its count, because it is
  dated by the call that asked (`DatedByAsker`).
- **OneCreatorCorrect**: whoever is past the insert has made its number taken
  (`CreatorsTookTheirNumber`), and numbers are never released.
- **BurstBoundCorrect**: for any limit, window and load. Of the grants of a
  client, `GrantsOrdered` says that all but those the current bucket has counted
  lie before its window began, that all but these and `MaxRequests` more lie a
  whole window before it, and that none is later than now. Pruning a bucket loses nothing, since an expired bucket and none are
  the same (`Current`).
- **RetryAfterHonestCorrect**: while a client has a promise, its window ends no
  later than promised (`PromiseCovers`): rounding is upwards.

The rules and edits (`AuditDeskProofs`):

- **DeskTypeCorrect**; **ReviewIffHighCorrect**, from the type and the two
  copies of the threshold.
- **NoSilentEditCorrect**: what a handler has decided of its patch still holds
  of the entry as long as the version has not moved (`DecisionsHold`); this is
  what the version guard is for.
- **ShownIsExplainedCorrect**: as long as nothing is stale, torn or between two
  writes, the analytical fields are those the intelligence was computed from
  (`AnalyticalAsEnriched`), and the rules read nothing else but debit and credit.

- **SignalsAgreeCorrect**: both services are characterised by one predicate,
  `Objectionable`: the fields behind the risk factors are the objectionable ones
  (`FieldsOfFactors`), the fields with an anomaly are too (`FieldsOfAnomalies`),
  and a score is 0 only without any (`ScoreOfNothing`: every weight is positive).

The dashboard and the search (`ClientViewsProofs`):

- **ClientTypeCorrect**: `ClientTypeOK`, which says that a view asks what it may
  ask and shows an answer of the kind it asked for, never the body of an error,
  with any number of requests in flight. Its lemma `AnswersTyped` is about the
  server: pages, entries and search results are well formed.
- **ResultsMatchStrategyCorrect**: unless the last choice was made while another
  request was in flight, everything the panel waits for was sent for the strategy
  on display (`PanelRequestsCurrent`).
- **SearchIsExactCorrect**: for every collection, scores, `CandidateLimit` and
  `TopK`. As long as no entry changes, every answer on its way or on display is
  the one the server would give now (`UnchangedAnswersHold`); what remains is
  about the search alone (`SearchExact`). `RankedSorts`: the number of entries
  before it is a one-to-one map from the candidates to their places, hence onto,
  so the ranking holds every candidate once and in order. `MatchesOf`: the
  matches are its first `TopK`. `BelowCeilingNothingMissed`: below the ceiling
  every comparable entry is a candidate, since the first one left out would have
  as many before it as the ceiling.

Every invariant the passing runs check is stated by a theorem, as is the
refinement. Only model-checked is liveness (`JobsSettle`, `EventuallyEnriched`,
`EventuallyCurrent`, `MigrationSettles`, `ViewSettles`): under fairness it needs
ENABLED, which is outside what TLAPS can prove here. Of liveness, the proofs give
the safety half: `StaleHasWork` and `MigratedIsSettled` say that the work that
fairness then drives is never lost, under the assumptions and but for the
exceptions they name.

## 6. Not modelled, and the plan

Not modelled: the numbers inside the vectors (hashing and floating point),
configuration and wiring (they are the constants), the database connection and
its retries, the seed script (it empties the system first), routing, parsing and
health checks (no state), rendering, the text search of the list, and comments.
ClientViews follows one view at a time: the dashboard's views share no state
beyond the entry that is open.

Next, in this order:

1. Entries whose enrichment fails for ever in front of every batch of the sweep, and
   edits beside two migrations.
2. Comments and the PATCH that replaces them, and the `comments` box of the form.
3. A proof of `CompletedIsCurrent` over `BatchSpec` without reevaluations: that
   migrations beside patient edits leave nothing outdated, for every constant.
4. The seed script's `--enrich` beside running workers.
