# Agentic SOC Triage Assistant: a TLA+ development

The program ingests firewall logs, detects suspicious activity, correlates it into
incidents within a file and across files, and writes a brief for an analyst, with texts of
a language model where they can be trusted. It is a set of processes that meet in database
rows and in directories: an API with its threads, polling or Celery workers, and
command-line maintenance jobs. What is hard to test in it is of two kinds: steps of several
processes in an order nobody wrote a test for (conditional updates, leases nobody renews,
savepoints, caches, a breaker without a lock), and long chains of pure functions whose
stages must agree with one another (36 rules, merging, suppression, grouping). Both are here.

All line numbers are those of the sources; `PROJECT.json` maps each definition to its lines.

- [Inventory](#inventory) · [Plan](#plan) · [Modules](#modules) · [Runs](#runs) ·
  [Proofs](#proofs) · [Where code and text differ](#where-code-and-text-differ) ·
  [Not modelled](#not-modelled)

## Inventory

| Component | State | Operations | Hard behaviours | Correct when | Modules |
|---|---|---|---|---|---|
| **Background jobs** (`workers/`, `queue/`, `application/{background_service,cancellation,analysis_service,staging}.py`) | row of `ingestion_jobs`, staged file, broker messages, audit events | submit, dispatch, claim, checkpoint, persist, retry, fail, cancel, recover, clean up | several workers and uploads; crash; lapsed lease; duplicate, early or lost message; cancellation at any moment | one executor, results published once, upload there while needed, cancellation carried out, every job ends | `AnalysisJobs`, `JobContract` |
| **Stateful correlation, incidents, outbox** (`application/stateful_*.py`, `correlation/`, `persistence/{repositories,lifecycle}.py`, `api/v1/incidents.py`, `application/search_outbox.py`) | correlation rows, incidents with associations, events, search documents | create, merge, repair, new generation, keep batch-local, transition, enqueue | analyses of one key race in savepoints; locks in opposite orders; late batches; status updates in between | no evidence lost, one incident per generation, every job ends | `StatefulCorrelation` |
| **Detection** (`detection/`, `filtering.py`) | none between batches | filter, detect, suppress, deduplicate, cluster, merge | windows, ties, late and repeated lines, rules that raise | no signal or event lost or told twice, severity follows the events | `FirewallEvents`, `Detectors`, `IncidentCorrelation`, `DetectionPipeline` |
| **Briefs** (`detection/{presentation,rollup,fixed_source_port_cluster}.py`, `triage/{routing,disposition}.py`) | none | route, derive, group, sort, cut, roll up | views of the same incidents derived apart | the views agree, what is urgent is shown | `BriefRows`, `TriageBrief` |
| **Enrichment of the brief** (`triage/enrichment.py`, `triage/*provider*.py`, `triage/{retry,circuit_breaker}.py`, `application/brief_enrichment_service.py`) | the breaker, shared by threads | call, retry, record, validate, fall back | the breaker has no lock; any answer | an outage is respected, the breaker tries again, each text is grounded | `BriefEnrichment` |
| **Access** (`api/{security,deps,rate_limiting}.py`, `security/`, `application/{authentication,oidc_authentication}.py`) | key rows, cached key set, window counters | admit, authenticate, authorise, count; issue, revoke, rotate | revocation against use; rotation against cache; window ends; store, database, provider down | a revoked key stops, a rotated one is found, admissions are bounded | `Access` |
| **Retention cleanup** (`application/cleanup.py`, `persistence/cleanup_repository.py`) | run row with lease and version, progress rows with cursors, five root tables | claim, batch, phase end, completion, failure | takeover in the middle of a batch; holds and new links between check and delete; overlapping archives | only eligible, archived, unreferenced rows go; counters and cursors are the truth | `RetentionCleanup` |
| **Archive life cycle** (`application/archive.py`, `archive/storage.py`, `persistence/archive_repository.py`) | run row; directory in `.partial` or exposed | create, export, check, finalize, abort, verify | no common transaction of database and directory | verified means in place; failed means not in place; a crash can be repaired by verify | `RetentionArchive` |
| Archive format, retention planning, OpenSearch mapping, ingestion and parsers, prompts and texts, search API, heartbeats, migrations, the legacy LangGraph pipeline | – | convert, read, render | none | – | see [Not modelled](#not-modelled) |

How they interact: the API and the CLI submit files, through the gates of `Access`;
`BackgroundAnalysisService` stages the file and writes the job row; a dispatcher sends a
message or leaves the row to the pollers; `AnalysisWorker.process_job` claims the row and
calls `AnalysisService`, which parses, detects (`DetectionPipeline`), routes and selects
(`TriageBrief`), asks for texts (`BriefEnrichment`), correlates (`StatefulCorrelation`), and
in **one** transaction persists everything, enqueues search documents and completes the row
under a condition (`AnalysisJobs`). The maintenance commands archive old rows, verify the
archive and delete what it holds, while analyses go on linking, merging and reopening. A
unit of work is one transaction (`persistence/unit_of_work.py`); except in
`StatefulCorrelation`, which looks into one, it is the atomic step.

## Plan

The order of the modules follows the weight of what they decide, and each was
written so that it can be proved about: parameters as CONSTANTS with named assumptions, one
action per operation, no RECURSIVE operators.

1. `AnalysisJobs` with its abstract specification `JobContract`, checked and proved.
2. `RetentionCleanup` and `RetentionArchive`, checked and proved. The archive provides the
   premise of `RetentionCleanup!Claim`: the archive of a verified run is in place.
3. `StatefulCorrelation`, checked and, in its safety, proved.
4. The detection chain, composed by EXTENDS: `FirewallEvents` → `Detectors` →
   `IncidentCorrelation` → `DetectionPipeline`; and `BriefRows` → `TriageBrief`; checked
   and, in all their invariants, proved.
5. `BriefEnrichment` and `Access`, checked and, in their safety, proved.

Open: an abstract incident store that `StatefulCorrelation` refines; the outbox, once
something consumes it.

## Modules

### AnalysisJobs

One row of `ingestion_jobs` (rows of different keys share nothing), the staged files, and
every process that touches them.

| Variable | Code |
|---|---|
| `job` | `status`, `job_id`, `attempt_count`, `worker_id`, `lease_expires_at` (none/live/expired), `next_retry_at` (none/waiting/due) |
| `staged` | ids with a file in the staging directory (`staging.py`) |
| `commits` | analysis transactions committed for the row (a history counter of `_persist_analysis`) |
| `audit` | `job_cancel_requested` and `job_cancelled` events |
| `broker` | Celery messages waiting |
| `wpc`, `upc`, `spc`, `rpc`, `cpc` | where worker, upload, synchronous request, recovery process and cancel request stand |

A step is one transaction or one file operation. Where the code loads a row, does other
work, and later writes it by primary key, the model reads in one step and writes,
unconditionally, in another (`FindFailedJob`/`RequeueFailedJob`, `ScanStaleJob`/
`RequeueStaleJob`). Simplifications:

- the exception handler's `get` and write, and the refresh and write after completion, are
  one step each: nothing is between them but the statement itself;
- checkpoints that find nothing are silent; `ObserveCancellation` may happen at any of them;
- a synchronous request's unique-key failure after its analysis is `SyncTurnedAway`: all it
  did is rolled back;
- nothing in today's pipeline raises a *retryable* error (`brief_enrichment_service` catches
  the provider's), so `retryable` is the worker's contract with its pipeline, the branch
  `src/tests/job_recovery` exercises;
- the retention cleanup deletes old job rows in its own module and not here;
- `reused_count` is left out: no decision reads it.

`JobContract` is what a caller may assume: at most one worker runs the analysis, it
publishes once, and nothing runs it again after that. The mapping is `running` = workers in
an executing position, `published` = `commits`.

### StatefulCorrelation

The persisting transactions of several analyses, statement by statement, in PostgreSQL at
READ COMMITTED.

| Variable | Code |
|---|---|
| `state` | `incident_correlation_states`: incident, generation, version guard, window, expiry, by correlation key |
| `incident` | incidents with their events, context events, jobs, key, interval, status, version |
| `event` | stored canonical events |
| `projected` | incident documents (outbox rows when the search is enabled) |
| `txn` | the open transaction of each job: position, locks held, private writes, savepoint |
| `patch` | what a status update (`PATCH /incidents/{id}/status`) has read |

`SELECT … FOR UPDATE` waits for the holder of a row it can see; an INSERT waits for an
uncommitted row of the same key and fails on a committed one; both go on with what is
committed then. `LockEvents` takes the locks of all existing events of a job in one step, where
the code takes them one by one (`analysis_service.py:315`): two jobs that wait for each other's
events are left out, and deadlocks are those over states and incidents. Private writes become
visible at `Commit`; `RolledBack` goes back to the
savepoint around the creation of a canonical incident; `DeadlockVictim` aborts one
transaction of a cycle; `Abort` is any other error. What a batch decides on is an operator of
the rows read: `Decision` (merge, stale, new generation or repair, for a key that has a state), `Merged`,
`Reconciled`, `IsNoop`, `ExpiresAt`. Signals behave as events do and are not told apart.
Tables are functions from ids and keys to rows or `Absent`; private writes are partial
functions (`Written`) laid over them at commit (`Over`). `EvidenceKept` lets a context event go
only when it became evidence or when the bound displaced it (`Displaced`).
A status update has no lock: it reads and writes in two steps. The derivation of a
correlation key is an input.

### FirewallEvents, Detectors, IncidentCorrelation, DetectionPipeline

`FirewallEvents` defines a canonical event and the predicates that all rules share
(directions by zone and address, translation, block and allow, flags, SPI markers,
relatedness of context). `Detectors` has the 36 rules of the default registry as operators
from a set of events to their signals: a group, a window that slides over it in
(timestamp, id) order, thresholds, confidence, the bounded lists of a signal.
`IncidentCorrelation` has what follows: suppression, deduplication of one rule's windows,
precedence, clustering around anchors, severity and confidence, merging of overlapping
incidents, context and evidence with their bounds. `DetectionPipeline` is `analyze` stage by
stage over a candidate list that `Receive` grows by any line of a theme, late or repeated.
The loops that carry a result along a list (absorbing repeated windows, placing a signal in
a cluster, merging incidents) are folds of named steps: `Deduplicated`, `Placed`, `Combined`.
An id is what the code hashes; where the code breaks a tie by comparing hashes, the model
has one fixed order. Ratios are percentages, confidences thousandths. Texts are left out.

### BriefRows, TriageBrief

`BriefRows` has evidence strength and disposition of an exposure, the route of an incident,
exposure groups in bursts, clusters of scanners that share a source port, the order of rows,
exposed assets and blocked reconnaissance. `TriageBrief` continues the pipeline with
`RouteIncidents`, `SelectRows` (which may raise) and `FileReports` (before which the job may
be cancelled). Rows, digests, reports and assets are derived from the incidents by different
code; its properties relate them. The code sorts all rows and takes the sections from the
sorted list; `ActNow` and `Investigate` select first and sort then, which gives the same list
because no two rows have equal keys.

A group names at most `MaxMembers` of its members (`MAX_ITEM_MEMBERS`), sorted by ids that are
hashes, and an incident that no group names gets a row of its own. `Listed` is therefore a
choice of as many members as fit; severity, confidence and times are those of all. The other
lists of a row are cut for display alone, and are left out.

### BriefEnrichment

Threads that enrich one brief after another. `/analyze` and its like are synchronous
endpoints (`server.py:222`), which the framework runs in threads; they share the breaker of
`provider_factory`. A thread gives up the interpreter where it waits for the provider and
around `time.monotonic()`; what is between two such points is a step, so `check` is
`CheckPasses` or `CheckReadsClock` and then `CheckHalfOpens`/`CheckRaises`, and
`record_failure` is `CountFailure` and `StampFailure`. A failed authentication with Groq is
counted twice, as in the code. An answer is data: entries for any row, in any order, with
long or ungrounded texts, unsupported claims, few actions, or a field of the wrong type.
`config` tells ready, disabled and misconfigured models. `streak` and `quiet` are history.
Not modelled: stored texts and their replay, deadlines (none is passed on this path), and the
older invocation for a single incident.

### Access

A request from the trusted-host check to the permission: `Arrive` is everything before the
first wait (boundary, address, ceiling, credential's shape), then `LookUp`/`UseKey`/
`ExpireKey` for a key, `UseCachedKeys`/`StartFetch`/`FetchAnswered`/`FetchFails` for a token,
`RefuseCredential` with its failure counter, `Quota`. The credential CLI creates and revokes
(`BeginRevoke`, `ReadForRevoke`, `WriteRevoke` with its retries), the provider publishes and
withdraws keys, time passes in half seconds. Both limiters are one operator each
(`CountInMemory`, `CountInRedis`). Abstractions: https is required, forwarded headers count
only from `TrustedProxies`, limiting is enabled; health and documentation categories are
folded into `general` and the readiness probe, whose checks of database and queue are left out;
a conditional UPDATE and its commit are one step (the row lock); the memory limiter's clock,
read before its lock, is read in the step; the discovery document is fetched with the key
set; the checks on a token's claims are one boolean; a kid is not reused after its
withdrawal.

### RetentionCleanup

The calls of `RetentionCleanupService.execute` for one archive. The archived candidates of
a type are a sequence, the keyset cursor (`recorded_at`, `entity_id`) a position in it.

| Variable | Code |
|---|---|
| `run`, `progress` | `retention_cleanup_runs`, `retention_cleanup_progress` |
| `row` | each root: present, deleted by this run, or removed by another |
| `held`, `recent`, `open` | active legal holds; incidents changed after the cutoff; those of them not closed |
| `fresh` | roots with a dependent row (link, evidence) made after the archive |
| `pc`, `seen` | where each call stands, and what the batch it is in has read |

A batch is two steps: `BeginBatch` is what its transaction reads and classifies,
`CommitBatch` its last statements with the commit. A statement sees what is committed when
it runs (READ COMMITTED), so holds, reopenings, links and other cleanups come in between.
The commit needs the guard of lease, owner and version (`Granted`) and a root delete that
finds every row it should (`Deletable`); otherwise `LoseBatch` rolls all of it back. A
database or archive error is `Raise`. Rows created after the archive are never candidates;
they appear through `fresh`. An incident that is closed again but was changed after the
cutoff is `recent` without being `open`. `RemoveElsewhere`, the cleanup of an overlapping
archive, is atomic. The cleanup's own audit events are not modelled.

### RetentionArchive

`ArchiveService.create` for one id and any number of `verify` calls, between the row
(`status`) and the directory (`artifact`). The two share no transaction: failures and crashes
come anywhere. `_mark_verified` reads and writes in two steps, since the row may change in
between; `mark_failed` writes whatever the row says, and may itself raise. What nobody cleans
up is visible in the model: a crash may leave a `creating` or `completed` run without an
archive, and a `.partial` directory. `Claim` of `RetentionCleanup` is enabled by an archive
that verifies, which `VerifiedExposed` says is there; the two modules meet nowhere else.

## Runs

The bounds of every run are in its cfg and MC module.

| Run | Instance | Shows |
|---|---|---|
| `serialised` | 2 polling workers, 1 upload, 1 recoverer, 1 canceller, 2 attempts, 2 crashes, leases hold, fairness | `OneExecution`, `UploadKept`; `ContractKept`, the refinement of `JobContract`; `JobSettles`, `CancellationCarriedOut` |
| `hostile` | Celery with duplicates and failing sends, an upload and a synchronous request, lapsing leases, 1 crash | what holds when nothing serialises the writers: `CompletedHasResults`, `CommitsWithinClaims` |
| `cleanup` | 5 roots with all kinds of references, batches of 2, 2 calls, a hold, a changing incident and event, fairness | `CountsExact`, `ReferencesIntact`, `CompletedScannedAll`, `DeletionsEligible`, `LeaseHolderWrites`, `CallsEnd` |
| `made` | 2 verifiers, every failure and crash, also a finalize that fails after its rename, fairness | `VerifiedExposed`, `ExposedGetsVerified` |
| `correlation` | 2 jobs with five pairs of batches (same key at once, keys in opposite orders, late, repeated, batch-local), 1 status update, a clock of two instants, fairness | `TypeOK` with the foreign keys, `CommittedCovered`, `OneIncidentPerGeneration`, `EvidenceKept`, `GenerationsHold`, `JobsEnd` |
| `brief` | every log of at most 2 to 4 lines of fourteen themes, with late and repeated lines, a rule that raises, and an operator policy | `SignalsToldOnce`, `EventsAccounted`, `SeverityFollowsEvents`; `EligibleRepresented`, `UrgentShown`, `AssetsAgree`, `BlockedAccounted` |
| `enrichment` | 2 threads, 3 rows, some sixty answers for one thread and one for the other, a threshold of 2 failures, 1 retry, fairness | `TextsGrounded`, `RejectedAlone`, `InvocationsTold`, `OutageRespected`, `BreakerTriesAgain` |
| `access` | 2 threads, 1 administrator, 1 key, 2 signing keys, each of the four modes with the calls that matter to it, both limiters, fairness | `RevocationReported`, `AdmissionsBounded`, `CredentialsRespected`, `WithdrawnKeyRefused`, `RotatedKeyAccepted`, `RequestsEnd` |
| `cancelled_published`, `row_hidden`, `undated_line`, `window_renewed` | the instance of `serialised`, and small instances of `brief` and `access` | the disagreements below |

Deadlock is checked in `enrichment`, where something can always happen. The
others say `CHECK_DEADLOCK FALSE`: all calls may have ended, the log or the clock is over,
and that is the normal rest.

Bounds and why they suffice:

- **Jobs.** `MaxAttempts = 2` has a first attempt, a retry and a job out of attempts. Two
  workers are enough for every race over one row, since a step compares the row only with
  the worker that makes it; the proofs below remove the number. `ClaimBound` and
  `BrokerBound` stop resubmission and duplication from counting for ever; `serialised` ends
  below `ClaimBound`. `MaxCrashes` of 2 lets a worker die and its successor, or the
  recovery, die too.
- **Cleanup.** The root instance has an incident with an audit event, and two incidents of
  one job that share an event, so every reference that the phases must respect occurs, and a
  hold on one incident protects what the other could give up; batches of 2 make full, partial
  and empty batches. `VersionBound` is above what two calls can reach. In `RetentionArchive`
  nothing counts but `announced`, bounded by its number of callers.
- **Correlation.** Two transactions give every wait, every failed insert and a deadlock. A
  window and a time to live of 1 around batches at 0 to 3 and a clock of 0 and 1 reach all
  decisions; `MaxContext = 1` displaces context.
- **Detection.** The rules keep their windows, spans and ratios; minimum counts are cut to
  two, so that four lines meet them. A theme holds events that can meet in rules (a scan and
  the answers to it, knocks before an admission, published and direct access, …), with the
  gaps that put them inside and outside windows. `MaxRows = 1` makes the sections overflow;
  `MaxMembers = 2` stands for 25, and bursts of one to three exposures fill a group's row, do
  not fill it, and are too many for it.
- **Enrichment.** `MaxBatch = 2` (10 in the code) with three rows leaves one out. Only the
  first thread has the rich answers; the second moves the breaker under it. The failure
  counter stops at the threshold, where the code only compares it.
- **Access.** Counters have limit 1 (2 in `window_renewed`), windows 4 half seconds, a
  cached key set 1. The number of requests and ticks is bounded by mode: 4 and 5 without
  authentication, where the history of admissions is kept (`Watched`); 2 and 1 with keys; 3
  and 2 with tokens; 2 and 0 with both. In `access` a stretch of one window meets two
  windows at most in either backend; that a longer one meets three in Redis, and never more, is proved for
  every length. The revocation has 2 tries of its 3 and 1 call of its 3.

Fairness. **Jobs**: a process that has begun goes on (its crash is an action of its own),
time passes, and recovery is run again and again – `src/README.md:358` gives the command
that operators are to schedule; nothing in the program calls it. Nobody is obliged to
upload, cancel or retry. **Cleanup**: a call that has begun runs on; it is a loop without
waiting. **Archive**: `create` runs on unless it crashes; `verify` is called again and again
and does not fail for ever where it could succeed (strong fairness on its three steps), which
is an assumption about operators and disks and not about code: no scheduler retries `verify`.
**Correlation**: a statement that is granted is executed, and the database breaks deadlocks.
**Enrichment**: calls have a time limit, so threads go on; analyses with rows keep coming and
time passes (strong fairness, as each is disabled now and then); an open breaker without
callers stays open, and nothing is lost by it. **Access**: threads and the command-line tool
go on; weak fairness is enough for the lock of the key set, because arrivals are bounded.

Every property has a mutant: a definition of the model replaced by what a plausible slip in
the code would make of it, under which the run fails. They stand before the definition they
replace, each with a comment.

## Proofs

TLAPS proves, for every value of the constants (any processes, budgets, archives,
references, answers, calls):

`AnalysisJobs_proofs`, from `ConstantsAssumption`:
`TypeCorrect`; `CompletionPublished` (`CompletedHasResults`; a worker past `PersistResults`
has committed something, `PublishedFirst`, is the strengthening); `CancellationsRecorded`
(`CancellationAudited`: one audit event for each step of a cancellation).
From `Serialised` (leases do not lapse, no synchronous request of the same file, at most
one upload and one recoverer): `ExclusiveExecution`, `SinglePublication`,
`CancellationPrevails` and `ContractImplemented`, the refinement. Their invariant
`SerialInv` says why: an executing worker holds a row that is leased to it
(`ExecutesLeasedRow`), the recoverer acts on a row whose worker is gone
(`RecoversAbandonedRow`), an upload that is not done has nobody executing behind it
(`UploadFirst`), and published results leave the row completed (`PublishedForGood`).
`OneExecution` alone is not inductive: it does not say that the row a worker executes cannot
be claimed.

`RetentionCleanup_proofs`, from `ConstantsAssumption` and `ArchiveIndexed`: every
safety property of `cleanup` and three more. `ReferencesKept` needs that what a batch found
unreferenced stays so, because rows only leave. `OnlyEligibleDeleted`, `OnlyHolderWrites`,
`FailedByOwner` follow from the guards of the commit. `NothingLinkedDeleted` needs
`ForeignKeys`. `WholeArchiveScanned` needs `Cursors`: a batch that still passes the guard
has read the cursor as it is now. `CountsAreExact` needs `Counters` on top: what a batch
scanned lies behind no cursor, and what it will delete has not been deleted yet;
`OnlyScannedDeleted` follows.

`RetentionArchive_proofs`: `TypeCorrect`; `VerifiedIsExposed`, from `Placed` (who has
passed the check of the final directory finds it there for good). With finalize not failing
after its rename, `FailedIsNotExposed` and `VerifiedStays`, from `FailedBefore`.

`StatefulCorrelation_proofs`, from `ConstantsAssumption` (`Absent` is no row and no id; a
batch is a sequence of bundles): `CorrelationInvariant`, and from it every safety property of
`correlation`: `RowsAreTyped`, `DetectionsAreCovered`, `GenerationsOwnOneIncident`,
`EvidenceIsKept`, `GenerationsAdvance`. None of the five is inductive: each speaks of committed
rows, and what will be committed sits in an open transaction. `TxnsInv` says what sits there.
The private rows of a transaction *follow* the committed ones (`Follows`): it holds the lock of
every row it writes, its incidents extend the committed ones, its correlation rows advance
them, and in its own view no generation has a second incident. Behind a savepoint the same
holds of what a rollback would leave (`HeldOf`, `RowsOf`, `FinalOf`), which is all that
`RolledBack` needs. `Accounted` says of each bundle resolved so far that its evidence is in
the private rows or that it is kept for the batch-local path. Since locks exclude each other
(`LocksExclude`), one transaction's commit leaves what the others have read untouched, so a
commit keeps all of it (`CommitsKeep`), and a step of one transaction frames the rest
(`TxnFrame`). `WritePatch` has no lock, but changes neither evidence nor owner.

`BriefEnrichment_proofs`, from `BoundsAssumption`: `EnrichmentTypes`; `BreakerInvariant`,
which says that the breaker's fields are what happened (`Remembered`), that a thread which
found the reset time elapsed still finds it so (`ElapsedHolds`), and that enough failures in
a row mean an open breaker, unless the reset time is over or a failure is only now being
stamped (`OutageOpen`); from it `OutageIsRespected`, for any number of threads without a lock.
`TextsAreGrounded` and `EntriesAreRejectedAlone` follow from what validation accepts (the first
entry of a requested row), `InvocationsAreTold` from `InvocationInvariant`: who is being
invoked has rows, may use the model and has no answer yet.

`Access_proofs`, from `AccessAssumption`: `AccessInvariant` (only tokens and probes ever look
at the key set, only keys at a row of the database) and from it `KeysAreRespected`: no
interleaving of uses, expiry and revocations authenticates with a key that is not active and
unexpired in that step. `RevocationIsReported` needs what a command believes of its row to be
supported by it (`RevokersInv`): the row has grown by a version for each try lost, and a
revoked row was revoked after it was read. `KeySetsInvariant` says that a cached set ends no
later than its life after now, and after the withdrawal of any of its keys; from it
`WithdrawnKeysAreRefused` and `RotatedKeysAreAccepted`. `Never`, the time of a withdrawal that
has not happened, is above every horizon.

`Access_proofs`, further: `AdmissionsAreBounded`, from `LimitsInvariant`. An open window was
opened at some time s, has let through no more than its counter says, and lasts at least
`Shortest` (`Current`); what is older in the history is from one earlier window, in Redis from
two (`Past`). In Redis a refusal, unless it is the first, sets the time to live anew in whole
seconds, and a half second left over is lost; the invariant `Timing` counts these losses
against the time that has passed, and so a window lasts more than half of its length, however
many refusals there are.
The proof is where the bound came from: twice the limit, which holds for every window in
memory, is not what Redis does with windows longer than the two seconds of `access` (see
[below](#where-code-and-text-differ)).

`AnalysisJobs_proofs`, further: `CommitsAreClaimed` (finitely many synchronous requests; each
claim and each such request publishes once, `ClaimsInv`), with nothing that serialises the
writers; and from `Serialised` and a broker that does not fail, `UploadsAreKept`. Its invariant
`FilesInv` adds that while the row may still be run, its file is there and nobody is about to
remove it (`MayRun`, `Withdrawing`). With a failing broker it is false (TLC, one upload): a send
that raises after the broker took the message starts an attempt, the upload meanwhile marks the
row failed and removes its file, and when the attempt fails too it queues the row again.

`DetectionPipeline_proofs`, from `AddressAssumption`, `ThresholdAssumption` and
`ThemesAssumption` (addresses and thresholds are integers, a theme delivers well-formed
lines), for every list of lines, every rule set, every trust policy and all thresholds:
`SignalsTold`, `EveryEventAccounted` and `SeverityFollows`, from `PipelineInvariance`. The
invariant `PipelineInvariant` says, stage by stage, what the next one relies on: accepted
events have ids and ranks of their own; what the rules emit is what their windows tell
(`Evaluated`: each of the 36 rules gives signals of its own name, over events it was given,
with the bounds of its list); after deduplication each signal gathers emissions of one rule
and subject whose windows touch, together they hold the events of all of them, and no two
have one name (`DedupShape`); after correlation the incidents share out the signals, and what
an incident says of its severity, interval and events is what its signals say
(`CorrelatedShape`). Why names stay apart is the hard part: two windows of one rule and
subject that did not merge lie apart in time, and this must survive each further merge.

The stages are folds over sorted lists. The proof shows for each that its function exists
(`FoldExists`), what one step does, and then that a property holds at every index by looking
at the first one at which it would fail; existence of a sorted list, and of a signal that
precedes all others, is shown in the same way from a well-founded order. So the induction is
in the proof, over numbers, and none of the library's induction theorems is needed.

`TriageBrief_proofs`, from the same assumptions and `BriefAssumption` (the lengths of a section
and of a group's list of members are numbers, the gap of a group an integer), continues that
invariant through triage: `Represented`, `UrgentOnTop`, `AssetsTold` and `Accounted`, all four
invariants of the brief. Once the incidents are known they do not change, and routes, digests,
rows and reports are functions of them (`BriefInvariance`); the rest is what these functions
give.

- What is sorted by its beginning divides into bursts that lie a gap apart (`BurstShape`):
  a fold again, used for exposures and for blocked reconnaissance.
- An incident is known by its anchor, and by the key it is ordered by (`IncidentsApart`),
  because an anchor is a signal and signals are shared out. So groups do not overlap, an
  incident is in one row (`InOneRow`), and no two rows have one key (`TiesApart`). Which members
  a group lists is left open: the proofs use only that they are as many as fit (`ListedFacts`),
  so a member with a row of its own is left over from a full list (`OwnRow`).
- Keys of groups, clusters and incidents differ in length; they compare as longer ones padded
  with zeros do (`PadPrecedes`), and a sorted section is a list of its rows (`RowsOrdered`).
- The severity of a group is the strongest of its members (`StrongestIs`); what was cut off
  after a full section stands behind rows at least as severe (`ShownOrFull`).
- A signal of an exposure rule is told by events that reach a sensitive service, for each of
  those rules but one (`Shown`, shown rule by rule), so the entity of its incident is in the
  inventory.

`AssetsTold` excepts incidents about an administrative service. It is not enough that some
event of the incident reaches a sensitive service: the entity is that of the anchor, and this
rule, alone among those of exposures, also tells of services that are not sensitive.

Only model-checked: liveness (`JobSettles`, `CancellationCarriedOut`, `CallsEnd`,
`ExposedGetsVerified`, `JobsEnd`, `BreakerTriesAgain`, `RequestsEnd`), which is beyond the
prover here. Every invariant and every safety property of the passing runs is a theorem.

## Where code and text differ

The runs that find a violation, each under a property that a document, comment or test states.

| Run | Property | What happens |
|---|---|---|
| `cancelled_published` | `CancelledPublishesNothing` | an attempt fails and is to be repeated; the cancellation accepted before its handler writes is overwritten with `queued`, and the next attempt publishes (`analysis_worker.py:204`). Recovery does the same to a row that it read as processing (`:290`): TLC finds that one too when no error is retryable |
| `row_hidden` | `EveryRowListed` | two groups that differ only in translation share an id; the less severe one is in no section when the other is urgent (`presentation.py:539`, `:484`) |
| `undated_line` | `RejectedLineHarmless` | a probe without a timestamp, which the engine rejects and reports, is sorted with the others of its source by the brief and raises: the analysis fails (`scan_helpers.py:284`) |
| `window_renewed` | `RefusedOnlyOverLimit` | Redis tells the remaining time in whole seconds, rounded; a request in the last half second of a window renews it with its count, and a client that keeps to the limit is refused (`rate_limiting.py:120`) |

More was found with TLC, or while the code was translated, and has no run here. Jobs:

- the conditional completion asks for status `processing` only, which another worker's claim
  also provides (`analysis_service.py:580`; the comment at `:577` speaks of the lease);
- the cleanup of a failed job removes the file a resubmission has put there
  (`analysis_worker.py:227`); `UploadKept` holds with one upload and a broker that does not fail;
- the truncated countdown delivers a Celery retry too early, where it is ignored (`tasks.py:35`);
- a synchronous request's job that is asked to cancel stays so for ever (`cancellation.py:169`);
- a duplicate message that finalizes the cancellation of a job whose worker still runs lets
  that worker's retryable failure requeue the cancelled job (`analysis_worker.py:204`); a
  resubmission that read the row as failed requeues it after another request completed it
  (`background_service.py:83`).

Archive and cleanup: finalize may fail after its rename (`made` includes it, and
`FailedIsNotExposed` is proved where it does not), and `create` marks the run of an
exposed archive failed, also one that verify promoted meanwhile (`storage.py:202`); without
enforced foreign keys (SQLite) an analysis links an old event between check and delete
(`cleanup_repository.py:361`).

Incidents: a transition validated on an old row writes its status and version over newer ones
(`lifecycle.py:50`, `incidents.py:115`): the version may go down. An analysis that triages an
incident an analyst has moved meanwhile ends in a 409 of its own (`analysis_service.py:558`).
With the search enabled, the document of an incident has the version of its row in its key, but
also tells of jobs, reports and evidence, which change without one; enqueueing it again with
another content ends the analysis (`search_outbox.py:216`).

Detection and brief: a group names 25 of its members, and a member that it does not name gets a
row of its own next to the group, whose events and severity include it (`presentation.py:540`,
`:464`; the docstring at `:446` says "represented once by their group"; `EligibleRepresented`
says that this is the only case); the fixed-source-port variant is folded into the plain
vertical scan (`engine.py:218`), and both are told as one signal; groups whose span exceeds the
window are dropped from the scanner clusters.

Enrichment: a number where the answer should have a list of actions raises in the validation,
outside every `try`, and the analysis fails (`enrichment.py:295`), although
`brief_enrichment_service.py:56` says "Always returns a complete result"; a string in place of a
list of actions is read character by character; every thread goes through a half-open breaker;
the provider is called inside an open transaction.

Access: a very busy key makes its revocation end in a conflict after three tries, told but
not retried further (`authentication.py:340`). In Redis each refusal but the first writes the rest of the
window anew in whole seconds (`rate_limiting.py:127`), so under steady refusals a window may
end almost half early, and a stretch of one window may meet three and three times the limit;
`phase5c4b-rate-limiting.md:81` accepts only the burst at one boundary. TLC reaches it with
windows of four seconds and a limit of 2.

Documented limits that are no findings: Celery acknowledges early and exactly-once
delivery is not promised (`src/docs/phase5b2-celery-redis.md`), so a crash between commit and
enqueue leaves a queued row without a message, and recovered jobs are not dispatched; a
cancelled file cannot be submitted again under its key.

## Not modelled

`PROJECT.json` lists every part with its status and reason. In short:

- text and data conversion by one thread: parsers, mappers, archive format, search documents
  other than an incident's, prompts, reports, localisation. Their results are inputs.
- the tables of projections and the claims of the outbox, a foundation (one conditional
  UPDATE each) whose worker does not exist yet (`src/docs/phase5d3b1-transactional-search-outbox.md:72`):
  what it must do with a claim, a failure or a version is open;
- reading endpoints and search pages: one read-only query each, and no document promises that
  pages fit together while rows change;
- the older invocation of the model for one incident (`triage/runner.py`, its cache and
  guardrails), the replay of stored texts, and the LangGraph pipeline in memory;
- schema migrations, scripts, benchmarks, heartbeats.
