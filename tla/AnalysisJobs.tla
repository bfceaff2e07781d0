---------------------------- MODULE AnalysisJobs ----------------------------
(***************************************************************************)
(* The life of one ingestion job: the row of table ingestion_jobs that one *)
(* idempotency key owns, the staged upload beside it, and every process    *)
(* that reads or writes them.                                              *)
(*                                                                         *)
(*   uploads     BackgroundAnalysisService.submit_file, one call each      *)
(*   sync calls  AnalysisService.analyze_file without a job id             *)
(*   workers     AnalysisWorker.process_job, polling or fed by Celery      *)
(*   recoverers  AnalysisWorker.recover_stale_jobs (--recover-stale)       *)
(*   cancellers  JobCancellationService.cancel                             *)
(*                                                                         *)
(* Rows of different keys share no state, so one row is enough.  A step is *)
(* one database transaction or one operation on the staging directory: a   *)
(* row that a session loads and later writes by primary key is read in one *)
(* step and written, unconditionally, in another.                          *)
(***************************************************************************)
EXTENDS Naturals, FiniteSets

CONSTANTS
    Workers, Uploads, SyncCalls, Recoverers, Cancellers,
    NoOne,          \* a NULL job id or worker_id
    Backend,        \* settings.task_queue_backend
    MaxAttempts,    \* settings.job_max_attempts
    LeaseMayLapse,  \* may an analysis outlast its lease, which nothing renews?
    BrokerMayFail,  \* may send_task raise (having delivered or not)?
    MaxCrashes,     \* bound: crashes of uploads, workers and recoverers
    BrokerBound,    \* bound: broker messages above which none is duplicated
    ClaimBound      \* bound: claims of the row

JobIds == Uploads \union SyncCalls

ASSUME ConstantsAssumption ==
    /\ NoOne \notin Workers \union JobIds
    /\ Uploads \intersect SyncCalls = {}
    /\ Backend \in {"database", "celery"}
    /\ MaxAttempts \in Nat \ {0}
    /\ LeaseMayLapse \in BOOLEAN
    /\ BrokerMayFail \in BOOLEAN
    /\ MaxCrashes \in Nat /\ BrokerBound \in Nat /\ ClaimBound \in Nat

VARIABLES
    job,      \* the row
    staged,   \* ids with a file in the staging directory
    commits,  \* analysis transactions committed for the row
    audit,    \* audit events recorded for it, by type
    broker,   \* Celery messages waiting for it
    wpc, upc, spc, rpc, cpc,  \* where each process stands
    crashes

vars == <<job, staged, commits, audit, broker, wpc, upc, spc, rpc, cpc, crashes>>

Status == {"absent", "queued", "processing", "cancel_requested",
           "cancelled", "completed", "failed"}

JobRow == [status   : Status,
           id       : JobIds \union {NoOne},
           attempts : Nat,
           worker   : Workers \union {NoOne},
           lease    : {"none", "live", "expired"},
           retry    : {"none", "waiting", "due"}]   \* next_retry_at

WorkerPC == {"idle", "picked", "claim", "claimed", "analysing", "marking",
             "retryable", "permanent", "persisted", "finalize", "cleanup",
             "republish"}
UploadPC == {"new", "staged", "move", "requeue", "insert", "dispatch",
             "publish_failed", "cleanup", "done"}
SyncPC == {"new", "retry", "analysing", "marking", "done"}
RecovererPC == {"idle", "requeue", "expire", "expired", "finalize", "cleanup"}
CancellerPC == {"idle", "cleanup"}

Init ==
    /\ job = [status |-> "absent", id |-> NoOne, attempts |-> 0,
              worker |-> NoOne, lease |-> "none", retry |-> "none"]
    /\ staged = {}
    /\ commits = 0
    /\ audit = [requested |-> 0, cancelled |-> 0]
    /\ broker = 0
    /\ wpc = [w \in Workers |-> "idle"]
    /\ upc = [u \in Uploads |-> "new"]
    /\ spc = [s \in SyncCalls |-> "new"]
    /\ rpc = [r \in Recoverers |-> "idle"]
    /\ cpc = [c \in Cancellers |-> "idle"]
    /\ crashes = 0

-----------------------------------------------------------------------------
(* What the transactions write.                                            *)

\* Leaving "processing" drops the worker and its lease.
Released(row) == [row EXCEPT !.worker = NoOne, !.lease = "none"]

RequeuedForRetry(row) ==
    [Released(row) EXCEPT !.status = "queued", !.retry = "waiting"]

Cancelled(row) ==
    [Released(row) EXCEPT !.status = "cancelled", !.retry = "none"]

Completed(row) ==
    [row EXCEPT !.status = "completed", !.lease = "none", !.retry = "none"]

\* Mutant: the attempt is not counted.
ClaimedUncounted(w) ==
    [job EXCEPT !.status = "processing", !.worker = w, !.lease = "live"]

ClaimedBy(w) ==
    [job EXCEPT !.status = "processing", !.worker = w, !.lease = "live",
                !.attempts = @ + 1]

-----------------------------------------------------------------------------
(* What they ask of the row first.                                         *)

Due == job.retry \in {"none", "due"}

\* Mutant: the claim does not ask for status "queued".
ClaimableAlways == Due
Claimable == job.status = "queued" /\ Due

Publishable == job.status = "processing"

AttemptsLeft == job.attempts < MaxAttempts

LeaseExpired == job.lease = "expired"

\* _add_audit_event: at most one event of a type per job.
Recorded(n) == IF n = 0 THEN 1 ELSE n

\* JobCancellationService.finalize, a conditional update.  The caller goes on
\* to remove the staged file only when the update found its row.
Finalize ==
    IF job.status = "cancel_requested"
    THEN /\ job' = Cancelled(job)
         /\ audit' = [audit EXCEPT !.cancelled = Recorded(@)]
    ELSE UNCHANGED <<job, audit>>

AfterFinalize == IF job.status = "cancel_requested" THEN "cleanup" ELSE "idle"

-----------------------------------------------------------------------------
(* Uploads: submit_file stages the file under a fresh id, looks the key up *)
(* and reuses, requeues or inserts the row.                                *)

UploadAt(u, from, to) == upc[u] = from /\ upc' = [upc EXCEPT ![u] = to]

UploadUnchanged == UNCHANGED <<commits, audit, wpc, spc, rpc, cpc>>

StageFile(u) ==
    /\ UploadAt(u, "new", "staged")
    /\ staged' = staged \union {u}
    /\ UNCHANGED <<job, broker, crashes>> /\ UploadUnchanged

\* An open or completed job is reused and the new copy of the file dropped.
ReuseJob(u) ==
    /\ UploadAt(u, "staged", "done")
    /\ job.status \in {"queued", "processing", "completed"}
    /\ staged' = staged \ {u}
    /\ UNCHANGED <<job, broker, crashes>> /\ UploadUnchanged

FindFailedJob(u) ==
    /\ UploadAt(u, "staged", "move")
    /\ job.status = "failed"
    /\ UNCHANGED <<job, staged, broker, crashes>> /\ UploadUnchanged

\* No row, or one in a status the lookup has no branch for.
FindNoReusableJob(u) ==
    /\ UploadAt(u, "staged", "insert")
    /\ job.status \in {"absent", "cancel_requested", "cancelled"}
    /\ UNCHANGED <<job, staged, broker, crashes>> /\ UploadUnchanged

\* move_file overwrites whatever the job's path holds.
MoveFile(u) ==
    /\ UploadAt(u, "move", "requeue")
    /\ staged' = (staged \ {u}) \union {job.id}
    /\ UNCHANGED <<job, broker, crashes>> /\ UploadUnchanged

\* The row read as failed is written back whatever it has become; attempts,
\* next_retry_at and the lease keep their values.
RequeueFailedJob(u) ==
    /\ UploadAt(u, "requeue", "dispatch")
    /\ job' = [job EXCEPT !.status = "queued"]
    /\ UNCHANGED <<staged, broker, crashes>> /\ UploadUnchanged

InsertJob(u) ==
    /\ job.status = "absent"
    /\ UploadAt(u, "insert", "dispatch")
    /\ job' = [job EXCEPT !.status = "queued", !.id = u]
    /\ UNCHANGED <<staged, broker, crashes>> /\ UploadUnchanged

\* IntegrityError on the unique key: the existing row wins.
LoseInsertRace(u) ==
    /\ job.status # "absent"
    /\ UploadAt(u, "insert", "done")
    /\ staged' = staged \ {u}
    /\ UNCHANGED <<job, broker, crashes>> /\ UploadUnchanged

\* The database dispatcher publishes nothing: pollers read the table.
Dispatch(u) ==
    /\ UploadAt(u, "dispatch", "done")
    /\ broker' = IF Backend = "celery" THEN broker + 1 ELSE broker
    /\ UNCHANGED <<job, staged, crashes>> /\ UploadUnchanged

\* send_task raises; whether the broker kept the message is not known.
PublishFails(u) ==
    /\ Backend = "celery" /\ BrokerMayFail
    /\ UploadAt(u, "dispatch", "publish_failed")
    /\ \/ broker' = broker + 1
       \/ UNCHANGED broker
    /\ UNCHANGED <<job, staged, crashes>> /\ UploadUnchanged

MarkPublishFailed(u) ==
    /\ UploadAt(u, "publish_failed", "cleanup")
    /\ job' = [job EXCEPT !.status = "failed"]
    /\ UNCHANGED <<staged, broker, crashes>> /\ UploadUnchanged

RemoveUnpublishedFile(u) ==
    /\ UploadAt(u, "cleanup", "done")
    /\ staged' = staged \ {job.id}
    /\ UNCHANGED <<job, broker, crashes>> /\ UploadUnchanged

UploadCrash(u) ==
    /\ upc[u] \notin {"new", "done"} /\ crashes < MaxCrashes
    /\ upc' = [upc EXCEPT ![u] = "done"]
    /\ crashes' = crashes + 1
    /\ UNCHANGED <<job, staged, broker>> /\ UploadUnchanged

UploadStep(u) ==
    \/ StageFile(u) \/ ReuseJob(u) \/ FindFailedJob(u) \/ FindNoReusableJob(u)
    \/ MoveFile(u) \/ RequeueFailedJob(u) \/ InsertJob(u) \/ LoseInsertRace(u)
    \/ Dispatch(u) \/ PublishFails(u) \/ MarkPublishFailed(u)
    \/ RemoveUnpublishedFile(u)

-----------------------------------------------------------------------------
(* Synchronous analysis: the request claims the row itself, with neither a *)
(* lease nor a cancellation checker.                                       *)

SyncAt(s, from, to) == spc[s] = from /\ spc' = [spc EXCEPT ![s] = to]

SyncUnchanged == UNCHANGED <<staged, audit, broker, wpc, upc, rpc, cpc, crashes>>

InsertPlaceholder(s) ==
    /\ job.status = "absent"
    /\ SyncAt(s, "new", "analysing")
    /\ job' = [job EXCEPT !.status = "processing", !.id = s]
    /\ UNCHANGED commits /\ SyncUnchanged

FindFailedInline(s) ==
    /\ job.status = "failed"
    /\ SyncAt(s, "new", "retry")
    /\ UNCHANGED <<job, commits>> /\ SyncUnchanged

\* The row read as failed becomes "processing" whatever it is by now.
RetryFailedInline(s) ==
    /\ SyncAt(s, "retry", "analysing")
    /\ job' = [job EXCEPT !.status = "processing"]
    /\ UNCHANGED commits /\ SyncUnchanged

\* Duplicate (processing), replay (completed), or an analysis whose insert
\* hits the unique key and rolls back (queued, cancel_requested, cancelled).
SyncTurnedAway(s) ==
    /\ job.status \notin {"absent", "failed"}
    /\ SyncAt(s, "new", "done")
    /\ UNCHANGED <<job, commits>> /\ SyncUnchanged

SyncPersist(s) ==
    /\ SyncAt(s, "analysing", "done")
    /\ IF Publishable
       THEN /\ job' = Completed(job)
            /\ commits' = commits + 1
       ELSE UNCHANGED <<job, commits>>
    /\ SyncUnchanged

SyncPersistFails(s) ==
    /\ SyncAt(s, "analysing", "marking")
    /\ UNCHANGED <<job, commits>> /\ SyncUnchanged

SyncMarkFailed(s) ==
    /\ SyncAt(s, "marking", "done")
    /\ job' = [job EXCEPT !.status = "failed"]
    /\ UNCHANGED commits /\ SyncUnchanged

\* An exception before persistence, or a crash of the API process.
SyncAbort(s) ==
    /\ spc[s] \in {"retry", "analysing", "marking"}
    /\ spc' = [spc EXCEPT ![s] = "done"]
    /\ UNCHANGED <<job, commits>> /\ SyncUnchanged

SyncStep(s) ==
    \/ InsertPlaceholder(s) \/ FindFailedInline(s) \/ RetryFailedInline(s)
    \/ SyncTurnedAway(s) \/ SyncPersist(s) \/ SyncPersistFails(s) \/ SyncMarkFailed(s)

-----------------------------------------------------------------------------
(* Workers: process_job, called for the row run_once picked or for a       *)
(* message Celery delivered.                                               *)

WorkerAt(w, from, to) == wpc[w] = from /\ wpc' = [wpc EXCEPT ![w] = to]

WorkerUnchanged == UNCHANGED <<upc, spc, rpc, cpc>>

\* run_once: the queued row that is due.
PickQueuedJob(w) ==
    /\ Backend = "database"
    /\ job.status = "queued" /\ Due
    /\ WorkerAt(w, "idle", "picked")
    /\ UNCHANGED <<job, staged, commits, audit, broker, crashes>> /\ WorkerUnchanged

\* Celery acknowledges a message when it hands it to the task.
DeliverMessage(w) ==
    /\ broker > 0
    /\ WorkerAt(w, "idle", "picked")
    /\ broker' = broker - 1
    /\ UNCHANGED <<job, staged, commits, audit, crashes>> /\ WorkerUnchanged

ReadStatus(w) ==
    /\ wpc[w] = "picked"
    /\ wpc' = [wpc EXCEPT ![w] =
                 CASE job.status = "cancel_requested" -> "finalize"
                   [] job.status = "queued"           -> "claim"
                   [] OTHER                           -> "idle"]
    /\ UNCHANGED <<job, staged, commits, audit, broker, crashes>> /\ WorkerUnchanged

\* The atomic check-and-set; next_retry_at keeps its value.
ClaimJob(w) ==
    /\ Claimable /\ job.attempts < ClaimBound
    /\ WorkerAt(w, "claim", "claimed")
    /\ job' = ClaimedBy(w)
    /\ UNCHANGED <<staged, commits, audit, broker, crashes>> /\ WorkerUnchanged

\* Mutant: the number of claimed rows is ignored.
ClaimFailsIgnored(w) ==
    /\ ~Claimable
    /\ WorkerAt(w, "claim", "claimed")
    /\ UNCHANGED <<job, staged, commits, audit, broker, crashes>> /\ WorkerUnchanged

ClaimFails(w) ==
    /\ ~Claimable
    /\ WorkerAt(w, "claim", "idle")
    /\ UNCHANGED <<job, staged, commits, audit, broker, crashes>> /\ WorkerUnchanged

\* raise_if_cancelled at any checkpoint of the analysis.
ObserveCancellation(w) ==
    /\ job.status \in {"cancel_requested", "cancelled"}
    /\ \E pc \in {"claimed", "analysing"} : WorkerAt(w, pc, "finalize")
    /\ UNCHANGED <<job, staged, commits, audit, broker, crashes>> /\ WorkerUnchanged

\* get_file_path: a missing file is a permanent error.
OpenStagedFile(w) ==
    /\ WorkerAt(w, "claimed", IF job.id \in staged THEN "analysing" ELSE "permanent")
    /\ UNCHANGED <<job, staged, commits, audit, broker, crashes>> /\ WorkerUnchanged

\* The analysis raises: before persistence, or inside it, where the service
\* first marks the row failed in a transaction of its own.
AnalysisRaises(w) ==
    /\ \E pc \in {"retryable", "permanent", "marking"} : WorkerAt(w, "analysing", pc)
    /\ UNCHANGED <<job, staged, commits, audit, broker, crashes>> /\ WorkerUnchanged

MarkPersistenceFailed(w) ==
    /\ WorkerAt(w, "marking", "permanent")
    /\ job' = [job EXCEPT !.status = "failed"]
    /\ UNCHANGED <<staged, commits, audit, broker, crashes>> /\ WorkerUnchanged

\* One transaction persists the results and completes the row, provided the
\* row is still "processing"; otherwise all of it rolls back.
PersistResults(w) ==
    /\ Publishable
    /\ WorkerAt(w, "analysing", "persisted")
    /\ job' = Completed(job)
    /\ commits' = commits + 1
    /\ UNCHANGED <<staged, audit, broker, crashes>> /\ WorkerUnchanged

\* Mutant: the number of updated rows is ignored.
PersistRefusedIgnored(w) ==
    /\ ~Publishable
    /\ WorkerAt(w, "analysing", "persisted")
    /\ UNCHANGED <<job, staged, commits, audit, broker, crashes>> /\ WorkerUnchanged

PersistRefused(w) ==
    /\ ~Publishable
    /\ WorkerAt(w, "analysing", "finalize")
    /\ UNCHANGED <<job, staged, commits, audit, broker, crashes>> /\ WorkerUnchanged

\* The row is refreshed and completed once more, unconditionally.
ConfirmCompletion(w) ==
    /\ WorkerAt(w, "persisted", "cleanup")
    /\ job' = Completed(job)
    /\ UNCHANGED <<staged, commits, audit, broker, crashes>> /\ WorkerUnchanged

FinalizeCancellation(w) ==
    /\ WorkerAt(w, "finalize", AfterFinalize)
    /\ Finalize
    /\ UNCHANGED <<staged, commits, broker, crashes>> /\ WorkerUnchanged

\* Mutant: the file is removed before the retry.
AfterRetryRemoved == "cleanup"

AfterRetry == IF Backend = "celery" THEN "republish" ELSE "idle"

\* The exception handler reloads the row and writes it, whatever it says.
ScheduleRetry(w) ==
    /\ AttemptsLeft
    /\ WorkerAt(w, "retryable", AfterRetry)
    /\ job' = RequeuedForRetry(job)
    /\ UNCHANGED <<staged, commits, audit, broker, crashes>> /\ WorkerUnchanged

FailJob(w) ==
    /\ \/ WorkerAt(w, "permanent", "cleanup")
       \/ ~AttemptsLeft /\ WorkerAt(w, "retryable", "cleanup")
    /\ job' = [Released(job) EXCEPT !.status = "failed"]
    /\ UNCHANGED <<staged, commits, audit, broker, crashes>> /\ WorkerUnchanged

\* The Celery task retries itself with a whole number of seconds to go, so the
\* message may arrive before next_retry_at.
RepublishRetry(w) ==
    /\ WorkerAt(w, "republish", "idle")
    /\ broker' = IF job.retry = "none" THEN broker ELSE broker + 1
    /\ UNCHANGED <<job, staged, commits, audit, crashes>> /\ WorkerUnchanged

RemoveStagedFile(w) ==
    /\ WorkerAt(w, "cleanup", "idle")
    /\ staged' = staged \ {job.id}
    /\ UNCHANGED <<job, commits, audit, broker, crashes>> /\ WorkerUnchanged

WorkerCrash(w) ==
    /\ wpc[w] # "idle" /\ crashes < MaxCrashes
    /\ wpc' = [wpc EXCEPT ![w] = "idle"]
    /\ crashes' = crashes + 1
    /\ UNCHANGED <<job, staged, commits, audit, broker>> /\ WorkerUnchanged

WorkerStep(w) ==
    \/ PickQueuedJob(w) \/ DeliverMessage(w) \/ ReadStatus(w)
    \/ ClaimJob(w) \/ ClaimFails(w) \/ ObserveCancellation(w)
    \/ OpenStagedFile(w) \/ AnalysisRaises(w) \/ MarkPersistenceFailed(w)
    \/ PersistResults(w) \/ PersistRefused(w) \/ ConfirmCompletion(w)
    \/ FinalizeCancellation(w) \/ ScheduleRetry(w) \/ FailJob(w)
    \/ RepublishRetry(w) \/ RemoveStagedFile(w)

-----------------------------------------------------------------------------
(* Recovery: one scan loads the expired rows, their writes commit later.   *)

RecovererAt(r, from, to) == rpc[r] = from /\ rpc' = [rpc EXCEPT ![r] = to]

RecovererUnchanged == UNCHANGED <<commits, broker, wpc, upc, spc, cpc>>

\* Mutants: requests to cancel are not looked for; a job out of attempts is
\* left alone.
RecoveryOfProcessing ==
    IF job.status = "processing" THEN IF AttemptsLeft THEN "requeue" ELSE "expire" ELSE "idle"
RecoveryWhileAttemptsLeft ==
    IF job.status = "cancel_requested" THEN "finalize"
    ELSE IF job.status = "processing" /\ AttemptsLeft THEN "requeue" ELSE "idle"

Recovery ==
    CASE job.status = "cancel_requested" -> "finalize"
      [] job.status = "processing"       -> IF AttemptsLeft THEN "requeue" ELSE "expire"
      [] OTHER                           -> "idle"

ScanStaleJob(r) ==
    /\ LeaseExpired
    /\ RecovererAt(r, "idle", Recovery)
    /\ UNCHANGED <<job, staged, audit, crashes>> /\ RecovererUnchanged

RequeueStaleJob(r) ==
    /\ RecovererAt(r, "requeue", "idle")
    /\ job' = RequeuedForRetry(job)
    /\ UNCHANGED <<staged, audit, crashes>> /\ RecovererUnchanged

\* The staged file goes before the failure is committed.
RemoveStaleFile(r) ==
    /\ RecovererAt(r, "expire", "expired")
    /\ staged' = staged \ {job.id}
    /\ UNCHANGED <<job, audit, crashes>> /\ RecovererUnchanged

FailStaleJob(r) ==
    /\ RecovererAt(r, "expired", "idle")
    /\ job' = [Released(job) EXCEPT !.status = "failed"]
    /\ UNCHANGED <<staged, audit, crashes>> /\ RecovererUnchanged

FinalizeStaleCancellation(r) ==
    /\ RecovererAt(r, "finalize", AfterFinalize)
    /\ Finalize
    /\ UNCHANGED <<staged, crashes>> /\ RecovererUnchanged

RemoveCancelledFile(r) ==
    /\ RecovererAt(r, "cleanup", "idle")
    /\ staged' = staged \ {job.id}
    /\ UNCHANGED <<job, audit, crashes>> /\ RecovererUnchanged

RecovererCrash(r) ==
    /\ rpc[r] # "idle" /\ crashes < MaxCrashes
    /\ rpc' = [rpc EXCEPT ![r] = "idle"]
    /\ crashes' = crashes + 1
    /\ UNCHANGED <<job, staged, audit>> /\ RecovererUnchanged

RecovererStep(r) ==
    \/ ScanStaleJob(r) \/ RequeueStaleJob(r) \/ RemoveStaleFile(r)
    \/ FailStaleJob(r) \/ FinalizeStaleCancellation(r) \/ RemoveCancelledFile(r)

-----------------------------------------------------------------------------
(* Cancellation requests.  In the other statuses cancel changes nothing.   *)

CancellerAt(c, from, to) == cpc[c] = from /\ cpc' = [cpc EXCEPT ![c] = to]

CancellerUnchanged == UNCHANGED <<commits, broker, wpc, upc, spc, rpc, crashes>>

CancelQueued(c) ==
    /\ job.status = "queued"
    /\ CancellerAt(c, "idle", "cleanup")
    /\ job' = Cancelled(job)
    /\ audit' = [requested |-> Recorded(audit.requested),
                 cancelled |-> Recorded(audit.cancelled)]
    /\ UNCHANGED staged /\ CancellerUnchanged

\* The worker keeps its lease until it observes the request.
CancelProcessing(c) ==
    /\ job.status = "processing"
    /\ cpc[c] = "idle"
    /\ job' = [job EXCEPT !.status = "cancel_requested"]
    /\ audit' = [audit EXCEPT !.requested = Recorded(@)]
    /\ UNCHANGED <<staged, cpc>> /\ CancellerUnchanged

RemoveWithdrawnFile(c) ==
    /\ CancellerAt(c, "cleanup", "idle")
    /\ staged' = staged \ {job.id}
    /\ UNCHANGED <<job, audit>> /\ CancellerUnchanged

\* The API process dies, or the removal fails and is only logged.
RemovalLost(c) ==
    /\ CancellerAt(c, "cleanup", "idle")
    /\ UNCHANGED <<job, audit, staged>> /\ CancellerUnchanged

-----------------------------------------------------------------------------
(* Time and transport.                                                     *)

Executing == {"claimed", "analysing", "marking", "retryable", "permanent", "persisted"}

\* Nothing renews a lease.  Where LeaseMayLapse is FALSE every analysis ends
\* within job_processing_lease_seconds, so only a dead worker's lease expires.
LeaseExpires ==
    /\ job.lease = "live"
    /\ \/ LeaseMayLapse
       \/ \A w \in Workers : w = job.worker => wpc[w] \notin Executing
    /\ job' = [job EXCEPT !.lease = "expired"]
    /\ UNCHANGED <<staged, commits, audit, broker, wpc, upc, spc, rpc, cpc, crashes>>

RetryFallsDue ==
    /\ job.retry = "waiting"
    /\ job' = [job EXCEPT !.retry = "due"]
    /\ UNCHANGED <<staged, commits, audit, broker, wpc, upc, spc, rpc, cpc, crashes>>

\* Redis redelivers a message it believes lost.
DuplicateMessage ==
    /\ broker \in 1 .. BrokerBound - 1
    /\ broker' = broker + 1
    /\ UNCHANGED <<job, staged, commits, audit, wpc, upc, spc, rpc, cpc, crashes>>

Next ==
    \/ \E u \in Uploads : UploadStep(u) \/ UploadCrash(u)
    \/ \E s \in SyncCalls : SyncStep(s) \/ SyncAbort(s)
    \/ \E w \in Workers : WorkerStep(w) \/ WorkerCrash(w)
    \/ \E r \in Recoverers : RecovererStep(r) \/ RecovererCrash(r)
    \/ \E c \in Cancellers : CancelQueued(c) \/ CancelProcessing(c)
                             \/ RemoveWithdrawnFile(c) \/ RemovalLost(c)
    \/ LeaseExpires \/ RetryFallsDue \/ DuplicateMessage

Spec == Init /\ [][Next]_vars

\* Processes that have begun keep running, recovery is run again and again,
\* and time passes.  Nobody is obliged to upload, cancel or crash.
Fairness ==
    /\ \A u \in Uploads : WF_vars(UploadStep(u) /\ upc[u] # "new")
    /\ \A s \in SyncCalls : WF_vars(SyncStep(s) /\ spc[s] # "new")
    /\ \A w \in Workers : WF_vars(WorkerStep(w))
    /\ \A r \in Recoverers : WF_vars(RecovererStep(r))
    /\ WF_vars(LeaseExpires)
    /\ WF_vars(RetryFallsDue)

FairSpec == Spec /\ Fairness

-----------------------------------------------------------------------------
(* Properties.                                                             *)

\* Every variable has its type.
TypeOK ==
    /\ job \in JobRow
    /\ staged \subseteq JobIds \union {NoOne}
    /\ commits \in Nat
    /\ audit \in [requested : Nat, cancelled : Nat]
    /\ broker \in Nat
    /\ wpc \in [Workers -> WorkerPC]
    /\ upc \in [Uploads -> UploadPC]
    /\ spc \in [SyncCalls -> SyncPC]
    /\ rpc \in [Recoverers -> RecovererPC]
    /\ cpc \in [Cancellers -> CancellerPC]
    /\ crashes \in Nat

(***************************************************************************)
(* What holds whatever the deployment does: leases may lapse, brokers may  *)
(* fail, uploads, recoveries and requests may overlap.                     *)
(***************************************************************************)

\* A row is never reported completed unless an analysis transaction of its own
\* committed: stale writers may overwrite the status, but only the code that
\* persisted results writes "completed" (_persist_analysis, process_job).
CompletedHasResults == job.status = "completed" => commits > 0

\* The audit trail of a cancellation (_add_audit_event): a row that says
\* cancel_requested or cancelled has exactly one event for each step it took,
\* even when stale writers revive the job and it is cancelled again.
CancellationAudited ==
    /\ job.status \in {"cancel_requested", "cancelled"} => audit.requested = 1
    /\ job.status = "cancelled" => audit.cancelled = 1
    /\ audit.requested <= 1 /\ audit.cancelled <= audit.requested

\* The conditional completion lets each claim, and each synchronous request,
\* publish its results at most once.
CommitsWithinClaims == commits <= job.attempts + Cardinality(SyncCalls)

(***************************************************************************)
(* What holds when analyses end within their lease and the file is         *)
(* uploaded once, analysed in the background only and recovered by one     *)
(* process at a time.                                                      *)
(***************************************************************************)

\* Claiming, recovery and late failure writes never put two workers on the
\* job, although no step compares worker_id.
OneExecution ==
    \A v, w \in Workers : {wpc[v], wpc[w]} \subseteq Executing => v = w

\* The job's results are published once, whatever crashes and retries.
ResultsCommittedOnce == commits <= 1

\* A queued job nobody asked to cancel still has its upload, so that its next
\* attempt does not end in staging_file_missing.
UploadKept == job.status = "queued" /\ audit.requested = 0 => job.id \in staged

\* The final update is conditional, so a cancellation that won is never
\* overwritten as completed, not even by the unconditional confirmation.
CancellationNotCompleted ==
    [][job.status \in {"cancel_requested", "cancelled"} => job'.status # "completed"]_vars

\* The job seen from outside: who runs its analysis, what was published.
Contract == INSTANCE JobContract
            WITH running <- {w \in Workers : wpc[w] \in Executing},
                 published <- commits

\* The lease, the conditional claim and completion and the recovery of stale
\* jobs together give the exclusive, publish-once job that JobContract states.
ContractKept == Contract!Spec

\* With recovery run again and again, every submitted job ends.
JobSettles ==
    (job.status # "absent") ~> (job.status \in {"completed", "failed", "cancelled"})

\* Somebody is about to write queued over the row, whatever it says by then: the
\* handler of an attempt that is to be repeated, or a recovery that has seen the
\* job processing.
RevivalPending ==
    \/ \E w \in Workers : wpc[w] = "retryable"
    \/ \E r \in Recoverers : rpc[r] = "requeue"

\* An accepted cancellation is carried out, by the worker that observes it or,
\* when that one has died, by recovery (process_job, recover_stale_jobs): the job
\* is cancelled, or its attempt fails for good, unless somebody had decided before
\* to write queued.  What may come of that is CancelledPublishesNothing.
CancellationCarriedOut ==
    (job.status = "cancel_requested")
        ~> (job.status \in {"cancelled", "failed"} \/ RevivalPending)

\* docs/phase5b3b2-job-cancellation.md:21-22, "The worker then rolls back the
\* current analysis transaction, marks the job `cancelled`": once a request to
\* cancel the job is accepted, no analysis of it publishes results any more
\* (process_job, recover_stale_jobs).
CancelledPublishesNothing == [][audit.requested = 1 => commits' = commits]_vars

=============================================================================
