------------------------ MODULE AnalysisJobs_proofs ------------------------
(***************************************************************************)
(* Proofs about AnalysisJobs, for any sets of processes.  First the type   *)
(* invariant and the invariants that need no assumption on the deployment, *)
(* then what a serialised deployment promises: exclusive execution, one    *)
(* publication, the upload kept for the next attempt, and JobContract.     *)
(***************************************************************************)
EXTENDS AnalysisJobs, FiniteSetTheorems, TLAPS

\* What the transactions leave of the row they write.
LEMMA RowWrites ==
  ASSUME NEW row \in JobRow
  PROVE  /\ Released(row) \in JobRow
         /\ RequeuedForRetry(row) \in JobRow
         /\ Cancelled(row) \in JobRow
         /\ Completed(row) \in JobRow
         /\ \A st \in Status : [row EXCEPT !.status = st] \in JobRow
                            /\ [Released(row) EXCEPT !.status = st] \in JobRow
  BY DEF JobRow, Status, Released, RequeuedForRetry, Cancelled, Completed

\* What they leave in its columns.
LEMMA RowAfter ==
  ASSUME NEW row \in JobRow
  PROVE  /\ Released(row).status = row.status
         /\ Released(row).lease = "none"
         /\ Released(row).attempts = row.attempts
         /\ RequeuedForRetry(row).status = "queued"
         /\ RequeuedForRetry(row).lease = "none"
         /\ RequeuedForRetry(row).attempts = row.attempts
         /\ Cancelled(row).status = "cancelled"
         /\ Cancelled(row).lease = "none"
         /\ Cancelled(row).attempts = row.attempts
         /\ Completed(row).status = "completed"
         /\ Completed(row).lease = "none"
         /\ Completed(row).attempts = row.attempts
         /\ \A st \in Status :
              /\ [row EXCEPT !.status = st].status = st
              /\ [row EXCEPT !.status = st].lease = row.lease
              /\ [row EXCEPT !.status = st].worker = row.worker
              /\ [row EXCEPT !.status = st].attempts = row.attempts
              /\ [Released(row) EXCEPT !.status = st].status = st
              /\ [Released(row) EXCEPT !.status = st].lease = "none"
              /\ [Released(row) EXCEPT !.status = st].attempts = row.attempts
  BY DEF JobRow, Status, Released, RequeuedForRetry, Cancelled, Completed

\* A write of several columns is a sequence of writes of one.
LEMMA RowColumns ==
  ASSUME NEW row \in JobRow
  PROVE  /\ \A st \in Status : [row EXCEPT !.status = st] \in JobRow
         /\ \A i \in JobIds : [row EXCEPT !.id = i] \in JobRow
         /\ \A w \in Workers : [row EXCEPT !.worker = w] \in JobRow
         /\ [row EXCEPT !.lease = "live"] \in JobRow
         /\ \A n \in Nat : [row EXCEPT !.attempts = n] \in JobRow
         /\ row.attempts \in Nat
  BY DEF JobRow

LEMMA RowInserted ==
  ASSUME NEW row \in JobRow, NEW st \in Status, NEW i \in JobIds
  PROVE  [row EXCEPT !.status = st, !.id = i] \in JobRow
<1> DEFINE named == [row EXCEPT !.status = st]
<1>1. named \in JobRow
  BY RowColumns
<1> HIDE DEF named
<1>2. [named EXCEPT !.id = i] \in JobRow
  BY <1>1, RowColumns
<1> QED BY <1>2 DEF named

LEMMA RowClaimed ==
  ASSUME NEW row \in JobRow, NEW w \in Workers
  PROVE  [row EXCEPT !.status = "processing", !.worker = w, !.lease = "live",
                     !.attempts = @ + 1] \in JobRow
<1> DEFINE started == [row EXCEPT !.status = "processing"]
           owned   == [started EXCEPT !.worker = w]
           leased  == [owned EXCEPT !.lease = "live"]
<1>1. started \in JobRow
  BY RowColumns DEF Status
<1> HIDE DEF started
<1>2. owned \in JobRow
  BY <1>1, RowColumns
<1> HIDE DEF owned
<1>3. leased \in JobRow
  BY <1>2, RowColumns
<1> HIDE DEF leased
<1>4. row.attempts \in Nat
  BY RowColumns
<1>5. row.attempts + 1 \in Nat
  BY <1>4
<1>6. [leased EXCEPT !.attempts = row.attempts + 1] \in JobRow
  BY <1>3, <1>5, RowColumns
<1> QED BY <1>6 DEF leased, owned, started

\* Every variable keeps its type (the whole of the row, the staging directory
\* and the processes' program counters).
THEOREM TypeCorrect == Spec => []TypeOK
<1>1. Init => TypeOK
  BY DEF Init, TypeOK, JobRow, Status, WorkerPC, UploadPC, SyncPC, RecovererPC,
         CancellerPC
<1>2. TypeOK /\ [Next]_vars => TypeOK'
  <2> SUFFICES ASSUME TypeOK, [Next]_vars
               PROVE  TypeOK'
    OBVIOUS
  <2>r. /\ job \in JobRow
        /\ Released(job) \in JobRow
        /\ RequeuedForRetry(job) \in JobRow
        /\ Cancelled(job) \in JobRow
        /\ Completed(job) \in JobRow
        /\ \A st \in Status : [job EXCEPT !.status = st] \in JobRow
                           /\ [Released(job) EXCEPT !.status = st] \in JobRow
    BY RowWrites DEF TypeOK
  <2>id. job.id \in JobIds \union {NoOne}
    BY DEF TypeOK, JobRow
  <2> USE <2>r, <2>id DEF TypeOK
  <2>1. ASSUME NEW u \in Uploads, UploadStep(u) \/ UploadCrash(u)
        PROVE  TypeOK'
    <3> USE DEF UploadAt, UploadUnchanged, UploadPC
    <3>1. CASE StageFile(u) \/ ReuseJob(u) \/ MoveFile(u) \/ LoseInsertRace(u)
               \/ RemoveUnpublishedFile(u)
      BY <3>1 DEF StageFile, ReuseJob, MoveFile, LoseInsertRace,
                  RemoveUnpublishedFile, JobIds
    <3>2. CASE FindFailedJob(u) \/ FindNoReusableJob(u) \/ UploadCrash(u)
      BY <3>2 DEF FindFailedJob, FindNoReusableJob, UploadCrash
    <3>3. CASE RequeueFailedJob(u) \/ MarkPublishFailed(u)
      BY <3>3 DEF RequeueFailedJob, MarkPublishFailed, Status
    <3>4. CASE InsertJob(u)
      <4>1. job' \in JobRow
        BY <3>4, RowInserted DEF InsertJob, JobIds, Status
      <4> QED BY <3>4, <4>1 DEF InsertJob
    <3>5. CASE Dispatch(u) \/ PublishFails(u)
      BY <3>5 DEF Dispatch, PublishFails
    <3> QED BY <2>1, <3>1, <3>2, <3>3, <3>4, <3>5 DEF UploadStep
  <2>2. ASSUME NEW s \in SyncCalls, SyncStep(s) \/ SyncAbort(s)
        PROVE  TypeOK'
    <3> USE DEF SyncAt, SyncUnchanged, SyncPC
    <3>1. CASE InsertPlaceholder(s)
      <4>1. job' \in JobRow
        BY <3>1, RowInserted DEF InsertPlaceholder, JobIds, Status
      <4> QED BY <3>1, <4>1 DEF InsertPlaceholder
    <3>2. CASE RetryFailedInline(s) \/ SyncMarkFailed(s)
      BY <3>2 DEF RetryFailedInline, SyncMarkFailed, Status
    <3>3. CASE FindFailedInline(s) \/ SyncTurnedAway(s) \/ SyncPersistFails(s)
               \/ SyncAbort(s)
      BY <3>3 DEF FindFailedInline, SyncTurnedAway, SyncPersistFails, SyncAbort
    <3>4. CASE SyncPersist(s)
      BY <3>4 DEF SyncPersist
    <3> QED BY <2>2, <3>1, <3>2, <3>3, <3>4 DEF SyncStep
  <2>3. ASSUME NEW w \in Workers, WorkerStep(w) \/ WorkerCrash(w)
        PROVE  TypeOK'
    <3> USE DEF WorkerAt, WorkerUnchanged, WorkerPC
    <3>1. CASE PickQueuedJob(w) \/ DeliverMessage(w) \/ ReadStatus(w)
               \/ ClaimFails(w) \/ ObserveCancellation(w) \/ WorkerCrash(w)
      BY <3>1 DEF PickQueuedJob, DeliverMessage, ReadStatus, ClaimFails,
                  ObserveCancellation, WorkerCrash
    <3>2. CASE ClaimJob(w)
      <4>1. job' \in JobRow
        BY <3>2, RowClaimed DEF ClaimJob, ClaimedBy
      <4> QED BY <3>2, <4>1 DEF ClaimJob, ClaimedBy
    <3>3. CASE OpenStagedFile(w) \/ AnalysisRaises(w) \/ PersistRefused(w)
               \/ RemoveStagedFile(w) \/ RepublishRetry(w)
      BY <3>3 DEF OpenStagedFile, AnalysisRaises, PersistRefused,
                  RemoveStagedFile, RepublishRetry
    <3>4. CASE MarkPersistenceFailed(w) \/ FailJob(w)
      BY <3>4 DEF MarkPersistenceFailed, FailJob, Status
    <3>5. CASE PersistResults(w) \/ ConfirmCompletion(w) \/ ScheduleRetry(w)
      BY <3>5 DEF PersistResults, ConfirmCompletion, ScheduleRetry, AfterRetry
    <3>6. CASE FinalizeCancellation(w)
      BY <3>6 DEF FinalizeCancellation, Finalize, AfterFinalize, Recorded
    <3> QED BY <2>3, <3>1, <3>2, <3>3, <3>4, <3>5, <3>6 DEF WorkerStep
  <2>4. ASSUME NEW r \in Recoverers, RecovererStep(r) \/ RecovererCrash(r)
        PROVE  TypeOK'
    <3> USE DEF RecovererAt, RecovererUnchanged, RecovererPC
    <3>1. CASE ScanStaleJob(r) \/ RemoveStaleFile(r) \/ RemoveCancelledFile(r)
               \/ RecovererCrash(r)
      BY <3>1 DEF ScanStaleJob, Recovery, RemoveStaleFile, RemoveCancelledFile,
                  RecovererCrash
    <3>2. CASE RequeueStaleJob(r) \/ FailStaleJob(r)
      BY <3>2 DEF RequeueStaleJob, FailStaleJob, Status
    <3>3. CASE FinalizeStaleCancellation(r)
      BY <3>3 DEF FinalizeStaleCancellation, Finalize, AfterFinalize, Recorded
    <3> QED BY <2>4, <3>1, <3>2, <3>3 DEF RecovererStep
  <2>5. ASSUME NEW c \in Cancellers,
               CancelQueued(c) \/ CancelProcessing(c)
               \/ RemoveWithdrawnFile(c) \/ RemovalLost(c)
        PROVE  TypeOK'
    <3> USE DEF CancellerAt, CancellerUnchanged, CancellerPC
    <3> QED BY <2>5 DEF CancelQueued, CancelProcessing, RemoveWithdrawnFile,
                        RemovalLost, Recorded, Status
  <2>6. CASE LeaseExpires \/ RetryFallsDue
    <3>1. job' \in JobRow
      BY <2>6 DEF LeaseExpires, RetryFallsDue, JobRow
    <3> QED BY <2>6, <3>1 DEF LeaseExpires, RetryFallsDue
  <2>7. CASE DuplicateMessage
    BY <2>7 DEF DuplicateMessage
  <2>8. CASE UNCHANGED vars
    BY <2>8 DEF vars
  <2> QED BY <2>1, <2>2, <2>3, <2>4, <2>5, <2>6, <2>7, <2>8 DEF Next
<1> QED BY <1>1, <1>2, PTL DEF Spec


(***************************************************************************)
(* What a step of each kind of process may write of the row, its results   *)
(* and its audit events.                                                   *)
(***************************************************************************)

LEMMA UploadWrites ==
  ASSUME NEW u \in Uploads, job \in JobRow, UploadStep(u) \/ UploadCrash(u)
  PROVE  /\ UNCHANGED <<commits, audit, wpc, spc, rpc>>
         /\ \/ job' = job
            \/ job'.status \in {"queued", "failed"}
<1>1. CASE InsertJob(u)
  <2>1. [job EXCEPT !.status = "queued", !.id = u].status = "queued"
    BY DEF JobRow
  <2> QED BY <1>1, <2>1 DEF InsertJob, UploadUnchanged
<1>2. CASE RequeueFailedJob(u) \/ MarkPublishFailed(u)
  BY <1>2 DEF RequeueFailedJob, MarkPublishFailed, UploadUnchanged, JobRow
<1>3. CASE StageFile(u) \/ ReuseJob(u) \/ FindFailedJob(u) \/ FindNoReusableJob(u)
           \/ MoveFile(u) \/ LoseInsertRace(u) \/ Dispatch(u) \/ PublishFails(u)
           \/ RemoveUnpublishedFile(u) \/ UploadCrash(u)
  BY <1>3 DEF StageFile, ReuseJob, FindFailedJob, FindNoReusableJob, MoveFile,
              LoseInsertRace, Dispatch, PublishFails, RemoveUnpublishedFile,
              UploadCrash, UploadUnchanged
<1> QED BY <1>1, <1>2, <1>3 DEF UploadStep

LEMMA SyncWrites ==
  ASSUME NEW s \in SyncCalls, job \in JobRow, SyncStep(s) \/ SyncAbort(s)
  PROVE  /\ UNCHANGED <<audit, wpc, upc, rpc>>
         /\ \/ UNCHANGED <<job, commits>>
            \/ job'.status \in {"processing", "failed"} /\ commits' = commits
            \/ job'.status = "completed" /\ commits' = commits + 1
<1>1. CASE InsertPlaceholder(s)
  <2>1. [job EXCEPT !.status = "processing", !.id = s].status = "processing"
    BY DEF JobRow
  <2> QED BY <1>1, <2>1 DEF InsertPlaceholder, SyncUnchanged
<1>2. CASE RetryFailedInline(s) \/ SyncMarkFailed(s)
  BY <1>2 DEF RetryFailedInline, SyncMarkFailed, SyncUnchanged, JobRow
<1>3. CASE SyncPersist(s)
  BY <1>3, RowAfter DEF SyncPersist, SyncUnchanged
<1>4. CASE FindFailedInline(s) \/ SyncTurnedAway(s) \/ SyncPersistFails(s)
           \/ SyncAbort(s)
  BY <1>4 DEF FindFailedInline, SyncTurnedAway, SyncPersistFails, SyncAbort, SyncUnchanged
<1> QED BY <1>1, <1>2, <1>3, <1>4 DEF SyncStep

\* A cancellation that a worker or a recoverer finalizes.
LEMMA FinalizeWrites ==
  ASSUME job \in JobRow, Finalize
  PROVE  \/ UNCHANGED <<job, audit>>
         \/ /\ job.status = "cancel_requested"
            /\ job'.status = "cancelled" /\ job'.lease = "none"
            /\ audit' = [audit EXCEPT !.cancelled = Recorded(@)]
BY RowAfter DEF Finalize

LEMMA WorkerWrites ==
  ASSUME NEW w \in Workers, job \in JobRow, wpc \in [Workers -> WorkerPC],
         WorkerStep(w) \/ WorkerCrash(w)
  PROVE  /\ UNCHANGED <<upc, spc, rpc>>
         /\ \/ /\ commits' = commits
               /\ \A v \in Workers : wpc'[v] = "persisted" => wpc[v] = "persisted"
               /\ \/ UNCHANGED <<job, audit>>
                  \/ UNCHANGED audit /\ job'.status \in {"queued", "processing", "failed"}
                  \/ UNCHANGED audit /\ wpc[w] = "persisted" /\ job'.status = "completed"
                  \/ Finalize
            \/ /\ job.status = "processing" /\ job'.status = "completed"
               /\ commits' = commits + 1 /\ UNCHANGED audit
<1> USE DEF WorkerAt, WorkerUnchanged, WorkerPC
<1>1. CASE ClaimJob(w)
  <2>1. [job EXCEPT !.status = "processing", !.worker = w, !.lease = "live",
                    !.attempts = @ + 1].status = "processing"
    BY DEF JobRow
  <2> QED BY <1>1, <2>1 DEF ClaimJob, ClaimedBy
<1>2. CASE MarkPersistenceFailed(w) \/ FailJob(w) \/ ScheduleRetry(w)
  <2>1. job'.status \in {"queued", "failed"}
    BY <1>2 DEF MarkPersistenceFailed, FailJob, ScheduleRetry, RequeuedForRetry,
                Released, JobRow
  <2> QED BY <1>2, <2>1 DEF MarkPersistenceFailed, FailJob, ScheduleRetry, AfterRetry
<1>3. CASE PersistResults(w) \/ ConfirmCompletion(w)
  BY <1>3, RowAfter DEF PersistResults, ConfirmCompletion, Publishable
<1>4. CASE FinalizeCancellation(w)
  BY <1>4 DEF FinalizeCancellation, AfterFinalize
<1>5. CASE PickQueuedJob(w) \/ DeliverMessage(w) \/ ReadStatus(w) \/ ClaimFails(w)
           \/ ObserveCancellation(w) \/ OpenStagedFile(w) \/ AnalysisRaises(w)
           \/ PersistRefused(w) \/ RepublishRetry(w) \/ RemoveStagedFile(w)
           \/ WorkerCrash(w)
  BY <1>5 DEF PickQueuedJob, DeliverMessage, ReadStatus, ClaimFails,
              ObserveCancellation, OpenStagedFile, AnalysisRaises, PersistRefused,
              RepublishRetry, RemoveStagedFile, WorkerCrash
<1> QED BY <1>1, <1>2, <1>3, <1>4, <1>5 DEF WorkerStep

LEMMA RecovererWrites ==
  ASSUME NEW r \in Recoverers, job \in JobRow, RecovererStep(r) \/ RecovererCrash(r)
  PROVE  /\ UNCHANGED <<commits, wpc, upc, spc>>
         /\ \/ UNCHANGED <<job, audit>>
            \/ UNCHANGED audit /\ job'.status \in {"queued", "failed"}
            \/ Finalize
<1>1. CASE RequeueStaleJob(r) \/ FailStaleJob(r)
  BY <1>1 DEF RequeueStaleJob, FailStaleJob, RequeuedForRetry, Released,
              RecovererUnchanged, JobRow
<1>2. CASE FinalizeStaleCancellation(r)
  BY <1>2 DEF FinalizeStaleCancellation, RecovererUnchanged
<1>3. CASE ScanStaleJob(r) \/ RemoveStaleFile(r) \/ RemoveCancelledFile(r)
           \/ RecovererCrash(r)
  BY <1>3 DEF ScanStaleJob, RemoveStaleFile, RemoveCancelledFile, RecovererCrash,
              RecovererUnchanged
<1> QED BY <1>1, <1>2, <1>3 DEF RecovererStep

LEMMA CancellerWrites ==
  ASSUME NEW c \in Cancellers, job \in JobRow,
         CancelQueued(c) \/ CancelProcessing(c) \/ RemoveWithdrawnFile(c)
         \/ RemovalLost(c)
  PROVE  /\ UNCHANGED <<commits, wpc, upc, spc, rpc>>
         /\ \/ UNCHANGED <<job, audit>>
            \/ /\ job.status = "queued" /\ job'.status = "cancelled"
               /\ audit' = [requested |-> Recorded(audit.requested),
                            cancelled |-> Recorded(audit.cancelled)]
            \/ /\ job.status = "processing" /\ job'.status = "cancel_requested"
               /\ audit' = [audit EXCEPT !.requested = Recorded(@)]
BY DEF CancelQueued, CancelProcessing, RemoveWithdrawnFile, RemovalLost, Cancelled,
       Released, CancellerUnchanged, JobRow

LEMMA TimeWrites ==
  ASSUME job \in JobRow, LeaseExpires \/ RetryFallsDue \/ DuplicateMessage
  PROVE  /\ UNCHANGED <<commits, audit, wpc, upc, spc, rpc>>
         /\ job'.status = job.status
BY DEF LeaseExpires, RetryFallsDue, DuplicateMessage, JobRow

-----------------------------------------------------------------------------
\* Only a process that has committed results writes "completed": the row and
\* every worker about to confirm its completion have a commit behind them.
PublishedFirst ==
    /\ TypeOK
    /\ CompletedHasResults
    /\ \A w \in Workers : wpc[w] = "persisted" => commits > 0

\* A row is completed only after its results were committed, whatever stale
\* writes, lapsed leases, crashes and duplicate messages do to it.
THEOREM CompletionPublished == Spec => []CompletedHasResults
<1>1. Init => PublishedFirst
  <2> SUFFICES ASSUME Init PROVE PublishedFirst
    OBVIOUS
  <2>1. TypeOK
    BY DEF Init, TypeOK, JobRow, Status, WorkerPC, UploadPC, SyncPC, RecovererPC,
           CancellerPC
  <2> QED BY <2>1 DEF Init, PublishedFirst, CompletedHasResults
<1>2. PublishedFirst /\ TypeOK' /\ [Next]_vars => PublishedFirst'
  <2> SUFFICES ASSUME PublishedFirst, TypeOK', [Next]_vars
               PROVE  PublishedFirst'
    OBVIOUS
  <2>t. job \in JobRow /\ commits \in Nat /\ wpc \in [Workers -> WorkerPC]
    BY DEF PublishedFirst, TypeOK
  <2>p. /\ job.status = "completed" => commits > 0
        /\ \A w \in Workers : wpc[w] = "persisted" => commits > 0
    BY DEF PublishedFirst, CompletedHasResults
  <2>1. ASSUME NEW u \in Uploads, UploadStep(u) \/ UploadCrash(u)
        PROVE  PublishedFirst'
    BY <2>t, <2>p, <2>1, UploadWrites DEF PublishedFirst, CompletedHasResults
  <2>2. ASSUME NEW s \in SyncCalls, SyncStep(s) \/ SyncAbort(s)
        PROVE  PublishedFirst'
    BY <2>t, <2>p, <2>2, SyncWrites DEF PublishedFirst, CompletedHasResults
  <2>3. ASSUME NEW w \in Workers, WorkerStep(w) \/ WorkerCrash(w)
        PROVE  PublishedFirst'
    <3>1. Finalize => job' = job \/ job'.status = "cancelled"
      BY <2>t, FinalizeWrites
    <3> QED BY <2>t, <2>p, <2>3, <3>1, WorkerWrites
            DEF PublishedFirst, CompletedHasResults
  <2>4. ASSUME NEW r \in Recoverers, RecovererStep(r) \/ RecovererCrash(r)
        PROVE  PublishedFirst'
    BY <2>t, <2>p, <2>4, RecovererWrites, FinalizeWrites
       DEF PublishedFirst, CompletedHasResults
  <2>5. ASSUME NEW c \in Cancellers,
               CancelQueued(c) \/ CancelProcessing(c)
               \/ RemoveWithdrawnFile(c) \/ RemovalLost(c)
        PROVE  PublishedFirst'
    BY <2>t, <2>p, <2>5, CancellerWrites DEF PublishedFirst, CompletedHasResults
  <2>6. CASE LeaseExpires \/ RetryFallsDue \/ DuplicateMessage
    BY <2>t, <2>p, <2>6, TimeWrites DEF PublishedFirst, CompletedHasResults
  <2>7. CASE UNCHANGED vars
    BY <2>p, <2>7 DEF vars, PublishedFirst, CompletedHasResults
  <2> QED BY <2>1, <2>2, <2>3, <2>4, <2>5, <2>6, <2>7 DEF Next
<1> QED BY <1>1, <1>2, TypeCorrect, PTL DEF Spec, PublishedFirst

\* A job that was asked to stop has one audit event for the request, and a
\* cancelled one has one for the cancellation, however often it is revived.
THEOREM CancellationsRecorded == Spec => []CancellationAudited
<1>1. Init => CancellationAudited
  BY DEF Init, CancellationAudited
<1>2. CancellationAudited /\ TypeOK /\ [Next]_vars => CancellationAudited'
  <2> SUFFICES ASSUME CancellationAudited, TypeOK, [Next]_vars
               PROVE  CancellationAudited'
    OBVIOUS
  <2>t. /\ job \in JobRow /\ audit \in [requested : Nat, cancelled : Nat]
        /\ wpc \in [Workers -> WorkerPC]
    BY DEF TypeOK
  <2>s. ASSUME audit' = audit, job' = job \/ job'.status = job.status
                               \/ job'.status \notin {"cancel_requested", "cancelled"}
        PROVE  CancellationAudited'
    BY <2>s DEF CancellationAudited
  <2>f. ASSUME Finalize
        PROVE  CancellationAudited'
    BY <2>t, <2>f, FinalizeWrites DEF CancellationAudited, Recorded
  <2>1. ASSUME NEW u \in Uploads, UploadStep(u) \/ UploadCrash(u)
        PROVE  CancellationAudited'
    BY <2>t, <2>s, <2>1, UploadWrites
  <2>2. ASSUME NEW s \in SyncCalls, SyncStep(s) \/ SyncAbort(s)
        PROVE  CancellationAudited'
    BY <2>t, <2>s, <2>2, SyncWrites
  <2>3. ASSUME NEW w \in Workers, WorkerStep(w) \/ WorkerCrash(w)
        PROVE  CancellationAudited'
    BY <2>t, <2>s, <2>f, <2>3, WorkerWrites
  <2>4. ASSUME NEW r \in Recoverers, RecovererStep(r) \/ RecovererCrash(r)
        PROVE  CancellationAudited'
    BY <2>t, <2>s, <2>f, <2>4, RecovererWrites
  <2>5. ASSUME NEW c \in Cancellers,
               CancelQueued(c) \/ CancelProcessing(c)
               \/ RemoveWithdrawnFile(c) \/ RemovalLost(c)
        PROVE  CancellationAudited'
    BY <2>t, <2>s, <2>5, CancellerWrites DEF CancellationAudited, Recorded
  <2>6. CASE LeaseExpires \/ RetryFallsDue \/ DuplicateMessage
    BY <2>t, <2>s, <2>6, TimeWrites
  <2>7. CASE UNCHANGED vars
    BY <2>s, <2>7 DEF vars
  <2> QED BY <2>1, <2>2, <2>3, <2>4, <2>5, <2>6, <2>7 DEF Next
<1> QED BY <1>1, <1>2, TypeCorrect, PTL DEF Spec

-----------------------------------------------------------------------------
(***************************************************************************)
(* Each claim of the row pays for one publication.  A worker's claim counts *)
(* an attempt; a synchronous call takes the row once, and then has begun.  *)
(* A row that says "processing" stands for a claim not yet used up, since  *)
(* the publishing transaction asks for that status and takes it away.      *)
(***************************************************************************)
Begun == {s \in SyncCalls : spc[s] \notin {"new", "retry"}}

OpenClaim(row) == IF row.status = "processing" THEN 1 ELSE 0

ClaimsInv == commits + OpenClaim(job) <= job.attempts + Cardinality(Begun)

\* A step that neither claims the row nor publishes.
ClaimsNothing ==
    /\ commits' = commits
    /\ job'.attempts = job.attempts
    /\ job'.status = "processing" => job.status = "processing"

LEMMA UploadClaimsNothing ==
  ASSUME NEW u \in Uploads, job \in JobRow, UploadStep(u) \/ UploadCrash(u)
  PROVE  ClaimsNothing /\ spc' = spc
<1> USE DEF ClaimsNothing, UploadUnchanged
<1>1. CASE InsertJob(u)
  BY <1>1 DEF InsertJob, JobRow
<1>2. CASE RequeueFailedJob(u) \/ MarkPublishFailed(u)
  BY <1>2 DEF RequeueFailedJob, MarkPublishFailed, JobRow
<1>3. CASE StageFile(u) \/ ReuseJob(u) \/ FindFailedJob(u) \/ FindNoReusableJob(u)
           \/ MoveFile(u) \/ LoseInsertRace(u) \/ Dispatch(u) \/ PublishFails(u)
           \/ RemoveUnpublishedFile(u) \/ UploadCrash(u)
  BY <1>3 DEF StageFile, ReuseJob, FindFailedJob, FindNoReusableJob, MoveFile,
              LoseInsertRace, Dispatch, PublishFails, RemoveUnpublishedFile, UploadCrash
<1> QED BY <1>1, <1>2, <1>3 DEF UploadStep

\* A synchronous call takes the row at most once, when it begins, and
\* publishes at most once, from a row that says "processing".
LEMMA SyncClaims ==
  ASSUME NEW s \in SyncCalls, job \in JobRow, spc \in [SyncCalls -> SyncPC],
         SyncStep(s) \/ SyncAbort(s)
  PROVE  /\ job'.attempts = job.attempts
         /\ \/ Begun' = Begun /\ ClaimsNothing
            \/ /\ s \notin Begun /\ Begun' = Begun \union {s}
               /\ commits' = commits
            \/ /\ Begun' = Begun /\ commits' = commits + 1
               /\ job.status = "processing" /\ job'.status # "processing"
<1> USE DEF SyncAt, SyncUnchanged, Begun, ClaimsNothing
<1>1. CASE InsertPlaceholder(s)
  BY <1>1 DEF InsertPlaceholder, JobRow
<1>2. CASE FindFailedInline(s)
  BY <1>2 DEF FindFailedInline
<1>3. CASE RetryFailedInline(s)
  BY <1>3 DEF RetryFailedInline, JobRow
<1>4. CASE SyncTurnedAway(s)
  BY <1>4 DEF SyncTurnedAway
<1>5. CASE SyncPersist(s)
  <2>1. Begun' = Begun
    BY <1>5 DEF SyncPersist
  <2> QED BY <1>5, <2>1, RowAfter DEF SyncPersist, Publishable
<1>6. CASE SyncPersistFails(s)
  BY <1>6 DEF SyncPersistFails
<1>7. CASE SyncMarkFailed(s)
  BY <1>7 DEF SyncMarkFailed, JobRow
<1>8. CASE SyncAbort(s)
  BY <1>8 DEF SyncAbort
<1> QED BY <1>1, <1>2, <1>3, <1>4, <1>5, <1>6, <1>7, <1>8 DEF SyncStep

\* A worker's claim finds the row queued and counts the attempt; it publishes
\* from a row that says "processing".
LEMMA WorkerClaims ==
  ASSUME NEW w \in Workers, job \in JobRow, WorkerStep(w) \/ WorkerCrash(w)
  PROVE  /\ spc' = spc
         /\ \/ ClaimsNothing
            \/ /\ commits' = commits /\ job'.attempts = job.attempts + 1
               /\ job.status = "queued"
            \/ /\ job'.attempts = job.attempts /\ commits' = commits + 1
               /\ job.status = "processing" /\ job'.status # "processing"
<1> USE DEF WorkerAt, WorkerUnchanged, ClaimsNothing
<1>1. CASE ClaimJob(w)
  BY <1>1 DEF ClaimJob, ClaimedBy, Claimable, JobRow
<1>2. CASE MarkPersistenceFailed(w) \/ FailJob(w) \/ ScheduleRetry(w)
  BY <1>2 DEF MarkPersistenceFailed, FailJob, ScheduleRetry, RequeuedForRetry,
              Released, JobRow
<1>3. CASE PersistResults(w) \/ ConfirmCompletion(w)
  BY <1>3, RowAfter DEF PersistResults, ConfirmCompletion, Publishable
<1>4. CASE FinalizeCancellation(w)
  BY <1>4, RowAfter DEF FinalizeCancellation, Finalize
<1>5. CASE PickQueuedJob(w) \/ DeliverMessage(w) \/ ReadStatus(w) \/ ClaimFails(w)
           \/ ObserveCancellation(w) \/ OpenStagedFile(w) \/ AnalysisRaises(w)
           \/ PersistRefused(w) \/ RepublishRetry(w) \/ RemoveStagedFile(w)
           \/ WorkerCrash(w)
  BY <1>5 DEF PickQueuedJob, DeliverMessage, ReadStatus, ClaimFails,
              ObserveCancellation, OpenStagedFile, AnalysisRaises, PersistRefused,
              RepublishRetry, RemoveStagedFile, WorkerCrash
<1> QED BY <1>1, <1>2, <1>3, <1>4, <1>5 DEF WorkerStep

LEMMA OthersClaimNothing ==
  ASSUME job \in JobRow,
         \/ \E r \in Recoverers : RecovererStep(r) \/ RecovererCrash(r)
         \/ \E c \in Cancellers : CancelQueued(c) \/ CancelProcessing(c)
                                  \/ RemoveWithdrawnFile(c) \/ RemovalLost(c)
         \/ LeaseExpires \/ RetryFallsDue \/ DuplicateMessage
  PROVE  ClaimsNothing /\ spc' = spc
<1> USE DEF ClaimsNothing
<1>1. ASSUME NEW r \in Recoverers, RecovererStep(r) \/ RecovererCrash(r)
      PROVE  ClaimsNothing /\ spc' = spc
  <2> USE DEF RecovererUnchanged
  <2>1. CASE RequeueStaleJob(r) \/ FailStaleJob(r)
    BY <2>1 DEF RequeueStaleJob, FailStaleJob, RequeuedForRetry, Released, JobRow
  <2>2. CASE FinalizeStaleCancellation(r)
    BY <2>2, RowAfter DEF FinalizeStaleCancellation, Finalize
  <2>3. CASE ScanStaleJob(r) \/ RemoveStaleFile(r) \/ RemoveCancelledFile(r)
             \/ RecovererCrash(r)
    BY <2>3 DEF ScanStaleJob, RemoveStaleFile, RemoveCancelledFile, RecovererCrash
  <2> QED BY <1>1, <2>1, <2>2, <2>3 DEF RecovererStep
<1>2. ASSUME NEW c \in Cancellers,
             CancelQueued(c) \/ CancelProcessing(c)
             \/ RemoveWithdrawnFile(c) \/ RemovalLost(c)
      PROVE  ClaimsNothing /\ spc' = spc
  BY <1>2, RowAfter DEF CancelQueued, CancelProcessing, RemoveWithdrawnFile, RemovalLost,
     CancellerUnchanged, JobRow
<1>3. CASE LeaseExpires \/ RetryFallsDue \/ DuplicateMessage
  BY <1>3 DEF LeaseExpires, RetryFallsDue, DuplicateMessage, JobRow
<1> QED BY <1>1, <1>2, <1>3

\* Results are committed at most once for every claim and every synchronous
\* call, whatever leases, stale writes, crashes and the broker do.
THEOREM CommitsAreClaimed ==
  ASSUME IsFiniteSet(SyncCalls)
  PROVE  Spec => []CommitsWithinClaims
<1>f. /\ IsFiniteSet(Begun) /\ Cardinality(Begun) \in Nat
      /\ Cardinality(Begun) <= Cardinality(SyncCalls)
      /\ Cardinality(SyncCalls) \in Nat
  BY FS_Subset, FS_CardinalityType DEF Begun
<1>1. Init => ClaimsInv
  <2> SUFFICES ASSUME Init PROVE ClaimsInv
    OBVIOUS
  <2>1. Begun = {}
    BY DEF Init, Begun
  <2>2. Cardinality(Begun) = 0
    BY <2>1, FS_EmptySet
  <2> QED BY <2>2 DEF Init, ClaimsInv, OpenClaim
<1>2. TypeOK /\ ClaimsInv /\ [Next]_vars => ClaimsInv'
  <2> SUFFICES ASSUME TypeOK, ClaimsInv, [Next]_vars
               PROVE  ClaimsInv'
    OBVIOUS
  <2>t. /\ job \in JobRow /\ commits \in Nat /\ spc \in [SyncCalls -> SyncPC]
        /\ job.attempts \in Nat
    BY DEF TypeOK, JobRow
  <2>k. ASSUME Begun' = Begun, ClaimsNothing
        PROVE  ClaimsInv'
    BY <1>f, <2>t, <2>k DEF ClaimsNothing, ClaimsInv, OpenClaim
  <2>1. ASSUME NEW u \in Uploads, UploadStep(u) \/ UploadCrash(u)
        PROVE  ClaimsInv'
    BY <2>t, <2>k, <2>1, UploadClaimsNothing DEF Begun
  <2>2. ASSUME NEW s \in SyncCalls, SyncStep(s) \/ SyncAbort(s)
        PROVE  ClaimsInv'
    <3>1. CASE Begun' = Begun /\ ClaimsNothing
      BY <3>1, <2>k
    <3>2. CASE s \notin Begun /\ Begun' = Begun \union {s} /\ commits' = commits
      <4>1. Cardinality(Begun') = Cardinality(Begun) + 1
        BY <1>f, <3>2, FS_AddElement
      <4>2. job'.attempts = job.attempts
        BY <2>t, <2>2, SyncClaims
      <4> QED BY <1>f, <2>t, <3>2, <4>1, <4>2 DEF ClaimsInv, OpenClaim
    <3>3. CASE /\ Begun' = Begun /\ commits' = commits + 1
               /\ job.status = "processing" /\ job'.status # "processing"
      <4>1. job'.attempts = job.attempts
        BY <2>t, <2>2, SyncClaims
      <4> QED BY <1>f, <2>t, <3>3, <4>1 DEF ClaimsInv, OpenClaim
    <3> QED BY <2>t, <2>2, <3>1, <3>2, <3>3, SyncClaims
  <2>3. ASSUME NEW w \in Workers, WorkerStep(w) \/ WorkerCrash(w)
        PROVE  ClaimsInv'
    <3>1. Begun' = Begun
      BY <2>t, <2>3, WorkerClaims DEF Begun
    <3> QED BY <1>f, <2>t, <2>k, <2>3, <3>1, WorkerClaims DEF ClaimsInv, OpenClaim
  <2>4. CASE \/ \E r \in Recoverers : RecovererStep(r) \/ RecovererCrash(r)
             \/ \E c \in Cancellers : CancelQueued(c) \/ CancelProcessing(c)
                                      \/ RemoveWithdrawnFile(c) \/ RemovalLost(c)
             \/ LeaseExpires \/ RetryFallsDue \/ DuplicateMessage
    BY <2>t, <2>k, <2>4, OthersClaimNothing DEF Begun
  <2>5. CASE UNCHANGED vars
    BY <2>k, <2>5 DEF vars, ClaimsNothing, Begun
  <2> QED BY <2>1, <2>2, <2>3, <2>4, <2>5 DEF Next
<1>3. TypeOK /\ ClaimsInv => CommitsWithinClaims
  BY <1>f DEF TypeOK, JobRow, ClaimsInv, OpenClaim, CommitsWithinClaims
<1> QED BY <1>1, <1>2, <1>3, TypeCorrect, PTL DEF Spec

-----------------------------------------------------------------------------
(***************************************************************************)
(* A serialised deployment: analyses end within their lease, one upload,   *)
(* background analysis only, one recovery process.  No step compares       *)
(* worker_id, so that at most one worker executes rests on the order in    *)
(* which the row's columns change: a worker executes only a row that left  *)
(* "queued", its lease is live and its own or already dropped, and         *)
(* recovery acts on the row of a worker that is gone.                      *)
(***************************************************************************)
Serialised ==
    /\ ~LeaseMayLapse
    /\ SyncCalls = {}
    /\ \A u, v \in Uploads : u = v
    /\ \A q, r \in Recoverers : q = r

\* Recovery has decided to requeue or fail the row it scanned.
Recovering(r) == rpc[r] \in {"requeue", "expire", "expired"}

UploadFirst ==
    \A u \in Uploads : /\ upc[u] \notin {"move", "requeue"}
                       /\ upc[u] \in {"new", "staged", "insert"} => job.status = "absent"

ExecutesLeasedRow ==
    \A w \in Workers : wpc[w] \in Executing =>
        /\ job.status \notin {"absent", "queued"}
        /\ job.lease = "none" \/ (job.lease = "live" /\ job.worker = w)

RecoversAbandonedRow ==
    \A r \in Recoverers : Recovering(r) =>
        /\ job.status \in {"processing", "cancel_requested", "cancelled", "failed"}
        /\ commits = 0
        /\ \A w \in Workers : wpc[w] \notin Executing

PublishedForGood ==
    /\ commits <= 1
    /\ commits = 1 => /\ job.status \in {"completed", "failed"}
                      /\ \A w \in Workers : wpc[w] \in Executing => wpc[w] = "persisted"
    /\ \A w \in Workers : wpc[w] = "persisted" => commits = 1

SerialCore ==
    /\ OneExecution /\ UploadFirst /\ ExecutesLeasedRow
    /\ RecoversAbandonedRow /\ PublishedForGood

SerialInv == TypeOK /\ SerialCore

\* Every step of a serialised deployment keeps the invariant.
LEMMA SerialStep ==
  ASSUME Serialised, SerialInv, [Next]_vars
  PROVE  SerialCore'
<1>t. /\ job \in JobRow /\ commits \in Nat /\ wpc \in [Workers -> WorkerPC]
      /\ upc \in [Uploads -> UploadPC] /\ rpc \in [Recoverers -> RecovererPC]
  BY DEF SerialInv, TypeOK
<1>c. SerialCore
  BY DEF SerialInv
<1> USE <1>t, <1>c DEF SerialCore, Serialised, OneExecution, UploadFirst, ExecutesLeasedRow,
        RecoversAbandonedRow, PublishedForGood, Recovering, Executing, JobRow
<1>1. ASSUME NEW u \in Uploads, UploadStep(u) \/ UploadCrash(u)
      PROVE  SerialCore'
  <2> USE DEF UploadAt, UploadUnchanged
  <2>1. CASE StageFile(u) \/ ReuseJob(u) \/ LoseInsertRace(u) \/ Dispatch(u)
         \/ PublishFails(u) \/ RemoveUnpublishedFile(u) \/ UploadCrash(u)
    BY <2>1 DEF StageFile, ReuseJob, LoseInsertRace, Dispatch,
            PublishFails, RemoveUnpublishedFile, UploadCrash
  <2>2. CASE FindFailedJob(u) \/ MoveFile(u) \/ RequeueFailedJob(u)
    BY <2>2 DEF FindFailedJob, MoveFile, RequeueFailedJob
  <2>3. CASE FindNoReusableJob(u)
    BY <2>3 DEF FindNoReusableJob
  <2>4. CASE InsertJob(u)
    BY <2>4 DEF InsertJob
  <2>5. CASE MarkPublishFailed(u)
    BY <2>5 DEF MarkPublishFailed
  <2> QED BY <1>1, <2>1, <2>2, <2>3, <2>4, <2>5 DEF UploadStep
<1>2. ASSUME NEW w \in Workers, WorkerStep(w) \/ WorkerCrash(w)
      PROVE  SerialCore'
  <2> USE DEF WorkerAt, WorkerUnchanged
  <2>1. CASE PickQueuedJob(w) \/ DeliverMessage(w) \/ ReadStatus(w) \/ ClaimFails(w)
    BY <2>1 DEF PickQueuedJob, DeliverMessage, ReadStatus, ClaimFails
  <2>2. CASE ClaimJob(w)
    BY <2>2 DEF ClaimJob, ClaimedBy, Claimable
  <2>3. CASE ObserveCancellation(w) \/ OpenStagedFile(w) \/ AnalysisRaises(w) \/ PersistRefused(w)
    BY <2>3 DEF ObserveCancellation, OpenStagedFile, AnalysisRaises,
            PersistRefused
  <2>4. CASE MarkPersistenceFailed(w)
    BY <2>4 DEF MarkPersistenceFailed
  <2>5. CASE PersistResults(w)
    BY <2>5 DEF PersistResults, Publishable, Completed
  <2>6. CASE ConfirmCompletion(w)
    BY <2>6 DEF ConfirmCompletion, Completed
  <2>7. CASE FinalizeCancellation(w)
    <3>1. CASE job.status = "cancel_requested"
      <4>1. job'.status = "cancelled" /\ job'.lease = "none"
        BY <2>7, <3>1, RowAfter DEF FinalizeCancellation, Finalize
      <4> QED BY <2>7, <3>1, <4>1 DEF FinalizeCancellation, AfterFinalize
    <3>2. CASE job.status # "cancel_requested"
      BY <2>7, <3>2 DEF FinalizeCancellation, Finalize, AfterFinalize
    <3> QED BY <3>1, <3>2
  <2>8. CASE ScheduleRetry(w)
    BY <2>8 DEF ScheduleRetry, AfterRetry, RequeuedForRetry, Released
  <2>9. CASE FailJob(w)
    BY <2>9 DEF FailJob, Released
  <2>10. CASE RepublishRetry(w) \/ RemoveStagedFile(w) \/ WorkerCrash(w)
    BY <2>10 DEF RepublishRetry, RemoveStagedFile, WorkerCrash
  <2> QED BY <1>2, <2>1, <2>2, <2>3, <2>4, <2>5, <2>6, <2>7, <2>8, <2>9, <2>10 DEF WorkerStep
<1>3. ASSUME NEW r \in Recoverers, RecovererStep(r) \/ RecovererCrash(r)
      PROVE  SerialCore'
  <2> USE DEF RecovererAt, RecovererUnchanged
  <2>1. CASE ScanStaleJob(r)
    BY <2>1 DEF ScanStaleJob, Recovery, LeaseExpired
  <2>2. CASE RequeueStaleJob(r)
    BY <2>2 DEF RequeueStaleJob, RequeuedForRetry, Released
  <2>3. CASE RemoveStaleFile(r)
    BY <2>3 DEF RemoveStaleFile
  <2>4. CASE FailStaleJob(r)
    BY <2>4 DEF FailStaleJob, Released
  <2>5. CASE FinalizeStaleCancellation(r)
    <3>1. CASE job.status = "cancel_requested"
      <4>1. job'.status = "cancelled" /\ job'.lease = "none"
        BY <2>5, <3>1, RowAfter DEF FinalizeStaleCancellation, Finalize
      <4> QED BY <2>5, <3>1, <4>1 DEF FinalizeStaleCancellation, AfterFinalize
    <3>2. CASE job.status # "cancel_requested"
      BY <2>5, <3>2 DEF FinalizeStaleCancellation, Finalize, AfterFinalize
    <3> QED BY <3>1, <3>2
  <2>6. CASE RemoveCancelledFile(r) \/ RecovererCrash(r)
    BY <2>6 DEF RemoveCancelledFile, RecovererCrash
  <2> QED BY <1>3, <2>1, <2>2, <2>3, <2>4, <2>5, <2>6 DEF RecovererStep
<1>4. ASSUME NEW c \in Cancellers,
             CancelQueued(c) \/ CancelProcessing(c)
             \/ RemoveWithdrawnFile(c) \/ RemovalLost(c)
      PROVE  SerialCore'
  <2> USE DEF CancellerAt, CancellerUnchanged
  <2>1. CASE CancelQueued(c)
    BY <2>1 DEF CancelQueued, Cancelled, Released
  <2>2. CASE CancelProcessing(c)
    BY <2>2 DEF CancelProcessing
  <2>3. CASE RemoveWithdrawnFile(c) \/ RemovalLost(c)
    BY <2>3 DEF RemoveWithdrawnFile, RemovalLost
  <2> QED BY <1>4, <2>1, <2>2, <2>3
<1>5. CASE LeaseExpires
  BY <1>5 DEF LeaseExpires
<1>6. CASE RetryFallsDue \/ DuplicateMessage
  BY <1>6 DEF RetryFallsDue, DuplicateMessage
<1>7. CASE UNCHANGED vars
  BY <1>7 DEF vars
<1> QED BY <1>1, <1>2, <1>3, <1>4, <1>5, <1>6, <1>7 DEF Next

LEMMA SerialInvariant == ASSUME Serialised PROVE Spec => []SerialInv
<1>1. Init /\ TypeOK => SerialInv
  BY DEF Init, SerialInv, SerialCore, OneExecution, UploadFirst, ExecutesLeasedRow,
         RecoversAbandonedRow, PublishedForGood, Recovering, Executing
<1>2. SerialInv /\ TypeOK' /\ [Next]_vars => SerialInv'
  BY SerialStep DEF SerialInv
<1> QED BY <1>1, <1>2, TypeCorrect, PTL DEF Spec

\* Claims, recovery, late failure writes, crashes and duplicate messages never
\* put two workers on the job of a serialised deployment.
THEOREM ExclusiveExecution == ASSUME Serialised PROVE Spec => []OneExecution
<1>1. SerialInv => OneExecution
  BY DEF SerialInv, SerialCore
<1> QED BY <1>1, SerialInvariant, PTL

\* Its results are committed at most once.
THEOREM SinglePublication == ASSUME Serialised PROVE Spec => []ResultsCommittedOnce
<1>1. SerialInv => ResultsCommittedOnce
  BY DEF SerialInv, SerialCore, PublishedForGood, ResultsCommittedOnce
<1> QED BY <1>1, SerialInvariant, PTL

\* A cancellation that took effect first is never overwritten as completed,
\* although process_job confirms the completion without looking at the status.
THEOREM CancellationPrevails == ASSUME Serialised PROVE Spec => CancellationNotCompleted
<1>1. SerialInv /\ [Next]_vars =>
        [job.status \in {"cancel_requested", "cancelled"} =>
           job'.status # "completed"]_vars
  <2> SUFFICES ASSUME SerialInv, [Next]_vars,
                      job.status \in {"cancel_requested", "cancelled"}
               PROVE  job'.status # "completed"
    OBVIOUS
  <2>t. /\ job \in JobRow /\ commits \in Nat /\ wpc \in [Workers -> WorkerPC]
    BY DEF SerialInv, TypeOK
  <2>p. /\ commits # 1
        /\ \A w \in Workers : wpc[w] # "persisted"
    BY DEF SerialInv, SerialCore, PublishedForGood
  <2>u. ASSUME job' = job \/ job'.status = job.status \/ job'.status # "completed"
        PROVE  job'.status # "completed"
    BY <2>u
  <2>f. Finalize => job'.status # "completed"
    BY <2>t, FinalizeWrites
  <2>1. ASSUME NEW u \in Uploads, UploadStep(u) \/ UploadCrash(u)
        PROVE  job'.status # "completed"
    BY <2>t, <2>u, <2>1, UploadWrites
  <2>2. ASSUME NEW s \in SyncCalls
        PROVE  FALSE
    BY DEF Serialised
  <2>3. ASSUME NEW w \in Workers, WorkerStep(w) \/ WorkerCrash(w)
        PROVE  job'.status # "completed"
    BY <2>t, <2>p, <2>f, <2>3, WorkerWrites
  <2>4. ASSUME NEW r \in Recoverers, RecovererStep(r) \/ RecovererCrash(r)
        PROVE  job'.status # "completed"
    BY <2>t, <2>u, <2>f, <2>4, RecovererWrites
  <2>5. ASSUME NEW c \in Cancellers,
               CancelQueued(c) \/ CancelProcessing(c)
               \/ RemoveWithdrawnFile(c) \/ RemovalLost(c)
        PROVE  job'.status # "completed"
    BY <2>t, <2>u, <2>5, CancellerWrites
  <2>6. CASE LeaseExpires \/ RetryFallsDue \/ DuplicateMessage
    BY <2>t, <2>u, <2>6, TimeWrites
  <2>7. CASE UNCHANGED vars
    BY <2>u, <2>7 DEF vars
  <2> QED BY <2>1, <2>2, <2>3, <2>4, <2>5, <2>6, <2>7 DEF Next
<1> QED BY <1>1, SerialInvariant, PTL DEF Spec, CancellationNotCompleted

(***************************************************************************)
(* The upload of a job that may run again.  Failure, completion, recovery  *)
(* and cancellation remove the staged file in a step of their own, before  *)
(* or after the write that settles the row; that none of them takes it     *)
(* from a job that returns to the queue relates the row to every program   *)
(* counter.                                                                *)
(***************************************************************************)

\* The row may still return to "queued", or come into being.
MayRun ==
    \/ job.status \in {"absent", "queued"}
    \/ job.status = "processing" /\ AttemptsLeft
    \/ \E w \in Workers : wpc[w] \in Executing
    \/ \E r \in Recoverers : rpc[r] = "requeue"

\* Somebody is about to remove the job's file, or has done so and is about to
\* fail the job.
Withdrawing ==
    \/ \E w \in Workers : wpc[w] = "cleanup"
    \/ \E r \in Recoverers : rpc[r] \in {"expire", "expired", "cleanup"}
    \/ \E c \in Cancellers : cpc[c] = "cleanup"

UploadsInv ==
    \A u \in Uploads : /\ upc[u] \in {"staged", "insert"} => u \in staged
                       /\ upc[u] \notin {"publish_failed", "cleanup"}

FilesInv ==
    /\ UploadsInv
    /\ job.status = "absent" => audit.requested = 0
    /\ audit.requested = 0 =>
         /\ job.status \notin {"cancel_requested", "cancelled"}
         /\ job.status # "absent" /\ MayRun => job.id \in staged
         /\ MayRun => ~Withdrawing

\* Every step of a serialised deployment whose broker accepts its messages
\* keeps the uploads in place.
LEMMA FilesStep ==
  ASSUME Serialised, ~BrokerMayFail, SerialInv, FilesInv, [Next]_vars
  PROVE  FilesInv'
<1>t. /\ job \in JobRow /\ audit \in [requested : Nat, cancelled : Nat]
      /\ wpc \in [Workers -> WorkerPC] /\ upc \in [Uploads -> UploadPC]
      /\ rpc \in [Recoverers -> RecovererPC] /\ cpc \in [Cancellers -> CancellerPC]
  BY DEF SerialInv, TypeOK
<1>c. OneExecution /\ UploadFirst /\ ExecutesLeasedRow /\ RecoversAbandonedRow
  BY DEF SerialInv, SerialCore
<1> USE <1>t, <1>c DEF Serialised, OneExecution, UploadFirst, ExecutesLeasedRow,
        RecoversAbandonedRow, Recovering, Executing, JobRow,
        FilesInv, UploadsInv, MayRun, Withdrawing, AttemptsLeft
<1>1. ASSUME NEW u \in Uploads, UploadStep(u) \/ UploadCrash(u)
      PROVE  FilesInv'
  <2> USE DEF UploadAt, UploadUnchanged
  <2>1. CASE StageFile(u)
    BY <2>1 DEF StageFile
  <2>2. CASE ReuseJob(u)
    BY <2>2 DEF ReuseJob
  <2>3. CASE FindFailedJob(u) \/ MoveFile(u) \/ RequeueFailedJob(u)
    BY <2>3 DEF FindFailedJob, MoveFile, RequeueFailedJob
  <2>4. CASE FindNoReusableJob(u)
    BY <2>4 DEF FindNoReusableJob
  <2>5. CASE InsertJob(u)
    BY <2>5 DEF InsertJob
  <2>6. CASE LoseInsertRace(u)
    BY <2>6 DEF LoseInsertRace
  <2>7. CASE Dispatch(u)
    BY <2>7 DEF Dispatch
  <2>8. CASE PublishFails(u) \/ MarkPublishFailed(u) \/ RemoveUnpublishedFile(u)
    BY <2>8 DEF PublishFails, MarkPublishFailed, RemoveUnpublishedFile
  <2>9. CASE UploadCrash(u)
    BY <2>9 DEF UploadCrash
  <2> QED BY <1>1, <2>1, <2>2, <2>3, <2>4, <2>5, <2>6, <2>7, <2>8, <2>9 DEF UploadStep
<1>2. ASSUME NEW w \in Workers, WorkerStep(w) \/ WorkerCrash(w)
      PROVE  FilesInv'
  <2> USE DEF WorkerAt, WorkerUnchanged
  <2>1. CASE PickQueuedJob(w) \/ DeliverMessage(w) \/ ReadStatus(w) \/ ClaimFails(w)
    BY <2>1 DEF PickQueuedJob, DeliverMessage, ReadStatus, ClaimFails
  <2>2. CASE ClaimJob(w)
    BY <2>2 DEF ClaimJob, ClaimedBy, Claimable
  <2>3. CASE ObserveCancellation(w) \/ PersistRefused(w)
    BY <2>3 DEF ObserveCancellation, PersistRefused
  <2>4. CASE OpenStagedFile(w)
    BY <2>4 DEF OpenStagedFile
  <2>5. CASE AnalysisRaises(w)
    BY <2>5 DEF AnalysisRaises
  <2>6. CASE MarkPersistenceFailed(w)
    BY <2>6 DEF MarkPersistenceFailed
  <2>7. CASE PersistResults(w)
    BY <2>7 DEF PersistResults, Publishable, Completed
  <2>8. CASE ConfirmCompletion(w)
    BY <2>8 DEF ConfirmCompletion, Completed
  <2>9. CASE FinalizeCancellation(w)
    BY <2>9, RowAfter DEF FinalizeCancellation, Finalize, AfterFinalize, Recorded
  <2>10. CASE ScheduleRetry(w)
    BY <2>10 DEF ScheduleRetry, AfterRetry, RequeuedForRetry, Released
  <2>11. CASE FailJob(w)
    BY <2>11 DEF FailJob, Released
  <2>12. CASE RepublishRetry(w)
    BY <2>12 DEF RepublishRetry
  <2>13. CASE RemoveStagedFile(w)
    BY <2>13 DEF RemoveStagedFile
  <2>14. CASE WorkerCrash(w)
    BY <2>14 DEF WorkerCrash
  <2> QED BY <1>2, <2>1, <2>2, <2>3, <2>4, <2>5, <2>6, <2>7, <2>8, <2>9, <2>10, <2>11,
             <2>12, <2>13, <2>14 DEF WorkerStep
<1>3. ASSUME NEW r \in Recoverers, RecovererStep(r) \/ RecovererCrash(r)
      PROVE  FilesInv'
  <2> USE DEF RecovererAt, RecovererUnchanged
  <2>1. CASE ScanStaleJob(r)
    BY <2>1 DEF ScanStaleJob, Recovery, LeaseExpired
  <2>2. CASE RequeueStaleJob(r)
    BY <2>2 DEF RequeueStaleJob, RequeuedForRetry, Released
  <2>3. CASE RemoveStaleFile(r)
    BY <2>3 DEF RemoveStaleFile
  <2>4. CASE FailStaleJob(r)
    BY <2>4 DEF FailStaleJob, Released
  <2>5. CASE FinalizeStaleCancellation(r)
    BY <2>5, RowAfter DEF FinalizeStaleCancellation, Finalize, AfterFinalize, Recorded
  <2>6. CASE RemoveCancelledFile(r)
    BY <2>6 DEF RemoveCancelledFile
  <2>7. CASE RecovererCrash(r)
    BY <2>7 DEF RecovererCrash
  <2> QED BY <1>3, <2>1, <2>2, <2>3, <2>4, <2>5, <2>6, <2>7 DEF RecovererStep
<1>4. ASSUME NEW c \in Cancellers,
             CancelQueued(c) \/ CancelProcessing(c)
             \/ RemoveWithdrawnFile(c) \/ RemovalLost(c)
      PROVE  FilesInv'
  <2> USE DEF CancellerAt, CancellerUnchanged
  <2>1. CASE CancelQueued(c)
    BY <2>1, RowAfter DEF CancelQueued, Recorded
  <2>2. CASE CancelProcessing(c)
    BY <2>2 DEF CancelProcessing, Recorded
  <2>3. CASE RemoveWithdrawnFile(c)
    BY <2>3 DEF RemoveWithdrawnFile
  <2>4. CASE RemovalLost(c)
    BY <2>4 DEF RemovalLost
  <2> QED BY <1>4, <2>1, <2>2, <2>3, <2>4
<1>5. CASE LeaseExpires \/ RetryFallsDue
  BY <1>5 DEF LeaseExpires, RetryFallsDue
<1>6. CASE DuplicateMessage
  BY <1>6 DEF DuplicateMessage
<1>7. CASE UNCHANGED vars
  BY <1>7 DEF vars
<1>8. ASSUME NEW s \in SyncCalls
      PROVE  FALSE
  BY DEF Serialised
<1> QED BY <1>1, <1>2, <1>3, <1>4, <1>5, <1>6, <1>7, <1>8 DEF Next

\* A queued job nobody asked to cancel still has its upload: in a serialised
\* deployment whose broker accepts every message, no failed, retried, recovered
\* or confirmed run removes the file of a job that runs again.
THEOREM UploadsAreKept ==
  ASSUME Serialised, ~BrokerMayFail
  PROVE  Spec => []UploadKept
<1>1. Init => FilesInv
  BY DEF Init, FilesInv, UploadsInv, MayRun, Withdrawing
<1>2. SerialInv /\ FilesInv /\ [Next]_vars => FilesInv'
  BY FilesStep
<1>3. FilesInv => UploadKept
  BY DEF FilesInv, MayRun, UploadKept
<1> QED BY <1>1, <1>2, <1>3, SerialInvariant, PTL DEF Spec

\* A serialised deployment implements the contract: a claim starts a run, the
\* persisting transaction publishes, and every other end of an execution (a
\* failure, a cancellation, the confirmation, a crash) stops it.
THEOREM ContractImplemented == ASSUME Serialised PROVE Spec => ContractKept
<1> DEFINE running == {w \in Workers : wpc[w] \in Executing}
<1>1. Init => Contract!Init
  BY DEF Init, Contract!Init, Executing
<1>2. SerialInv /\ [Next]_vars => [Contract!Next]_<<running, commits>>
  <2> SUFFICES ASSUME SerialInv, [Next]_vars
               PROVE  \/ \E w \in Workers : Contract!Start(w) \/ Contract!Publish(w)
                                            \/ Contract!Stop(w)
                      \/ running' = running /\ commits' = commits
    BY DEF Contract!Next
  <2>t. /\ job \in JobRow /\ commits \in Nat /\ wpc \in [Workers -> WorkerPC]
    BY DEF SerialInv, TypeOK
  <2>c. OneExecution /\ ExecutesLeasedRow /\ PublishedForGood
    BY DEF SerialInv, SerialCore
  <2>k. ASSUME wpc' = wpc, commits' = commits
        PROVE  running' = running /\ commits' = commits
    BY <2>k
  <2>1. ASSUME NEW u \in Uploads, UploadStep(u) \/ UploadCrash(u)
        PROVE  running' = running /\ commits' = commits
    BY <2>t, <2>k, <2>1, UploadWrites
  <2>2. ASSUME NEW s \in SyncCalls
        PROVE  FALSE
    BY DEF Serialised
  <2>3. ASSUME NEW w \in Workers, WorkerStep(w) \/ WorkerCrash(w)
        PROVE  \/ Contract!Start(w) \/ Contract!Publish(w) \/ Contract!Stop(w)
               \/ running' = running /\ commits' = commits
    <3> USE DEF WorkerAt, Executing
    <3>a. wpc[w] \in Executing => running = {w}
      BY <2>c DEF OneExecution
    <3>b. ASSUME \A v \in Workers : v # w => wpc'[v] = wpc[v],
                 wpc'[w] \in Executing <=> wpc[w] \in Executing
          PROVE  running' = running
      BY <3>b
    <3>c. ASSUME wpc[w] \in Executing, wpc'[w] \notin Executing,
                 \A v \in Workers : v # w => wpc'[v] = wpc[v]
          PROVE  running = {w} /\ running' = {}
      BY <3>a, <3>c
    <3>1. CASE ClaimJob(w)
      <4>1. job.status = "queued" /\ commits' = commits
        BY <3>1 DEF ClaimJob, Claimable
      <4>2. commits = 0
        BY <2>t, <2>c, <4>1 DEF PublishedForGood
      <4>3. running = {}
        BY <2>c, <4>1 DEF ExecutesLeasedRow
      <4>4. running' = {w}
        BY <2>t, <3>1, <4>3 DEF ClaimJob
      <4> QED BY <4>1, <4>2, <4>3, <4>4 DEF Contract!Start
    <3>2. CASE PersistResults(w)
      <4>1. running = {w} /\ running' = running /\ commits' = commits + 1
        BY <2>t, <3>2, <3>a, <3>b DEF PersistResults
      <4>2. commits = 0
        BY <2>t, <2>c, <3>2 DEF PersistResults, Publishable, PublishedForGood
      <4> QED BY <4>1, <4>2 DEF Contract!Publish
    <3>3. CASE PickQueuedJob(w) \/ DeliverMessage(w) \/ ReadStatus(w)
               \/ ClaimFails(w) \/ RepublishRetry(w) \/ RemoveStagedFile(w)
      BY <2>t, <3>3, <3>b DEF PickQueuedJob, DeliverMessage, ReadStatus,
                              ClaimFails, RepublishRetry, RemoveStagedFile
    <3>4. CASE OpenStagedFile(w) \/ AnalysisRaises(w) \/ MarkPersistenceFailed(w)
      BY <2>t, <3>4, <3>b DEF OpenStagedFile, AnalysisRaises, MarkPersistenceFailed
    <3>5. CASE ObserveCancellation(w) \/ PersistRefused(w) \/ ConfirmCompletion(w)
               \/ ScheduleRetry(w) \/ FailJob(w)
      <4>1. running = {w} /\ running' = {} /\ commits' = commits
        BY <2>t, <3>5, <3>c DEF ObserveCancellation, PersistRefused,
           ConfirmCompletion, ScheduleRetry, AfterRetry, FailJob
      <4> QED BY <4>1 DEF Contract!Stop
    <3>6. CASE FinalizeCancellation(w)
      BY <2>t, <3>6, <3>b DEF FinalizeCancellation, AfterFinalize
    <3>7. CASE WorkerCrash(w)
      <4>1. CASE wpc[w] \in Executing
        <5>1. running = {w} /\ running' = {} /\ commits' = commits
          BY <2>t, <3>7, <3>c, <4>1 DEF WorkerCrash
        <5> QED BY <5>1 DEF Contract!Stop
      <4>2. CASE wpc[w] \notin Executing
        BY <2>t, <3>7, <3>b, <4>2 DEF WorkerCrash
      <4> QED BY <4>1, <4>2
    <3> QED BY <2>3, <3>1, <3>2, <3>3, <3>4, <3>5, <3>6, <3>7 DEF WorkerStep
  <2>4. ASSUME NEW r \in Recoverers, RecovererStep(r) \/ RecovererCrash(r)
        PROVE  running' = running /\ commits' = commits
    BY <2>t, <2>k, <2>4, RecovererWrites
  <2>5. ASSUME NEW c \in Cancellers,
               CancelQueued(c) \/ CancelProcessing(c)
               \/ RemoveWithdrawnFile(c) \/ RemovalLost(c)
        PROVE  running' = running /\ commits' = commits
    BY <2>t, <2>k, <2>5, CancellerWrites
  <2>6. CASE LeaseExpires \/ RetryFallsDue \/ DuplicateMessage
    BY <2>t, <2>k, <2>6, TimeWrites
  <2>7. CASE UNCHANGED vars
    BY <2>k, <2>7 DEF vars
  <2> QED BY <2>1, <2>2, <2>3, <2>4, <2>5, <2>6, <2>7 DEF Next
<1> QED BY <1>1, <1>2, SerialInvariant, PTL DEF Spec, ContractKept, Contract!Spec
=============================================================================
