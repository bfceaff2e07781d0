-------------------------- MODULE RetentionArchive --------------------------
(***************************************************************************)
(* Making one archive: a call of ArchiveService.create, and calls of       *)
(* ArchiveService.verify for the same id, between the row of the run in    *)
(* the database and the directory in the store.  The two are not written   *)
(* in one transaction, so a failure or a crash may come between them.      *)
(***************************************************************************)
EXTENDS Naturals

CONSTANTS
    Creator,     \* the process that calls create
    Verifiers,   \* the processes that call verify, again and again
    SyncMayFail, \* may finalize raise after the directory was renamed?
    AuditBound   \* bound: audit events of a kind

Callers == Verifiers \union {Creator}

ASSUME ConstantsAssumption ==
    /\ Creator \notin Verifiers
    /\ SyncMayFail \in BOOLEAN
    /\ AuditBound \in Nat

VARIABLES
    status,     \* retention_archive_runs.status, or "absent"
    artifact,   \* the directory: in .partial, complete there, or exposed
    announced,  \* retention_archive_verified audit events
    pc,         \* where each call stands
    known       \* the status the transaction of a call has read

vars == <<status, artifact, announced, pc, known>>

Statuses == {"absent", "creating", "completed", "verified", "failed"}

Artifacts == {"none", "partial", "written", "exposed"}

CreatePC == {"new", "begin", "export", "check", "complete", "finalize", "sync",
             "promote", "promoting", "abort", "fail", "done"}

VerifyPC == {"new", "read", "promote", "promoting", "done"}

Init ==
    /\ status = "absent" /\ artifact = "none" /\ announced = 0
    /\ pc = [c \in Callers |-> "new"]
    /\ known = [c \in Callers |-> "absent"]

At(c, from, to) == pc[c] = from /\ pc' = [pc EXCEPT ![c] = to]

-----------------------------------------------------------------------------
(* create                                                                  *)

CreateRun ==
    /\ At(Creator, "new", "begin")
    /\ status' = "creating"
    /\ UNCHANGED <<artifact, announced, known>>

Begin ==
    /\ At(Creator, "begin", "export")
    /\ artifact' = "partial"
    /\ UNCHANGED <<status, announced, known>>

\* The directory may have been made, but there is no workspace to abort.
BeginRaises ==
    /\ At(Creator, "begin", "fail")
    /\ artifact' \in {"none", "partial"}
    /\ UNCHANGED <<status, announced, known>>

Export ==
    /\ At(Creator, "export", "check")
    /\ artifact' = "written"
    /\ UNCHANGED <<status, announced, known>>

CheckWorkspace ==
    /\ At(Creator, "check", "complete")
    /\ UNCHANGED <<status, artifact, announced, known>>

MarkCompleted ==
    /\ status = "creating"
    /\ At(Creator, "complete", "finalize")
    /\ status' = "completed"
    /\ UNCHANGED <<artifact, announced, known>>

\* os.replace: the directory appears under its final name at once.
Rename ==
    /\ At(Creator, "finalize", "sync")
    /\ artifact' = "exposed"
    /\ UNCHANGED <<status, announced, known>>

Synced ==
    /\ At(Creator, "sync", "promote")
    /\ UNCHANGED <<status, artifact, announced, known>>

\* finalize has raised, so create takes the archive for not finalized.
SyncFails ==
    /\ SyncMayFail
    /\ At(Creator, "sync", "abort")
    /\ UNCHANGED <<status, artifact, announced, known>>

\* The export, the check or a transaction raised, a count changed, or finalize
\* failed before the rename.
Raise ==
    /\ \E from \in {"export", "check", "complete", "finalize"} : At(Creator, from, "abort")
    /\ UNCHANGED <<status, artifact, announced, known>>

\* Mutant: the final directory is removed as well.
RemovedAll == "none"

\* What is in .partial goes.
Removed == IF artifact = "exposed" THEN artifact ELSE "none"

\* A removal that fails is ignored.
Abort ==
    /\ At(Creator, "abort", "fail")
    /\ artifact' \in {artifact, Removed}
    /\ UNCHANGED <<status, announced, known>>

\* Whatever the run says; the transaction may raise, which is ignored.
MarkFailed ==
    /\ At(Creator, "fail", "done")
    /\ status' \in {"failed", status}
    /\ UNCHANGED <<artifact, announced, known>>

Crash ==
    /\ pc[Creator] \notin {"new", "done"}
    /\ pc' = [pc EXCEPT ![Creator] = "done"]
    /\ UNCHANGED <<status, artifact, announced, known>>

-----------------------------------------------------------------------------
(* verify, and the promotion that both end with                            *)

\* A run in any state will do.
ReadRun(v) ==
    /\ status # "absent"
    /\ At(v, "new", "read")
    /\ UNCHANGED <<status, artifact, announced, known>>

\* Only the final directory is read; it is whole, since nothing is written there.
VerifyArchive(v) ==
    /\ artifact = "exposed"
    /\ At(v, "read", "promote")
    /\ UNCHANGED <<status, artifact, announced, known>>

VerifyRaises(v) ==
    /\ At(v, "read", "done")
    /\ UNCHANGED <<status, artifact, announced, known>>

\* Mutant: a run that create left completed is refused.
PromotableVerified == status = "verified"

Promotable == status \in {"completed", "verified"}

\* _mark_verified reads the row ...
ReadToPromote(c) ==
    /\ Promotable
    /\ At(c, "promote", "promoting")
    /\ known' = [known EXCEPT ![c] = status]
    /\ UNCHANGED <<status, artifact, announced>>

PromotionRefused(c) ==
    /\ ~Promotable
    /\ At(c, "promote", "done")
    /\ UNCHANGED <<status, artifact, announced, known>>

\* ... and writes it, with the audit events of a row not yet verified.
Promote(c) ==
    /\ announced < AuditBound \/ known[c] = "verified"
    /\ At(c, "promoting", "done")
    /\ status' = "verified"
    /\ announced' = IF known[c] = "verified" THEN announced ELSE announced + 1
    /\ known' = [known EXCEPT ![c] = "absent"]
    /\ UNCHANGED artifact

\* The transaction raises; create leaves the run completed.
PromotionRaises(c) ==
    /\ \E from \in {"promote", "promoting"} : At(c, from, "done")
    /\ known' = [known EXCEPT ![c] = "absent"]
    /\ UNCHANGED <<status, artifact, announced>>

VerifyAgain(v) ==
    /\ At(v, "done", "new")
    /\ UNCHANGED <<status, artifact, announced, known>>

VerifyStep(v) == ReadRun(v) \/ VerifyArchive(v) \/ ReadToPromote(v)
                 \/ PromotionRefused(v) \/ VerifyAgain(v)

CreateStep ==
    \/ CreateRun \/ Begin \/ BeginRaises \/ Export \/ CheckWorkspace \/ MarkCompleted
    \/ Rename \/ Synced \/ SyncFails \/ Raise \/ Abort \/ MarkFailed
    \/ ReadToPromote(Creator) \/ PromotionRefused(Creator)

Next ==
    \/ CreateStep \/ Crash
    \/ \E c \in Callers : Promote(c) \/ PromotionRaises(c)
    \/ \E v \in Verifiers : VerifyStep(v) \/ VerifyRaises(v)

Spec == Init /\ [][Next]_vars

\* create goes on unless it crashes; verify is called again and again, and does
\* not fail for ever where it could succeed.
Fairness ==
    /\ WF_vars(CreateStep /\ pc[Creator] # "new")
    /\ \A v \in Verifiers : /\ WF_vars(VerifyStep(v) \/ VerifyRaises(v))
                            /\ SF_vars(VerifyArchive(v))
                            /\ SF_vars(ReadToPromote(v)) /\ SF_vars(Promote(v))

FairSpec == Spec /\ Fairness

-----------------------------------------------------------------------------
(* Properties.                                                             *)

\* Every variable has its type.
TypeOK ==
    /\ status \in Statuses /\ artifact \in Artifacts
    /\ announced \in 0 .. AuditBound
    /\ pc \in [Callers -> CreatePC \union VerifyPC]
    /\ known \in [Callers -> Statuses]

\* The gate of the cleanup: a run says verified only with the archive in place
\* under its final name, and no failure of create takes it away again.
VerifiedExposed == status = "verified" => artifact = "exposed"

\* "A pre-finalization failure aborts partial work, marks the run failed": a
\* failed run has no archive under its final name, which verify would refuse and
\* nothing remove.
FailedNotExposed == ~(status = "failed" /\ artifact = "exposed")

\* A verified run stays verified, so the cleanup it authorised may be resumed.
VerifiedForGood == [][status = "verified" => status' = "verified"]_vars

\* "The completed artifact and completed run remain recoverable for a later
\* explicit verify": an archive in place is verified in the end, also when
\* create crashed between the rename and the last update, unless finalize failed
\* after the rename and create has marked the run failed.
ExposedGetsVerified == artifact = "exposed" ~> status \in {"verified", "failed"}
=============================================================================
