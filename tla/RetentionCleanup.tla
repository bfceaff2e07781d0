-------------------------- MODULE RetentionCleanup --------------------------
(***************************************************************************)
(* Deleting what a verified archive holds: calls of                        *)
(* RetentionCleanupService.execute for one archive, each with a worker id  *)
(* of its own, and the rest of the system, which goes on holding, changing *)
(* and deleting the rows they look at.                                     *)
(*                                                                         *)
(* The archived candidates of an entity type are scanned in the order of   *)
(* the keyset cursor (recorded_at, entity_id), here a position.  A batch   *)
(* is one transaction, modelled by what it reads (BeginBatch) and by its   *)
(* last statements and commit (CommitBatch): each statement sees what is   *)
(* committed when it runs, so the rest of the system may act in between.   *)
(***************************************************************************)
EXTENDS Naturals, Sequences, FiniteSets

CONSTANTS
    Executors,   \* worker ids, one per call of execute
    Roots,       \* rows of the five root tables
    Kind,        \* the entity type of each
    Archive,     \* entity type -> sequence of its archived candidates
    Refers,      \* <<x, y>>: row x, or an association of x, names row y
    Changing,    \* roots the rest of the system may still change or link
    Holdable,    \* roots a legal hold may be placed on or lifted from
    ForeignKeys, \* does the database enforce them?
    BatchSize,   \* settings.retention_cleanup_batch_size
    NoOne,       \* a NULL lease_owner
    VersionBound \* bound: versions of the run

\* CLEANUP_ENTITY_ORDER
Order == <<"audit_event", "incident", "ingestion_job", "detection_signal", "canonical_event">>

EntityTypes == {Order[i] : i \in 1 .. 5}

ASSUME ConstantsAssumption ==
    /\ NoOne \notin Executors
    /\ IsFiniteSet(Roots)
    /\ Kind \in [Roots -> EntityTypes]
    /\ Archive \in [EntityTypes -> Seq(Roots)]
    /\ Refers \subseteq Roots \X Roots
    /\ Changing \subseteq Roots /\ Holdable \subseteq Roots
    /\ ForeignKeys \in BOOLEAN
    /\ BatchSize \in Nat \ {0}
    /\ VersionBound \in Nat

\* The index of the archive holds a candidate once, under its entity type.
ASSUME ArchiveIndexed ==
    \A t \in EntityTypes : \A i, j \in 1 .. Len(Archive[t]) :
        /\ Kind[Archive[t][i]] = t
        /\ Archive[t][i] = Archive[t][j] => i = j

VARIABLES
    run,       \* the retention_cleanup_runs row of the archive
    progress,  \* its retention_cleanup_progress rows
    row,       \* what has become of each root
    held,      \* roots under an active legal hold
    recent,    \* incidents changed after the cutoff
    open,      \* those among them that are not resolved or closed
    fresh,     \* roots with a dependent row the archive does not hold
    pc,        \* where each call stands
    seen       \* what the batch of each call has read

vars == <<run, progress, row, held, recent, open, fresh, pc, seen>>

RunRow == [status : {"absent", "running", "completed", "failed"},
           owner : Executors \union {NoOne}, lease : {"none", "live", "expired"},
           version : Nat, deleted : Nat, protected : Nat, missing : Nat]

Batch == [version : Nat, type : EntityTypes, next : Nat, scanned : SUBSET Roots,
          existing : SUBSET Roots, safe : SUBSET Roots]

NoBatch == [version |-> 0, type |-> Order[1], next |-> 0,
            scanned |-> {}, existing |-> {}, safe |-> {}]

CallPC == {"new", "between", "batch", "failing", "done"}

Init ==
    /\ run = [status |-> "absent", owner |-> NoOne, lease |-> "none", version |-> 1,
              deleted |-> 0, protected |-> 0, missing |-> 0]
    /\ progress = [t \in EntityTypes |-> [completed |-> FALSE, cursor |-> 0]]
    /\ row = [x \in Roots |-> "present"]
    /\ held \in SUBSET Holdable
    /\ recent = {} /\ open = {}
    /\ fresh \in SUBSET Changing
    /\ pc = [e \in Executors |-> "new"]
    /\ seen = [e \in Executors |-> NoBatch]

-----------------------------------------------------------------------------
(* The retention predicates, on the rows as they are now.                  *)

Present(x) == row[x] = "present"

\* Mutant: legal holds are left to the planner.
CandidateWhenPlanned(x) ==
    /\ Present(x) /\ x \notin recent
    /\ \A i \in open : <<i, x>> \in Refers => ~Present(i)

\* candidate_spec: aged and terminal, under no hold, linked to no open incident.
Candidate(x) ==
    /\ Present(x) /\ x \notin held \union recent
    /\ \A i \in open : <<i, x>> \in Refers => ~Present(i)

\* Mutant: incidents are not asked for.
UnreferencedByJobs(x) ==
    \A y \in Roots : <<y, x>> \in Refers /\ Kind[y] = "ingestion_job" => ~Present(y)

\* No row that is left names x.
Unreferenced(x) == \A y \in Roots : <<y, x>> \in Refers => ~Present(y)

\* delete_eligible: nothing that is left names the root, the archive holds all
\* that hangs from it, and an incident's jobs could go too.
Safe(x) ==
    /\ Unreferenced(x) /\ x \notin fresh
    /\ \A j \in Roots : <<x, j>> \in Refers /\ Kind[j] = "ingestion_job" => Candidate(j)

\* The root delete repeats the candidate predicate, and asks for audit events
\* of an incident; a link made since is left to the foreign keys.
Deletable(x) ==
    /\ Candidate(x)
    /\ Kind[x] = "incident" => Unreferenced(x)
    /\ ForeignKeys /\ Kind[x] # "incident" => x \notin fresh

-----------------------------------------------------------------------------
(* The guard of every write to the run.                                    *)

OwnsLease(e) == run.status = "running" /\ run.owner = e /\ run.lease = "live"

\* Mutant: the guard leaves the lease to the version.
GrantedByVersion(e) == run.status = "running" /\ run.version = seen[e].version

Granted(e) == OwnsLease(e) /\ run.version = seen[e].version

Claimable == \/ run.status \in {"absent", "failed"}
             \/ run.status = "running" /\ run.lease # "live"

Renewed(r) == [r EXCEPT !.lease = "live", !.version = @ + 1]

-----------------------------------------------------------------------------
(* A call of execute.                                                      *)

At(e, from, to) == pc[e] = from /\ pc' = [pc EXCEPT ![e] = to]

RowsUnchanged == UNCHANGED <<row, held, recent, open, fresh>>

Forget(e) == seen' = [seen EXCEPT ![e] = NoBatch]

\* The archive verifies; the run, created with its progress rows on the first
\* call, is claimed.
Claim(e) ==
    /\ Claimable /\ run.version < VersionBound
    /\ At(e, "new", "between")
    /\ run' = [Renewed(run) EXCEPT !.status = "running", !.owner = e]
    /\ UNCHANGED <<progress, seen>> /\ RowsUnchanged

\* A completed run is a no-op; a live lease turns the call away.
TurnedAway(e) ==
    /\ ~Claimable
    /\ At(e, "new", "done")
    /\ UNCHANGED <<run, progress, seen>> /\ RowsUnchanged

Pending(t) == ~progress[t].completed

\* The phases run in order; those completed before are skipped.
Current(t) ==
    \E i \in 1 .. 5 : /\ t = Order[i] /\ Pending(t)
                      /\ \A j \in 1 .. i - 1 : ~Pending(Order[j])

\* The archived candidates behind one cursor position and up to another.
Records(t, from, to) == {Archive[t][i] : i \in from + 1 .. to}

\* Where the batch that starts at a cursor position ends.
BatchEnd(t, from) ==
    IF from + BatchSize < Len(Archive[t]) THEN from + BatchSize ELSE Len(Archive[t])

\* The next records of the archive for an entity type, classified.
Classified(t) ==
    LET next == BatchEnd(t, progress[t].cursor)
        scanned == Records(t, progress[t].cursor, next)
    IN [version |-> run.version, type |-> t, next |-> next, scanned |-> scanned,
        existing |-> {x \in scanned : Present(x)},
        safe |-> {x \in scanned : Candidate(x) /\ Safe(x)}]

\* The transaction reads run, cursor and the rows of the batch.
BeginBatch(e) ==
    /\ OwnsLease(e)
    /\ At(e, "between", "batch")
    /\ \E t \in EntityTypes : Current(t) /\ seen' = [seen EXCEPT ![e] = Classified(t)]
    /\ UNCHANGED <<run, progress>> /\ RowsUnchanged

\* Mutant: protected roots are counted as deleted.
CountedExisting(s) ==
    [Renewed(run) EXCEPT !.deleted = @ + Cardinality(s.existing),
                         !.missing = @ + Cardinality(s.scanned \ s.existing)]
\* Deleted, protected and missing records of the batch add up.
Counted(s) ==
    [Renewed(run) EXCEPT !.deleted = @ + Cardinality(s.safe),
                         !.protected = @ + Cardinality(s.existing \ s.safe),
                         !.missing = @ + Cardinality(s.scanned \ s.existing)]

Advanced(s) == [completed |-> FALSE, cursor |-> s.next]

\* Mutant: a batch without a deletion ends the phase.
ExhaustedIfSafe(s) == s.safe = {}

\* No records are left behind the cursor.
Exhausted(s) == s.scanned = {}

CommitBatch(e) ==
    /\ At(e, "batch", "between")
    /\ ~Exhausted(seen[e])
    /\ Granted(e) /\ \A x \in seen[e].safe : Deletable(x)
    /\ run.version < VersionBound
    /\ row' = [x \in Roots |-> IF x \in seen[e].safe THEN "deleted" ELSE row[x]]
    /\ run' = Counted(seen[e])
    /\ progress' = [progress EXCEPT ![seen[e].type] = Advanced(seen[e])]
    /\ Forget(e)
    /\ UNCHANGED <<held, recent, open, fresh>>

CompletePhase(e) ==
    /\ At(e, "batch", "between")
    /\ Exhausted(seen[e])
    /\ Granted(e) /\ run.version < VersionBound
    /\ run' = Renewed(run)
    /\ progress' = [progress EXCEPT ![seen[e].type].completed = TRUE]
    /\ Forget(e) /\ RowsUnchanged

\* Mutant: the call starts the batch again.
LoseBatchRetried(e) ==
    /\ At(e, "batch", "between")
    /\ ~Granted(e) \/ \E x \in seen[e].safe : ~Deletable(x)
    /\ Forget(e)
    /\ UNCHANGED <<run, progress>> /\ RowsUnchanged

\* A conditional update or the root delete finds less than it should, and the
\* whole batch rolls back.
LoseBatch(e) ==
    /\ At(e, "batch", "failing")
    /\ ~Granted(e) \/ \E x \in seen[e].safe : ~Deletable(x)
    /\ Forget(e)
    /\ UNCHANGED <<run, progress>> /\ RowsUnchanged

LoseLease(e) ==
    /\ At(e, "between", "failing")
    /\ ~OwnsLease(e)
    /\ UNCHANGED <<run, progress, seen>> /\ RowsUnchanged

\* The archive drifted, or the database or the store failed.
Raise(e) ==
    /\ \E from \in {"between", "batch"} : At(e, from, "failing")
    /\ Forget(e)
    /\ UNCHANGED <<run, progress>> /\ RowsUnchanged

CompleteRun(e) ==
    /\ At(e, "between", "done")
    /\ OwnsLease(e) /\ \A t \in EntityTypes : ~Pending(t)
    /\ run' = [run EXCEPT !.status = "completed", !.owner = NoOne, !.lease = "none",
                          !.version = @ + 1]
    /\ UNCHANGED <<progress, seen>> /\ RowsUnchanged

\* fail_run asks for the owner, not for the lease.
Failable(e) == run.status = "running" /\ run.owner = e

MarkFailed(e) ==
    /\ At(e, "failing", "done")
    /\ run' = IF Failable(e)
              THEN [run EXCEPT !.status = "failed", !.owner = NoOne, !.lease = "none",
                               !.version = @ + 1]
              ELSE run
    /\ UNCHANGED <<progress, seen>> /\ RowsUnchanged

Crash(e) ==
    /\ \E from \in {"between", "batch", "failing"} : At(e, from, "done")
    /\ Forget(e)
    /\ UNCHANGED <<run, progress>> /\ RowsUnchanged

CallStep(e) ==
    \/ Claim(e) \/ TurnedAway(e) \/ BeginBatch(e) \/ CommitBatch(e)
    \/ CompletePhase(e) \/ LoseBatch(e) \/ LoseLease(e) \/ CompleteRun(e)
    \/ MarkFailed(e)

-----------------------------------------------------------------------------
(* The rest of the system.                                                 *)

LeaseExpires ==
    /\ run.lease = "live"
    /\ run' = [run EXCEPT !.lease = "expired"]
    /\ UNCHANGED <<progress, pc, seen>> /\ RowsUnchanged

RestUnchanged == UNCHANGED <<run, progress, pc, seen>>

PlaceHold(x) ==
    /\ held' = held \union {x}
    /\ UNCHANGED <<row, recent, open, fresh>> /\ RestUnchanged

LiftHold(x) ==
    /\ held' = held \ {x}
    /\ UNCHANGED <<row, recent, open, fresh>> /\ RestUnchanged

\* An analysis merges evidence into the incident, or an analyst reopens it: the
\* incident's row changes with its new dependents.
ChangeIncident(i) ==
    /\ Kind[i] = "incident" /\ Present(i)
    /\ recent' = recent \union {i}
    /\ open' \in {open, open \union {i}}
    /\ fresh' = fresh \union {i}
    /\ UNCHANGED <<row, held>> /\ RestUnchanged

\* An analysis that finds the event or signal again links it to its own job.
LinkAgain(x) ==
    /\ Kind[x] \in {"canonical_event", "detection_signal"} /\ Present(x)
    /\ fresh' = fresh \union {x}
    /\ UNCHANGED <<row, held, recent, open>> /\ RestUnchanged

\* The cleanup of another archive that holds x too.
RemoveElsewhere(x) ==
    /\ Candidate(x) /\ Safe(x)
    /\ row' = [row EXCEPT ![x] = "removed"]
    /\ UNCHANGED <<held, recent, open, fresh>> /\ RestUnchanged

Next ==
    \/ \E e \in Executors : CallStep(e) \/ Raise(e) \/ Crash(e)
    \/ LeaseExpires
    \/ \E x \in Holdable : PlaceHold(x) \/ LiftHold(x)
    \/ \E x \in Changing : ChangeIncident(x) \/ LinkAgain(x)
    \/ \E x \in Roots : RemoveElsewhere(x)

Spec == Init /\ [][Next]_vars

\* A call that has begun runs on until it ends.
Fairness == \A e \in Executors : WF_vars(CallStep(e) /\ pc[e] # "new")

FairSpec == Spec /\ Fairness

-----------------------------------------------------------------------------
(* Properties.                                                             *)

\* Every variable has its type.
TypeOK ==
    /\ run \in RunRow
    /\ progress \in [EntityTypes -> [completed : BOOLEAN, cursor : Nat]]
    /\ row \in [Roots -> {"present", "deleted", "removed"}]
    /\ held \subseteq Holdable
    /\ open \subseteq recent /\ recent \subseteq Changing /\ fresh \subseteq Changing
    /\ pc \in [Executors -> CallPC]
    /\ seen \in [Executors -> Batch]

Scanned == UNION {Records(t, 0, progress[t].cursor) : t \in EntityTypes}

\* The counters of the run are the truth about its deletions, across crashes,
\* lost leases, takeovers and rolled back batches: each archived record behind
\* the cursors is counted once, and "deleted" counts the rows this run deleted.
CountsExact ==
    /\ run.deleted = Cardinality({x \in Roots : row[x] = "deleted"})
    /\ run.deleted + run.protected + run.missing = Cardinality(Scanned)

\* Only what a cursor has passed is deleted, and never a row the archive holds
\* as a dependency only.
DeletedWereScanned == {x \in Roots : row[x] = "deleted"} \subseteq Scanned

\* No row that is left names a deleted one: the phases and the checks of
\* delete_eligible respect the references, also of rows that may not go.
ReferencesIntact == \A x, y \in Roots : <<x, y>> \in Refers /\ Present(x) => Present(y)

\* A completed run has been through the whole archive.
CompletedScannedAll ==
    run.status = "completed" =>
        \A t \in EntityTypes : progress[t].completed /\ progress[t].cursor = Len(Archive[t])

\* A hold placed, or an incident reopened, between the check and the delete
\* still protects what it concerns.
DeletionsEligible ==
    [][\A x \in Roots : Present(x) /\ row'[x] = "deleted" =>
         /\ x \notin held \union recent
         /\ \A i \in open : <<i, x>> \in Refers => ~Present(i)]_vars

\* A worker that has lost owner, version or lease commits no deletion and no
\* progress (the doc's claim about takeovers).
LeaseHolderWrites ==
    [][progress' # progress \/ (\E x \in Roots : row'[x] = "deleted" /\ Present(x)) =>
         \E e \in Executors : OwnsLease(e) /\ pc[e] = "batch" /\ pc'[e] = "between"]_vars

\* A worker that lost the run to another does not fail it under the other.
TakeoverUndisturbed ==
    [][run.status = "running" /\ run'.status = "failed" =>
         \E e \in Executors : run.owner = e /\ pc[e] = "failing"]_vars

\* Every call ends: each batch takes the cursor forward or ends the phase.
CallsEnd == \A e \in Executors : (pc[e] = "between") ~> (pc[e] = "done")

\* "Events and signals are deleted only after all remaining incident/job
\* associations are absent": an analysis may link one between the check and
\* the delete, and only the database's foreign keys are left to notice.
DeletedUnlinked ==
    [][\A x \in Roots : Present(x) /\ row'[x] = "deleted" => x \notin fresh]_vars
=============================================================================
