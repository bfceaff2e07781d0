------------------------- MODULE StatefulCorrelation -------------------------
(***************************************************************************)
(* Cross-job incident correlation.  Each analysis job is one database      *)
(* transaction (AnalysisService._process_events_stateful): it stores its   *)
(* evidence, resolves each batch incident against the correlation row of   *)
(* its key, creating the campaign's incident, merging into it or starting  *)
(* a new generation, keeps what cannot be correlated as a batch-local      *)
(* incident, moves new incidents along their life cycle, enqueues search   *)
(* documents and commits.  Analysts change the status of the same          *)
(* incidents (PATCH /incidents/{id}/status).                               *)
(*                                                                         *)
(* The database is PostgreSQL at READ COMMITTED: SELECT ... FOR UPDATE     *)
(* waits for the holder of a row it can see, an INSERT waits for an        *)
(* uncommitted row of the same key, both see what is committed when they   *)
(* are granted, and one of several transactions that wait for each other   *)
(* is aborted.  A job's own writes are private until it commits.           *)
(* Signals behave as events do and are not told apart from them.           *)
(***************************************************************************)
EXTENDS Naturals, Sequences, FiniteSets, FiniteSetsExt

CONSTANTS
    Jobs,
    Requests,      \* status updates by analysts
    Keys,          \* correlation keys
    NoKey,         \* derive_stateful_profile found no profile
    KeyVersion,    \* the correlation_version a key was hashed with
    Ids,           \* incident ids
    Scoped,        \* <<incident id, version>> -> _version_scoped_incident_id
    Inputs,        \* what the jobs may bring: Jobs -> sequence of bundles
    Absent,        \* no row
    Window,        \* stateful_correlation_window_seconds
    TTL,           \* stateful_correlation_state_ttl_seconds
    MaxContext,    \* MAX_CONTEXT_EVENTS_PER_INCIDENT
    Outcomes,      \* what triage may make of a new incident
    OutboxEnabled, \* settings.opensearch_enabled
    MaxTime        \* bound: the clock

\* IncidentLifecycle.VALID_TRANSITIONS
Allowed == [
    new |-> {"triaged", "closed", "needs_review"},
    triaged |-> {"investigating", "assigned", "needs_review", "resolved", "false_positive"},
    needs_review |-> {"assigned", "investigating", "triaged"},
    assigned |-> {"investigating"},
    investigating |-> {"confirmed", "resolved", "false_positive"},
    confirmed |-> {"resolved"},
    resolved |-> {"closed", "reopened"},
    false_positive |-> {"closed", "reopened"},
    closed |-> {"reopened"},
    reopened |-> {"investigating", "assigned", "needs_review"}]

\* An incident with its associations, and a correlation row.
IncidentRow == [
    events : SUBSET Nat, context : SUBSET Nat, jobs : SUBSET Jobs,
    key : Keys \cup {NoKey}, first : Nat, last : Nat,
    status : DOMAIN Allowed, version : Nat \ {0}, writer : Jobs \cup Requests]

StateRow == [
    incident : Ids, generation : Nat, version : Nat,
    first : Nat, last : Nat, expires : Nat, guard : Nat]

\* What a job detects.
BundleType == [
    id : Ids, key : Keys \cup {NoKey}, events : SUBSET Nat, context : SUBSET Nat,
    first : Nat, last : Nat]

ASSUME ConstantsAssumption ==
    /\ Jobs \cap Requests = {}
    /\ NoKey \notin Keys /\ Absent \notin Ids \cup IncidentRow \cup StateRow
    /\ KeyVersion \in [Keys -> Nat]
    /\ \A id \in Ids, k \in Keys : Scoped[id, KeyVersion[k]] \in Ids
    /\ \A brought \in Inputs : \A j \in Jobs : brought[j] \in Seq(BundleType)
    /\ {Window, TTL, MaxContext, MaxTime} \subseteq Nat
    /\ TTL >= Window /\ Window > 0
    /\ Outcomes \subseteq {"none", "triaged", "needs_review"}
    /\ OutboxEnabled \in BOOLEAN

VARIABLES
    now,       \* the clock
    batch,     \* the incidents each job has detected
    event,     \* committed canonical events
    state,     \* incident_correlation_states, by key
    incident,  \* incidents with their associations
    projected, \* search documents; the outbox rows when it is enabled
    txn,       \* the open transaction of each job
    patch      \* where each status update stands

vars == <<now, batch, event, state, incident, projected, txn, patch>>

-----------------------------------------------------------------------------
(* Tables, as functions from keys to rows. *)

\* One row is inserted or replaced.
Written(table, key, row) ==
    [k \in DOMAIN table \cup {key} |-> IF k = key THEN row ELSE table[k]]

\* A table with the private rows of a transaction before it.
Over(rows, table) ==
    [k \in DOMAIN table |-> IF k \in DOMAIN rows THEN rows[k] ELSE table[k]]

-----------------------------------------------------------------------------
(* The rows a job writes, as functions of the rows it has read. *)

\* The latest bundle the job is resolving.
Bundle(j) == batch[j][txn[j].at]

\* Mutant: the context events are not stored.
JobEventsWithoutContext(j) == UNION {batch[j][n].events : n \in DOMAIN batch[j]}

JobEvents(j) == UNION {batch[j][n].events \cup batch[j][n].context : n \in DOMAIN batch[j]}

\* _bounded_context_ids: sorted and capped, and never an incident event.
BoundedContext(context, events) ==
    LET rest == context \ events
    IN  {e \in rest : Cardinality({d \in rest : d < e}) < MaxContext}

\* domain_incident_to_orm, with the job and the life cycle's first status;
\* its metrics name the correlation key, if it is correlated.
Fresh(b, j, key) == [
    events |-> b.events, context |-> b.context, jobs |-> {j}, key |-> key,
    first |-> b.first, last |-> b.last,
    status |-> "new", version |-> 1, writer |-> j]

\* One version increment for any material change.
Bumped(old, new, j) ==
    IF new = old THEN old ELSE [new EXCEPT !.version = old.version + 1, !.writer = j]

\* reconcile_existing_incident: associations are united, the scalar fields
\* are the bundle's; create_canonical also writes the key.
Reconciled(row, b, j, key) ==
    LET events == row.events \cup b.events
    IN  Bumped(row,
               [row EXCEPT !.events = events,
                           !.context = BoundedContext(@ \cup b.context, events),
                           !.jobs = @ \cup {j}, !.key = key,
                           !.first = b.first, !.last = b.last],
               j)

\* merge_into_canonical
Merged(row, b, j) ==
    LET events == row.events \cup b.events
    IN  Bumped(row,
               [row EXCEPT !.events = events,
                           !.context = BoundedContext(@ \cup b.context, events),
                           !.jobs = @ \cup {j}, !.key = b.key,
                           !.first = Min({@, b.first}), !.last = Max({@, b.last})],
               j)

\* _is_noop
IsNoop(row, b, j) ==
    /\ j \in row.jobs
    /\ b.events \subseteq row.events
    /\ b.context \subseteq row.events \cup row.context

\* _compute_expires_at
ExpiresAt(t, last) == Max({t, last}) + TTL

\* classify_state_decision; "repair" needs an incident that is gone, which
\* the foreign key of the correlation row rules out.
Decision(st, exists, b, version, t) ==
    CASE ~exists                     -> "repair"
      [] exists /\ st.version # version -> "new_generation"
      [] exists /\ st.version = version ->
            IF st.expires <= t THEN "new_generation"
            ELSE IF b.first > b.last THEN "stale"
            ELSE IF b.first > st.last + Window THEN "new_generation"
            ELSE IF b.last + Window < st.first THEN "stale"
            ELSE "merge"

\* The document of an incident row.  Two transactions never give a row the
\* same updated_at, so the writer stands for it.
Document(id, row) ==
    [id |-> id, version |-> row.version,
     content |-> [jobs |-> row.jobs, status |-> row.status, first |-> row.first,
                  last |-> row.last, writer |-> row.writer]]

-----------------------------------------------------------------------------
(* Rows as a transaction sees them, and the locks it must be granted. *)

StateSeen(j, k) == IF k \in DOMAIN txn[j].states THEN txn[j].states[k] ELSE state[k]

IncidentSeen(j, id) ==
    IF id \in DOMAIN txn[j].incidents THEN txn[j].incidents[id] ELSE incident[id]

LockOf(kind, row, seen) == IF seen = Absent THEN {} ELSE {<<kind, row>>}

\* The rows the next statement of the job has to lock or insert.
Needed(j) ==
    LET pc == txn[j].pc
        b == Bundle(j)
        read(id) == LockOf("incident", id, IncidentSeen(j, id))
    IN  CASE pc = "events"                -> {<<"event", e>> : e \in JobEvents(j) \cap event}
          [] pc = "insert_events"         -> {<<"event", e>> : e \in JobEvents(j) \ txn[j].found}
          [] pc \in {"state", "reread"}   -> LockOf("state", b.key, StateSeen(j, b.key))
          [] pc \in {"preexisting", "renew", "local"} -> read(b.id)
          [] pc \in {"target", "incident"} -> read(txn[j].target)
          [] pc \in {"insert", "renew_insert", "local_insert"} -> {<<"incident", txn[j].target>>}
          [] pc = "insert_state"          -> {<<"state", b.key>>}
          [] OTHER                        -> {}

\* The job is at this statement and nobody else holds what it needs.
Granted(j, pc) ==
    /\ txn[j].pc = pc
    /\ \A o \in Jobs \ {j} : Needed(j) \cap txn[o].held = {}

\* Mutant: rows are read without FOR UPDATE.
HoldNothing(t, j) == t

Hold(t, j) == [t EXCEPT !.held = @ \cup Needed(j)]

\* A transaction that has ended holds nothing.
Ended(pc) == [
    pc |-> pc, at |-> 1, now |-> 0, held |-> {}, found |-> {}, target |-> Absent,
    row |-> Absent, states |-> <<>>, incidents |-> <<>>, saved |-> Absent,
    final |-> {}, local |-> <<>>]

\* Go on with the next bundle: where resolve_and_merge starts, the clock is
\* read.  After the last one, with the bundles left to the batch-local path.
NextLocal(t) == [t EXCEPT !.at = IF t.local = <<>> THEN 1 ELSE Head(t.local),
                          !.pc = IF t.local = <<>> THEN "finish" ELSE "local"]

Resolve(t, j, n) ==
    IF n > Len(batch[j]) THEN NextLocal(t)
    ELSE [t EXCEPT !.at = n, !.now = now, !.pc = "resolve"]

Step(j, t) ==
    /\ txn' = [txn EXCEPT ![j] = t]
    /\ UNCHANGED <<now, batch, event, state, incident, projected, patch>>

\* The transaction writes an incident, and this resolves the bundle.
Wrote(t, id, row) == [t EXCEPT !.incidents = Written(@, id, row), !.final = @ \cup {id}]

-----------------------------------------------------------------------------
(* The statements of a job. *)

Begin(j) ==
    /\ txn[j].pc = "idle"
    /\ Step(j, [txn[j] EXCEPT !.pc = "events"])

\* _persist_canonical_events: existing rows are locked and reused ...  The code
\* locks them one by one, the model all at once: a deadlock over two events,
\* which ends one of the jobs as DeadlockVictim does, is left out.
LockEvents(j) ==
    /\ Granted(j, "events")
    /\ Step(j, [Hold(txn[j], j) EXCEPT !.found = JobEvents(j) \cap event,
                                       !.pc = "insert_events"])

\* ... the others inserted at the flush; losing that race fails the job.
InsertEvents(j) ==
    /\ Granted(j, "insert_events")
    /\ Step(j, IF (JobEvents(j) \ txn[j].found) \cap event # {} THEN Ended("failed")
               ELSE Resolve(Hold(txn[j], j), j, 1))

\* Mutant: it is dropped.
DeriveDropping(j) ==
    /\ txn[j].pc = "resolve"
    /\ Step(j, IF Bundle(j).key = NoKey THEN Resolve(txn[j], j, txn[j].at + 1)
               ELSE [txn[j] EXCEPT !.pc = "state"])

\* A bundle without a profile is left to the batch-local path.
Derive(j) ==
    /\ txn[j].pc = "resolve"
    /\ Step(j, IF Bundle(j).key = NoKey
               THEN Resolve([txn[j] EXCEPT !.local = Append(@, txn[j].at)], j, txn[j].at + 1)
               ELSE [txn[j] EXCEPT !.pc = "state"])

\* correlation_state.get_for_update
LockState(j) ==
    LET row == StateSeen(j, Bundle(j).key)
    IN  /\ Granted(j, "state")
        /\ Step(j, IF row = Absent THEN [txn[j] EXCEPT !.pc = "preexisting"]
                   ELSE [Hold(txn[j], j) EXCEPT !.row = row, !.target = row.incident,
                                                !.pc = "incident"])

\* _try_create: an incident that a state of another correlation version
\* refers to is left alone; the savepoint is opened.
LockPreexisting(j) ==
    LET b == Bundle(j)
        other == \E k \in Keys : /\ StateSeen(j, k) # Absent
                                 /\ StateSeen(j, k).incident = b.id
                                 /\ KeyVersion[k] # KeyVersion[b.key]
        t == Hold(txn[j], j)
    IN  /\ Granted(j, "preexisting")
        /\ Step(j, [t EXCEPT !.target = IF IncidentSeen(j, b.id) # Absent /\ other
                                        THEN Scoped[b.id, KeyVersion[b.key]] ELSE b.id,
                             !.saved = [held |-> t.held, incidents |-> t.incidents, final |-> t.final],
                             !.pc = "target"])

\* create_canonical, its first statement
LockTarget(j) ==
    /\ Granted(j, "target")
    /\ Step(j, IF IncidentSeen(j, txn[j].target) = Absent THEN [txn[j] EXCEPT !.pc = "insert"]
               ELSE [Wrote(Hold(txn[j], j), txn[j].target,
                           Reconciled(IncidentSeen(j, txn[j].target), Bundle(j), j, Bundle(j).key))
                       EXCEPT !.pc = "insert_state"])

\* Mutant: no savepoint around the two inserts.
RolledBackNothing(t) == [t EXCEPT !.pc = "reread"]

\* Mutant: the creation is tried again.
RolledBackRetrying(t) == [t EXCEPT !.held = t.saved.held, !.incidents = t.saved.incidents,
                                   !.final = t.saved.final, !.pc = "preexisting"]

\* An IntegrityError rolls the savepoint back.
RolledBack(t) == [t EXCEPT !.held = t.saved.held, !.incidents = t.saved.incidents,
                           !.final = t.saved.final, !.pc = "reread"]

InsertIncident(j) ==
    /\ Granted(j, "insert")
    /\ Step(j, IF incident[txn[j].target] # Absent THEN RolledBack(txn[j])
               ELSE [Wrote(Hold(txn[j], j), txn[j].target, Fresh(Bundle(j), j, Bundle(j).key))
                       EXCEPT !.pc = "insert_state"])

InsertState(j) ==
    LET b == Bundle(j)
        row == [incident |-> txn[j].target, generation |-> 1, version |-> KeyVersion[b.key],
                first |-> b.first, last |-> b.last,
                expires |-> ExpiresAt(txn[j].now, b.last), guard |-> 1]
    IN  /\ Granted(j, "insert_state")
        /\ Step(j, IF state[b.key] # Absent THEN RolledBack(txn[j])
                   ELSE Resolve([Hold(txn[j], j) EXCEPT !.states = Written(@, b.key, row)],
                                j, txn[j].at + 1))

\* Another job's row: follow the winner.  None: the error was another one.
RereadState(j) ==
    LET row == StateSeen(j, Bundle(j).key)
    IN  /\ Granted(j, "reread")
        /\ Step(j, IF row = Absent THEN Ended("failed")
                   ELSE [Hold(txn[j], j) EXCEPT !.row = row, !.target = row.incident,
                                                !.pc = "incident"])

\* The guarded UPDATE of a correlation row: only the version that was read.
Guarded(j, t, row) ==
    LET k == Bundle(j).key
    IN  IF StateSeen(j, k) = Absent \/ StateSeen(j, k).guard # txn[j].row.guard
        THEN Ended("failed")
        ELSE Resolve([t EXCEPT !.states = Written(@, k, [row EXCEPT !.guard = @ + 1])],
                     j, txn[j].at + 1)

\* _merge: the campaign's incident takes the bundle, its window grows.
MergeInto(j, t, id) ==
    LET b == Bundle(j)
        old == IncidentSeen(j, id)
        new == IF IsNoop(old, b, j) THEN old ELSE Merged(old, b, j)
        last == Max({txn[j].row.last, b.last})
        row == [txn[j].row EXCEPT !.first = Min({@, b.first}), !.last = last,
                                  !.expires = ExpiresAt(txn[j].now, last)]
    IN  IF new = old THEN Resolve([t EXCEPT !.final = @ \cup {id}], j, txn[j].at + 1)
        ELSE Guarded(j, Wrote(t, id, new), row)

LockIncident(j) ==
    LET b == Bundle(j)
        id == txn[j].target
        t == Hold(txn[j], j)
        decision == Decision(txn[j].row, IncidentSeen(j, id) # Absent, b,
                             KeyVersion[b.key], txn[j].now)
    IN  /\ Granted(j, "incident")
        /\ Step(j, CASE decision = "stale" ->
                            Resolve([t EXCEPT !.local = Append(@, t.at)], j, t.at + 1)
                     [] decision = "merge" -> MergeInto(j, t, id)
                     [] decision \in {"new_generation", "repair"} ->
                            IF IncidentSeen(j, id) # Absent /\ b.id = id THEN MergeInto(j, t, id)
                            ELSE [t EXCEPT !.pc = "renew"])

\* _new_generation: the correlation row turns to the bundle's incident.
Renewed(j, t, new) ==
    LET b == Bundle(j)
        row == [txn[j].row EXCEPT !.incident = b.id, !.generation = @ + 1,
                                  !.first = b.first, !.last = b.last,
                                  !.expires = ExpiresAt(txn[j].now, b.last)]
    IN  Guarded(j, Wrote(t, b.id, new), row)

LockRenewed(j) ==
    LET b == Bundle(j)
        old == IncidentSeen(j, b.id)
    IN  /\ Granted(j, "renew")
        /\ Step(j, IF old = Absent THEN [txn[j] EXCEPT !.target = b.id, !.pc = "renew_insert"]
                   ELSE Renewed(j, Hold(txn[j], j), Reconciled(old, b, j, b.key)))

InsertRenewed(j) ==
    /\ Granted(j, "renew_insert")
    /\ Step(j, IF incident[Bundle(j).id] # Absent THEN Ended("failed")
               ELSE Renewed(j, Hold(txn[j], j), Fresh(Bundle(j), j, Bundle(j).key)))

\* _persist_batch_local_incident
Kept(j, t, row) == NextLocal([Wrote(t, Bundle(j).id, row) EXCEPT !.local = Tail(@)])

LockLocal(j) ==
    LET b == Bundle(j)
        old == IncidentSeen(j, b.id)
    IN  /\ Granted(j, "local")
        /\ Step(j, IF old = Absent THEN [txn[j] EXCEPT !.target = b.id, !.pc = "local_insert"]
                   ELSE Kept(j, Hold(txn[j], j), Reconciled(old, b, j, old.key)))

InsertLocal(j) ==
    /\ Granted(j, "local_insert")
    /\ Step(j, IF incident[Bundle(j).id] # Absent THEN Ended("failed")
               ELSE Kept(j, Hold(txn[j], j), Fresh(Bundle(j), j, NoKey)))

\* IncidentLifecycle.transition of a row that has just been triaged.
Transitioned(row, to) ==
    IF row.status = "new" /\ to # "none"
    THEN [row EXCEPT !.status = to, !.version = @ + 1] ELSE row

\* _validate_existing: the same document version with another checksum.
Conflicts(documents) ==
    OutboxEnabled /\ \E d \in documents, p \in projected :
                        d.id = p.id /\ d.version = p.version /\ d # p

\* Triage, enqueue_analysis, _complete_job and the commit.
Commit(j) ==
    /\ txn[j].pc = "finish"
    /\ \E to \in [txn[j].final -> Outcomes] :
        LET t == txn[j]
            rows == [id \in t.final |-> Transitioned(IncidentSeen(j, id), to[id])]
            documents == {Document(id, rows[id]) : id \in t.final}
        IN  IF Conflicts(documents) THEN Step(j, Ended("failed"))
            ELSE /\ incident' = Over(rows, incident)
                 /\ state' = Over(t.states, state)
                 /\ event' = event \cup JobEvents(j)
                 /\ projected' = projected \cup documents
                 /\ txn' = [txn EXCEPT ![j] = Ended("committed")]
                 /\ UNCHANGED <<now, batch, patch>>

\* An exception, a cancellation or a lost worker: nothing is kept.
Abort(j) ==
    /\ txn[j].pc \notin {"idle", "committed", "failed"}
    /\ Step(j, Ended("failed"))

\* A set of transactions each waiting for another of them.
Deadlocked(S) ==
    \A j \in S : \E o \in S \ {j} : Needed(j) \cap txn[o].held # {}

DeadlockVictim(j) ==
    /\ txn[j].pc \notin {"idle", "committed", "failed"}
    /\ \E S \in SUBSET Jobs : j \in S /\ Deadlocked(S)
    /\ Step(j, Ended("failed"))

-----------------------------------------------------------------------------
(* update_status *)

\* The row is read without a lock and has the version the analyst expects.
ReadPatch(r) ==
    /\ patch[r].pc = "idle"
    /\ \E id \in Ids :
        /\ incident[id] # Absent
        /\ patch' = [patch EXCEPT ![r] =
                [pc |-> "read", id |-> id,
                 status |-> incident[id].status, version |-> incident[id].version]]
    /\ UNCHANGED <<now, batch, event, state, incident, projected, txn>>

\* The UPDATE names the row by its key alone and writes the status and the
\* version computed from the row that was read; then outbox and commit.
WritePatch(r) ==
    LET id == patch[r].id
    IN  /\ patch[r].pc = "read"
        /\ \A j \in Jobs : <<"incident", id>> \notin txn[j].held
        /\ \E to \in Allowed[patch[r].status] :
            LET row == [incident[id] EXCEPT !.status = to, !.version = patch[r].version + 1,
                                            !.writer = r]
            IN  IF Conflicts({Document(id, row)})
                THEN /\ patch' = [patch EXCEPT ![r].pc = "refused"]
                     /\ UNCHANGED <<incident, projected>>
                ELSE /\ patch' = [patch EXCEPT ![r].pc = "done"]
                     /\ incident' = [incident EXCEPT ![id] = row]
                     /\ projected' = projected \cup {Document(id, row)}
        /\ UNCHANGED <<now, batch, event, state, txn>>

Tick ==
    /\ now < MaxTime
    /\ now' = now + 1
    /\ UNCHANGED <<batch, event, state, incident, projected, txn, patch>>

-----------------------------------------------------------------------------
Init ==
    /\ now = 0
    /\ batch \in Inputs
    /\ event = {}
    /\ state = [k \in Keys |-> Absent]
    /\ incident = [id \in Ids |-> Absent]
    /\ projected = {}
    /\ txn = [j \in Jobs |-> Ended("idle")]
    /\ patch = [r \in Requests |-> [pc |-> "idle", id |-> Absent, status |-> Absent, version |-> 0]]

\* The statements of a job that follow once it has begun.
Statement(j) ==
    \/ LockEvents(j) \/ InsertEvents(j) \/ Derive(j)
    \/ LockState(j) \/ LockPreexisting(j) \/ LockTarget(j)
    \/ InsertIncident(j) \/ InsertState(j) \/ RereadState(j)
    \/ LockIncident(j) \/ LockRenewed(j) \/ InsertRenewed(j)
    \/ LockLocal(j) \/ InsertLocal(j) \/ Commit(j)

Next ==
    \/ \E j \in Jobs : Begin(j) \/ Statement(j) \/ Abort(j) \/ DeadlockVictim(j)
    \/ \E r \in Requests : ReadPatch(r) \/ WritePatch(r)
    \/ Tick

\* A statement that is granted is executed; the database's deadlock detector
\* aborts a transaction of every cycle.  Nobody has to start a job.
Fairness ==
    /\ \A j \in Jobs : WF_vars(Statement(j))
    /\ WF_vars(\E j \in Jobs : DeadlockVictim(j))

Spec == Init /\ [][Next]_vars /\ Fairness
-----------------------------------------------------------------------------
(* Properties. *)

\* Every variable has its type, and an incident refers only to events that are
\* stored (_persist_canonical_events before the first bundle; foreign keys).
TypeOK ==
    /\ now \in 0 .. MaxTime
    /\ batch \in Inputs
    /\ event \subseteq Nat
    /\ state \in [Keys -> StateRow \cup {Absent}]
    /\ incident \in [Ids -> IncidentRow \cup {Absent}]
    /\ \A id \in Ids : incident[id] # Absent =>
            incident[id].events \cup incident[id].context \subseteq event

\* No detection is lost: whoever wins the race for a campaign's rows, the
\* evidence of every bundle of a completed job is in an incident of the job
\* ("fail closed to the batch-local path so the detection is never lost").
CommittedCovered ==
    \A j \in Jobs : txn[j].pc = "committed" =>
        \A n \in DOMAIN batch[j] : \E id \in Ids :
            /\ incident[id] # Absent
            /\ j \in incident[id].jobs
            /\ batch[j][n].events \subseteq incident[id].events

\* A job that lost the race and was rolled back to its savepoint leaves no
\* incident behind: a key has at most one incident per generation.
OneIncidentPerGeneration ==
    \A k \in Keys :
        LET own == {id \in Ids : incident[id] # Absent /\ incident[id].key = k}
        IN  Cardinality(own) <= IF state[k] = Absent THEN 0 ELSE state[k].generation

\* The bound displaced e from the context of an incident: at least MaxContext
\* smaller events have been its context since.
Displaced(e, old, new) ==
    Cardinality({d \in new.context \cup (new.events \ old.events) : d < e}) >= MaxContext

\* Evidence is only added: no write of a job or an analyst that overlaps
\* another takes an event or a job from an incident, and a context event
\* leaves it only when it has become evidence or the bound displaced it.
EvidenceKept ==
    [][\A id \in Ids : incident[id] # Absent =>
        LET old == incident[id] new == incident'[id]
        IN  /\ new # Absent
            /\ old.events \subseteq new.events /\ old.jobs \subseteq new.jobs
            /\ \A e \in old.context : e \in new.context \cup new.events
                                      \/ Displaced(e, old, new)]_vars

\* Within a generation the correlation row keeps its incident and its window
\* only grows; generations only advance, each change under a new guard.
GenerationsHold ==
    [][\A k \in Keys : state[k] # Absent /\ state'[k] # state[k] =>
        LET old == state[k] new == state'[k]
        IN  /\ new # Absent
            /\ new.guard > old.guard /\ new.generation >= old.generation
            /\ new.generation = old.generation =>
                new.incident = old.incident /\ new.first <= old.first /\ new.last >= old.last]_vars

\* Jobs that need each other's rows, in whatever order their bundles come, do
\* not wait for ever.
JobsEnd ==
    \A j \in Jobs : txn[j].pc = "events" ~> txn[j].pc \in {"committed", "failed"}
=============================================================================
