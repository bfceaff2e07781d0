--------------------- MODULE StatefulCorrelation_proofs ---------------------
(***************************************************************************)
(* Proofs about StatefulCorrelation, for any jobs, batches, keys, bounds   *)
(* and clock: what no interleaving of analyses, status updates, rollbacks  *)
(* and deadlock victims can do to evidence, generations and incidents.     *)
(***************************************************************************)
EXTENDS StatefulCorrelation, FiniteSetTheorems, TLAPS

(***************************************************************************)
(* Tables, numbers and bounded sets.                                       *)
(***************************************************************************)

LEMMA WrittenIs ==
  ASSUME NEW f, NEW k, NEW row
  PROVE  /\ DOMAIN Written(f, k, row) = DOMAIN f \cup {k}
         /\ Written(f, k, row)[k] = row
         /\ \A x \in DOMAIN f : x # k => Written(f, k, row)[x] = f[x]
BY DEF Written

LEMMA NoRows == DOMAIN <<>> = {}
OBVIOUS

LEMMA MinMax ==
  ASSUME NEW a \in Nat, NEW b \in Nat
  PROVE  /\ Min({a, b}) \in Nat /\ Min({a, b}) <= a /\ Min({a, b}) <= b
         /\ Max({a, b}) \in Nat /\ Max({a, b}) >= a /\ Max({a, b}) >= b
<1>1. \E x \in {a, b} : \A y \in {a, b} : x <= y
  OBVIOUS
<1>2. \E x \in {a, b} : \A y \in {a, b} : x >= y
  OBVIOUS
<1> QED BY <1>1, <1>2 DEF Min, Max

\* A set of numbers has a least member.
LEMMA LeastMember ==
  ASSUME NEW S \in SUBSET Nat, S # {}
  PROVE  \E m \in S : \A n \in S : m <= n
<1> DEFINE UpTo(n) == {m \in Nat : m <= n}
           T == {UpTo(n) : n \in S}
<1>1. T \subseteq FiniteSubsetsOf(Nat)
  <2>1. \A n \in Nat : UpTo(n) \in SUBSET Nat /\ IsFiniteSet(UpTo(n))
    BY FS_BoundedSetOfNaturals
  <2> QED BY <2>1 DEF FiniteSubsetsOf
<1>2. T # {}
  OBVIOUS
<1> HIDE DEF T
<1>3. PICK X \in T : \A Y \in T : ~ (<<Y, X>> \in StrictSubsetOrdering(Nat))
  BY <1>1, <1>2, FS_StrictSubsetOrderingWellFounded, WFMin
<1>4. PICK m \in S : X = UpTo(m)
  BY DEF T
<1>5. ASSUME NEW n \in S, n < m
      PROVE  FALSE
  <2>1. UpTo(n) \in T
    BY DEF T
  <2>2. UpTo(n) \subseteq UpTo(m) /\ m \in UpTo(m) /\ m \notin UpTo(n)
    BY <1>5
  <2>3. <<UpTo(n), X>> \in StrictSubsetOrdering(Nat)
    BY <1>4, <2>2 DEF StrictSubsetOrdering
  <2> QED BY <1>3, <2>1, <2>3
<1> QED BY <1>5

Below(e, S) == {d \in S : d < e}

LEMMA BelowFinite ==
  ASSUME NEW S \in SUBSET Nat, NEW e \in Nat
  PROVE  IsFiniteSet(Below(e, S)) /\ Cardinality(Below(e, S)) \in Nat
<1>1. \A d \in Below(e, S) : d \in Nat /\ d <= e
  BY DEF Below
<1>2. Below(e, S) \in SUBSET Nat
  BY <1>1
<1> QED BY <1>1, <1>2, FS_BoundedSetOfNaturals, FS_CardinalityType

LEMMA BelowMore ==
  ASSUME NEW S \in SUBSET Nat, NEW T, S \subseteq T, NEW f \in Nat, NEW e \in Nat, f <= e
  PROVE  Below(f, S) \subseteq Below(e, T)
<1>1. \A d \in S : d < f => d \in T /\ d < e
  OBVIOUS
<1> QED BY <1>1 DEF Below

\* The MaxContext smallest members of a set are smaller than any other.
LEMMA SmallestKept ==
  ASSUME NEW rest \in SUBSET Nat, NEW kept,
         kept = {d \in rest : Cardinality(Below(d, rest)) < MaxContext},
         NEW e \in rest, e \notin kept
  PROVE  Cardinality(Below(e, kept)) >= MaxContext
<1> DEFINE lost == Below(e, rest) \ kept
<1>m. MaxContext \in Nat
  BY ConstantsAssumption
<1>s. kept \subseteq rest /\ kept \in SUBSET Nat
  OBVIOUS
<1>k. \A d \in rest : d \in kept <=> Cardinality(Below(d, rest)) < MaxContext
  OBVIOUS
<1>f. /\ \A d \in Nat : IsFiniteSet(Below(d, rest)) /\ Cardinality(Below(d, rest)) \in Nat
      /\ IsFiniteSet(Below(e, kept)) /\ Cardinality(Below(e, kept)) \in Nat
  BY <1>s, BelowFinite
<1>1. CASE lost = {}
  <2>1. Below(e, rest) = Below(e, kept)
    BY <1>1, <1>s DEF Below
  <2>2. Cardinality(Below(e, rest)) >= MaxContext
    BY <1>m, <1>k, <1>f
  <2> QED BY <2>1, <2>2
<1>2. CASE lost # {}
  <2>1. lost \in SUBSET Nat
    BY DEF Below
  <2> HIDE DEF lost
  <2>2. PICK m \in lost : \A n \in lost : m <= n
    BY <1>2, <2>1, LeastMember
  <2>3. m \in rest /\ m < e /\ m \notin kept /\ m \in Nat
    BY <2>1 DEF lost, Below
  <2>4. ASSUME NEW d \in Below(m, rest)
        PROVE  d \in Below(e, kept)
    <3>1. d \in rest /\ d < m /\ d \in Nat /\ d < e
      BY <2>3 DEF Below
    <3>2. d \notin lost
      BY <2>2, <2>3, <3>1
    <3> QED BY <3>1, <3>2 DEF lost, Below
  <2>5. Cardinality(Below(m, rest)) <= Cardinality(Below(e, kept))
    BY <1>f, <2>4, FS_Subset
  <2>6. Cardinality(Below(m, rest)) >= MaxContext
    BY <1>m, <1>k, <1>f, <2>3
  <2> QED BY <1>m, <1>f, <2>3, <2>5, <2>6
<1> QED BY <1>1, <1>2

\* The context that _bounded_context_ids leaves out is larger than the
\* MaxContext ids it keeps.
LEMMA BoundDisplaces ==
  ASSUME NEW context \in SUBSET Nat, NEW events \in SUBSET Nat, NEW e \in context \ events,
         e \notin BoundedContext(context, events)
  PROVE  Cardinality(Below(e, BoundedContext(context, events))) >= MaxContext
BY SmallestKept DEF BoundedContext, Below

LEMMA BoundedIs ==
  ASSUME NEW context, NEW events
  PROVE  BoundedContext(context, events) \subseteq context \ events
BY DEF BoundedContext

-----------------------------------------------------------------------------
(***************************************************************************)
(* Versions of an incident row.                                            *)
(***************************************************************************)

\* EvidenceKept between two versions of a row.  That the context and the
\* evidence of a rewritten row are disjoint makes it transitive.
Gains(old, new) == old.events \subseteq new.events /\ old.jobs \subseteq new.jobs

ContextKept(old, new) ==
    \A e \in old.context : e \in new.context \cup new.events \/ Displaced(e, old, new)

Extends(old, new) ==
    \/ new = old
    \/ /\ Gains(old, new) /\ ContextKept(old, new)
       /\ new.context \cap new.events = {}

LEMMA DisplacedIs ==
  ASSUME NEW old, NEW new, NEW e
  PROVE  Displaced(e, old, new)
         <=> Cardinality(Below(e, new.context \cup (new.events \ old.events))) >= MaxContext
BY DEF Displaced, Below

\* One rewriting more: the events are united, the context united and bounded.
LEMMA ExtendsOnce ==
  ASSUME NEW a \in IncidentRow, NEW b \in IncidentRow, NEW c \in IncidentRow,
         NEW context \in SUBSET Nat, Extends(a, b), Gains(b, c),
         c.context = BoundedContext(b.context \cup context, c.events)
  PROVE  Extends(a, c)
<1>t. /\ a.events \in SUBSET Nat /\ a.context \in SUBSET Nat
      /\ b.events \in SUBSET Nat /\ b.context \in SUBSET Nat
      /\ c.events \in SUBSET Nat /\ c.context \in SUBSET Nat
  BY DEF IncidentRow
<1>m. MaxContext \in Nat
  BY ConstantsAssumption
<1>g. Gains(a, b) /\ Gains(a, c)
  BY DEF Extends, Gains
<1>d. c.context \cap c.events = {}
  BY BoundedIs
<1> DEFINE since == c.context \cup (c.events \ a.events)
<1>s. since \in SUBSET Nat
  BY <1>t
\* What the bound leaves out now is displaced, and so is what is larger.
<1>o. ASSUME NEW f \in b.context, f \notin c.context, f \notin c.events,
             NEW e \in Nat, f <= e
      PROVE  Displaced(e, a, c)
  <2>1. Cardinality(Below(f, c.context)) >= MaxContext
    BY <1>t, <1>o, BoundDisplaces
  <2>2. Below(f, c.context) \subseteq Below(e, since)
    <3>1. f \in Nat /\ c.context \in SUBSET Nat /\ c.context \subseteq since
      BY <1>t
    <3> HIDE DEF since
    <3> QED BY <1>o, <3>1, BelowMore
  <2>3. /\ IsFiniteSet(Below(e, since)) /\ Cardinality(Below(e, since)) \in Nat
        /\ Cardinality(Below(f, c.context)) \in Nat
    BY <1>t, <1>s, <1>o, BelowFinite
  <2>4. Cardinality(Below(f, c.context)) <= Cardinality(Below(e, since))
    BY <2>2, <2>3, FS_Subset
  <2>5. Cardinality(Below(e, since)) >= MaxContext
    BY <1>m, <2>1, <2>3, <2>4
  <2> QED BY <2>5, DisplacedIs
<1>1. ASSUME NEW e \in a.context, e \notin c.context \cup c.events
      PROVE  Displaced(e, a, c)
  <2>1. e \in Nat
    BY <1>t
  <2>2. CASE e \in b.context \cup b.events
    <3>1. e \in b.context
      BY <1>1, <2>2 DEF Gains
    <3> QED BY <1>o, <1>1, <2>1, <3>1
  <2>3. CASE e \notin b.context \cup b.events
    <3>0. b # a
      BY <1>1, <2>3
    <3>1. ContextKept(a, b) /\ b.context \cap b.events = {}
      BY <3>0 DEF Extends
    <3> DEFINE before == b.context \cup (b.events \ a.events)
    <3>2. Cardinality(Below(e, before)) >= MaxContext
      BY <1>1, <2>3, <3>1, DisplacedIs DEF ContextKept
    <3>3. CASE Below(e, before) \subseteq Below(e, since)
      <4>1. /\ IsFiniteSet(Below(e, since)) /\ Cardinality(Below(e, since)) \in Nat
            /\ Cardinality(Below(e, before)) \in Nat
        <5>1. before \in SUBSET Nat
          BY <1>t
        <5> HIDE DEF before, since
        <5> QED BY <1>s, <2>1, <5>1, BelowFinite
      <4>2. Cardinality(Below(e, before)) <= Cardinality(Below(e, since))
        BY <3>3, <4>1, FS_Subset
      <4>3. Cardinality(Below(e, since)) >= MaxContext
        BY <1>m, <3>2, <4>1, <4>2
      <4> QED BY <4>3, DisplacedIs
    <3>4. CASE ~ (Below(e, before) \subseteq Below(e, since))
      <4>1. PICK f \in before : f < e /\ f \notin since
        BY <3>4 DEF Below
      <4>2. f \in b.context /\ f \notin c.context /\ f \notin c.events
        BY <1>g, <3>1, <4>1 DEF Gains
      <4>3. f \in Nat /\ f <= e
        BY <1>t, <2>1, <4>1, <4>2
      <4> QED BY <1>o, <2>1, <4>2, <4>3
    <3> QED BY <3>3, <3>4
  <2> QED BY <2>2, <2>3
<1> QED BY <1>g, <1>d, <1>1 DEF Extends, ContextKept

\* What the writes of an incident make of its columns.
Rewrite(row, events, context, jobs, key, first, last) ==
    [row EXCEPT !.events = events, !.context = context, !.jobs = jobs,
                !.key = key, !.first = first, !.last = last]

LEMMA BumpedIs ==
  ASSUME NEW row \in IncidentRow, NEW j \in Jobs,
         NEW events \in SUBSET Nat, NEW context \in SUBSET Nat, NEW jobs \in SUBSET Jobs,
         NEW key \in Keys \cup {NoKey}, NEW first \in Nat, NEW last \in Nat,
         NEW new,
         new = Bumped(row, Rewrite(row, events, context, jobs, key, first, last), j)
  PROVE  /\ new \in IncidentRow
         /\ new.events = events /\ new.context = context /\ new.jobs = jobs /\ new.key = key
<1> DEFINE u == Rewrite(row, events, context, jobs, key, first, last)
           w == [u EXCEPT !.version = row.version + 1, !.writer = j]
<1>1. /\ u \in IncidentRow
      /\ u.events = events /\ u.context = context /\ u.jobs = jobs /\ u.key = key
  BY DEF IncidentRow, Rewrite
<1>v. row.version + 1 \in Nat \ {0}
  BY DEF IncidentRow
<1> HIDE DEF u
<1>2. /\ w \in IncidentRow
      /\ w.events = events /\ w.context = context /\ w.jobs = jobs /\ w.key = key
  BY <1>1, <1>v DEF IncidentRow
<1>3. new = IF u = row THEN row ELSE w
  BY DEF Bumped, u
<1> QED BY <1>1, <1>2, <1>3

\* An existing row has been rewritten with a bundle.
RewrittenBy(row, b, j, key, new) ==
    /\ new \in IncidentRow
    /\ new.events = row.events \cup b.events
    /\ new.context = BoundedContext(row.context \cup b.context, new.events)
    /\ new.jobs = row.jobs \cup {j} /\ new.key = key

LEMMA ReconciledIs ==
  ASSUME NEW row \in IncidentRow, NEW b \in BundleType, NEW j \in Jobs,
         NEW key \in Keys \cup {NoKey}
  PROVE  RewrittenBy(row, b, j, key, Reconciled(row, b, j, key))
<1> DEFINE events == row.events \cup b.events
           context == BoundedContext(row.context \cup b.context, events)
           jobs == row.jobs \cup {j}
           new == Reconciled(row, b, j, key)
<1>1. /\ events \in SUBSET Nat /\ jobs \in SUBSET Jobs
      /\ row.context \cup b.context \in SUBSET Nat
      /\ b.first \in Nat /\ b.last \in Nat
  BY DEF IncidentRow, BundleType
<1>2. context \in SUBSET Nat
  BY <1>1, BoundedIs
<1>3. new = Bumped(row, Rewrite(row, events, context, jobs, key, b.first, b.last), j)
  BY DEF Reconciled, Rewrite
<1> HIDE DEF events, context, jobs, new
<1>4. /\ new \in IncidentRow
      /\ new.events = events /\ new.context = context /\ new.jobs = jobs /\ new.key = key
  BY <1>1, <1>2, <1>3, BumpedIs
<1> QED BY <1>4 DEF RewrittenBy, events, context, jobs, new

LEMMA MergedIs ==
  ASSUME NEW row \in IncidentRow, NEW b \in BundleType, NEW j \in Jobs
  PROVE  RewrittenBy(row, b, j, b.key, Merged(row, b, j))
<1> DEFINE events == row.events \cup b.events
           context == BoundedContext(row.context \cup b.context, events)
           jobs == row.jobs \cup {j}
           first == Min({row.first, b.first})
           last == Max({row.last, b.last})
           new == Merged(row, b, j)
<1>1. /\ events \in SUBSET Nat /\ jobs \in SUBSET Jobs
      /\ row.context \cup b.context \in SUBSET Nat
      /\ row.first \in Nat /\ row.last \in Nat
      /\ b.first \in Nat /\ b.last \in Nat /\ b.key \in Keys \cup {NoKey}
  BY DEF IncidentRow, BundleType
<1>2. context \in SUBSET Nat /\ first \in Nat /\ last \in Nat
  BY <1>1, BoundedIs, MinMax
<1>3. new = Bumped(row, Rewrite(row, events, context, jobs, b.key, first, last), j)
  BY DEF Merged, Rewrite
<1> HIDE DEF events, context, jobs, first, last, new
<1>4. /\ new \in IncidentRow
      /\ new.events = events /\ new.context = context /\ new.jobs = jobs /\ new.key = b.key
  BY <1>1, <1>2, <1>3, BumpedIs
<1> QED BY <1>4 DEF RewrittenBy, events, context, jobs, new

LEMMA FreshIs ==
  ASSUME NEW b \in BundleType, NEW j \in Jobs, NEW key \in Keys \cup {NoKey}
  PROVE  /\ Fresh(b, j, key) \in IncidentRow
         /\ Fresh(b, j, key).events = b.events /\ Fresh(b, j, key).context = b.context
         /\ Fresh(b, j, key).jobs = {j} /\ Fresh(b, j, key).key = key
<1>1. "new" \in DOMAIN Allowed
  BY DEF Allowed
<1> QED BY <1>1 DEF Fresh, IncidentRow, BundleType

\* A rewritten row extends the row and what the row extends.
LEMMA RewrittenExtends ==
  ASSUME NEW row \in IncidentRow, NEW b \in BundleType, NEW j \in Jobs, NEW key, NEW new,
         RewrittenBy(row, b, j, key, new)
  PROVE  /\ Gains(row, new)
         /\ j \in new.jobs /\ b.events \subseteq new.events
         /\ new.events \cup new.context \subseteq
              row.events \cup row.context \cup b.events \cup b.context
         /\ \A old \in IncidentRow : Extends(old, row) => Extends(old, new)
<1>1. Gains(row, new)
  BY DEF Gains, RewrittenBy
<1>2. ASSUME NEW old \in IncidentRow, Extends(old, row)
      PROVE  Extends(old, new)
  <2>1. b.context \in SUBSET Nat
    BY DEF BundleType
  <2> QED BY <1>1, <1>2, <2>1, ExtendsOnce DEF RewrittenBy
<1>3. new.context \subseteq row.context \cup b.context
  BY BoundedIs DEF RewrittenBy
<1> QED BY <1>1, <1>2, <1>3 DEF RewrittenBy

\* The life cycle moves a row without touching its associations.
LEMMA TransitionedIs ==
  ASSUME NEW row \in IncidentRow, NEW to \in Outcomes
  PROVE  /\ Transitioned(row, to) \in IncidentRow
         /\ Transitioned(row, to).events = row.events
         /\ Transitioned(row, to).context = row.context
         /\ Transitioned(row, to).jobs = row.jobs /\ Transitioned(row, to).key = row.key
<1>1. to # "none" => to \in DOMAIN Allowed
  BY ConstantsAssumption DEF Allowed
<1>2. row.version + 1 \in Nat \ {0}
  BY DEF IncidentRow
<1> HIDE DEF Allowed
<1> QED BY <1>1, <1>2 DEF Transitioned, IncidentRow

\* A row that differs in its life cycle only extends what the row extends.
LEMMA SameAssociations ==
  ASSUME NEW old, NEW row, NEW new,
         new.events = row.events, new.context = row.context, new.jobs = row.jobs
  PROVE  /\ Gains(row, new) /\ ContextKept(row, new)
         /\ Gains(old, row) => Gains(old, new)
         /\ ContextKept(old, row) => ContextKept(old, new)
BY DEF Gains, ContextKept, Displaced

-----------------------------------------------------------------------------
(***************************************************************************)
(* The invariant.  What an open transaction has written follows what is    *)
(* committed: it holds the locks of the rows, they extend the committed    *)
(* ones, the correlation rows advance, and a key has at most one incident  *)
(* per generation in the transaction's view.  The savepoint splits this:   *)
(* between the two inserts the view breaks the last rule, and it is what a *)
(* rollback would leave that keeps it.                                     *)
(***************************************************************************)
IsTxn(t) == t = [
    pc |-> t.pc, at |-> t.at, now |-> t.now, held |-> t.held, found |-> t.found,
    target |-> t.target, row |-> t.row, states |-> t.states, incidents |-> t.incidents,
    saved |-> t.saved, final |-> t.final, local |-> t.local]

\* A transaction that has not begun, or has ended.
Idle == {"idle", "committed", "failed"}

\* The statements that resolve a bundle: those between the savepoint and its
\* release, those that hold the correlation row, and the others.
Creating == {"target", "insert", "insert_state"}
Following == {"incident", "renew", "renew_insert"}
Resolving == {"resolve", "state", "preexisting", "reread"} \cup Creating \cup Following

Positions == Idle \cup Resolving
             \cup {"events", "insert_events", "local", "local_insert", "finish"}

\* What a rollback to the savepoint would leave; with none open, what there is.
HeldOf(t) == IF t.pc \in Creating THEN t.saved.held ELSE t.held
RowsOf(t) == IF t.pc \in Creating THEN t.saved.incidents ELSE t.incidents
FinalOf(t) == IF t.pc \in Creating THEN t.saved.final ELSE t.final

SeenIn(rows, id) == IF id \in DOMAIN rows THEN rows[id] ELSE incident[id]

StateIn(states, k) == IF k \in DOMAIN states THEN states[k] ELSE state[k]

OwnedBy(rows, k) == {id \in Ids : SeenIn(rows, id) # Absent /\ SeenIn(rows, id).key = k}

AtMost(S, n) == IsFiniteSet(S) /\ Cardinality(S) <= n

\* GenerationsHold between two versions of a correlation row.
Advances(old, new) ==
    /\ new.guard > old.guard /\ new.generation >= old.generation
    /\ new.generation = old.generation =>
        new.incident = old.incident /\ new.first <= old.first /\ new.last >= old.last

\* A row that a job has written, over the committed one.  A key it gave to the
\* incident is one whose correlation row it has written too.
RowFollows(j, states, id, row) ==
    /\ row \in IncidentRow
    /\ row.events \cup row.context \subseteq event \cup JobEvents(j)
    /\ incident[id] # Absent => Extends(incident[id], row)
    /\ \/ row.key \in DOMAIN states \cup {NoKey}
       \/ incident[id] # Absent /\ row.key = incident[id].key

StateFollows(rows, k, row) ==
    /\ row \in StateRow
    /\ state[k] # Absent => Advances(state[k], row)
    /\ AtMost(OwnedBy(rows, k) \cup {row.incident}, row.generation)

Follows(j, held, rows, final, states) ==
    /\ DOMAIN rows \subseteq final /\ final \subseteq Ids /\ DOMAIN states \subseteq Keys
    /\ \A id \in final : <<"incident", id>> \in held /\ SeenIn(rows, id) # Absent
    /\ \A k \in DOMAIN states : <<"state", k>> \in held
    /\ \A id \in DOMAIN rows : RowFollows(j, states, id, rows[id])
    /\ \A k \in DOMAIN states : StateFollows(rows, k, states[k])

\* The evidence of the bundle is in the incident, and the job with it.
Holds(j, n, row) == row # Absent /\ j \in row.jobs /\ batch[j][n].events \subseteq row.events

Covered(j, rows, n) == \E id \in Ids : Holds(j, n, SeenIn(rows, id))

Listed(local, n) == \E i \in DOMAIN local : local[i] = n

\* Every bundle is covered, left to the batch-local path, or still to come.
Accounted(j, t) ==
    \A n \in DOMAIN batch[j] :
        \/ Covered(j, RowsOf(t), n)
        \/ Listed(t.local, n)
        \/ t.pc \in {"events", "insert_events"}
        \/ t.pc \in Resolving /\ n >= t.at

\* Where the job is in its batch.
Placed(j, t) ==
    /\ t.now \in Nat /\ t.local \in Seq(DOMAIN batch[j])
    /\ t.pc \in Resolving => t.at \in DOMAIN batch[j]
    /\ t.pc \in Resolving \ {"resolve"} => batch[j][t.at].key \in Keys
    /\ t.pc \in {"local", "local_insert"} => t.local # <<>> /\ t.at = Head(t.local)
    /\ t.pc = "finish" => t.local = <<>>

\* The row a job writes for its bundle n, over those it has written before.
Brings(j, n, rows, id, row) ==
    /\ row \in IncidentRow
    /\ row.events \cup row.context \subseteq event \cup JobEvents(j)
    /\ incident[id] # Absent => Extends(incident[id], row)
    /\ SeenIn(rows, id) # Absent => Gains(SeenIn(rows, id), row)
    /\ Holds(j, n, row)

\* With the two inserts of _try_create ahead or half done.
Creates(j, t) ==
    LET b == batch[j][t.at]
    IN  /\ t.pc \in Creating \cup {"preexisting"} => b.key \notin DOMAIN t.states
        /\ t.pc \in Creating => t.target \in Ids
        /\ t.pc \in {"target", "insert"} =>
            t.held = t.saved.held /\ t.incidents = t.saved.incidents /\ t.final = t.saved.final
        /\ t.pc = "insert" => t.target \notin DOMAIN t.incidents
        /\ t.pc = "insert_state" =>
            LET row == t.incidents[t.target]
            IN  /\ t.held = t.saved.held \cup {<<"incident", t.target>>}
                /\ t.final = t.saved.final \cup {t.target}
                /\ t.incidents = Written(t.saved.incidents, t.target, row)
                /\ Brings(j, t.at, t.saved.incidents, t.target, row)
                /\ row.key = b.key

\* With the correlation row locked, or a new incident ahead.
FollowsRow(j, t) ==
    LET b == batch[j][t.at]
    IN  /\ t.pc \in Following =>
            /\ t.row \in StateRow /\ t.row = StateIn(t.states, b.key)
            /\ <<"state", b.key>> \in t.held
        /\ t.pc = "incident" => t.target = t.row.incident
        /\ t.pc \in {"renew_insert", "local_insert"} =>
            t.target = b.id /\ b.id \notin DOMAIN t.incidents

OpenOK(j, t) ==
    /\ Follows(j, HeldOf(t), RowsOf(t), FinalOf(t), t.states)
    /\ Placed(j, t) /\ Accounted(j, t) /\ Creates(j, t) /\ FollowsRow(j, t)

TxnOK(j, t) ==
    /\ IsTxn(t) /\ t.pc \in Positions
    /\ IF t.pc \in Idle THEN t = Ended(t.pc) ELSE OpenOK(j, t)

TxnsInv == DOMAIN txn = Jobs /\ \A j \in Jobs : TxnOK(j, txn[j])

LocksExclude == \A j, o \in Jobs : j # o => txn[j].held \cap txn[o].held = {}

\* A status update that has been read still has its row.
PatchInv ==
    /\ DOMAIN patch = Requests
    /\ \A r \in Requests : patch[r] = [
            pc |-> patch[r].pc, id |-> patch[r].id,
            status |-> patch[r].status, version |-> patch[r].version]
    /\ \A r \in Requests : patch[r].pc = "read" =>
        /\ patch[r].id \in Ids /\ incident[patch[r].id] # Absent
        /\ patch[r].status \in DOMAIN Allowed /\ patch[r].version \in Nat

\* OneIncidentPerGeneration with the incident the correlation row names, which
\* may be one that a new generation of another key has taken over.
OwnersInv ==
    \A k \in Keys :
        IF state[k] = Absent THEN OwnedBy(<<>>, k) = {}
        ELSE AtMost(OwnedBy(<<>>, k) \cup {state[k].incident}, state[k].generation)

CorrelationInv ==
    /\ TypeOK
    /\ TxnsInv /\ LocksExclude /\ PatchInv /\ OwnersInv /\ CommittedCovered

-----------------------------------------------------------------------------
(***************************************************************************)
(* What a transaction sees of incidents and correlation rows.              *)
(***************************************************************************)

LEMMA BundlesTyped ==
  ASSUME TypeOK, NEW j \in Jobs
  PROVE  /\ batch[j] \in Seq(BundleType)
         /\ \A n \in DOMAIN batch[j] :
              /\ batch[j][n] \in BundleType
              /\ batch[j][n].events \cup batch[j][n].context \subseteq JobEvents(j)
         /\ JobEvents(j) \subseteq Nat
<1>1. batch[j] \in Seq(BundleType)
  BY ConstantsAssumption DEF TypeOK
<1>2. \A n \in DOMAIN batch[j] : batch[j][n] \in BundleType
  BY <1>1
<1>3. \A n \in DOMAIN batch[j] : batch[j][n].events \subseteq Nat /\ batch[j][n].context \subseteq Nat
  BY <1>2 DEF BundleType
<1> QED BY <1>1, <1>2, <1>3 DEF JobEvents

\* No row is the absence of one.
LEMMA RowsAreRows ==
  /\ \A row \in IncidentRow : row # Absent
  /\ \A row \in StateRow : row # Absent
BY ConstantsAssumption

LEMMA SeenTyped ==
  ASSUME TypeOK, NEW j \in Jobs, NEW held, NEW rows, NEW final, NEW states,
         Follows(j, held, rows, final, states), NEW id \in Ids, SeenIn(rows, id) # Absent
  PROVE  /\ SeenIn(rows, id) \in IncidentRow
         /\ SeenIn(rows, id).events \cup SeenIn(rows, id).context \subseteq event \cup JobEvents(j)
         /\ incident[id] # Absent => Extends(incident[id], SeenIn(rows, id))
         /\ \/ SeenIn(rows, id).key \in DOMAIN states \cup {NoKey}
            \/ incident[id] # Absent /\ SeenIn(rows, id).key = incident[id].key
<1>1. CASE id \in DOMAIN rows
  <2>1. RowFollows(j, states, id, rows[id])
    BY <1>1 DEF Follows
  <2> QED BY <1>1, <2>1 DEF SeenIn, RowFollows
<1>2. CASE id \notin DOMAIN rows
  <2>1. SeenIn(rows, id) = incident[id]
    BY <1>2 DEF SeenIn
  <2>2. incident[id] \in IncidentRow
    BY <2>1 DEF TypeOK
  <2> QED BY <2>1, <2>2 DEF TypeOK, Extends
<1> QED BY <1>1, <1>2

LEMMA StateSeenTyped ==
  ASSUME TypeOK, NEW j \in Jobs, NEW held, NEW rows, NEW final, NEW states,
         Follows(j, held, rows, final, states), NEW k \in Keys, StateIn(states, k) # Absent
  PROVE  /\ StateIn(states, k) \in StateRow
         /\ StateIn(states, k).incident \in Ids
         /\ state[k] # Absent => state[k] \in StateRow /\
              (StateIn(states, k) = state[k] \/ Advances(state[k], StateIn(states, k)))
<1>1. StateIn(states, k) \in StateRow
  BY DEF StateIn, Follows, StateFollows, TypeOK
<1>2. state[k] # Absent => state[k] \in StateRow
  BY DEF TypeOK
<1>3. state[k] # Absent => StateIn(states, k) = state[k] \/ Advances(state[k], StateIn(states, k))
  BY DEF StateIn, Follows, StateFollows
<1> QED BY <1>1, <1>2, <1>3 DEF StateRow

\* A key whose correlation row the job has not written has no incident in its
\* view that it has not among the committed ones.
LEMMA OwnersCommitted ==
  ASSUME TypeOK, NEW j \in Jobs, NEW held, NEW rows, NEW final, NEW states,
         Follows(j, held, rows, final, states), NEW k \in Keys, k \notin DOMAIN states
  PROVE  OwnedBy(rows, k) \subseteq OwnedBy(<<>>, k)
<1> SUFFICES ASSUME NEW id \in OwnedBy(rows, k)
             PROVE  id \in OwnedBy(<<>>, k)
  OBVIOUS
<1>1. id \in Ids /\ SeenIn(rows, id) # Absent /\ SeenIn(rows, id).key = k
  BY DEF OwnedBy
<1>2. k # NoKey
  BY ConstantsAssumption
<1>3. incident[id] # Absent /\ incident[id].key = k
  BY <1>1, <1>2, SeenTyped
<1>4. SeenIn(<<>>, id) = incident[id]
  BY NoRows DEF SeenIn
<1> QED BY <1>1, <1>3, <1>4 DEF OwnedBy

LEMMA AtMostSubset ==
  ASSUME NEW S, NEW T \in SUBSET S, NEW n \in Nat, AtMost(S, n)
  PROVE  AtMost(T, n)
<1>1. IsFiniteSet(T) /\ Cardinality(T) <= Cardinality(S)
  BY FS_Subset DEF AtMost
<1>2. Cardinality(T) \in Nat /\ Cardinality(S) \in Nat
  BY <1>1, FS_CardinalityType DEF AtMost
<1> QED BY <1>1, <1>2 DEF AtMost

LEMMA AtMostOneMore ==
  ASSUME NEW S, NEW x, NEW n \in Nat, AtMost(S, n)
  PROVE  AtMost(S \cup {x}, n + 1)
<1>1. /\ IsFiniteSet(S \cup {x})
      /\ Cardinality(S \cup {x}) <= Cardinality(S) + 1 /\ Cardinality(S) \in Nat
      /\ Cardinality(S \cup {x}) \in Nat
  BY FS_AddElement, FS_CardinalityType DEF AtMost
<1> QED BY <1>1 DEF AtMost

\* In the view of a transaction too a key has one incident per generation.
LEMMA OwnersSeen ==
  ASSUME TypeOK, OwnersInv, NEW j \in Jobs, NEW held, NEW rows, NEW final, NEW states,
         Follows(j, held, rows, final, states), NEW k \in Keys
  PROVE  IF StateIn(states, k) = Absent THEN OwnedBy(rows, k) = {}
         ELSE AtMost(OwnedBy(rows, k) \cup {StateIn(states, k).incident},
                     StateIn(states, k).generation)
<1>1. CASE k \in DOMAIN states
  <2>1. StateFollows(rows, k, states[k])
    BY <1>1 DEF Follows
  <2>2. states[k] # Absent
    BY <2>1, RowsAreRows DEF StateFollows
  <2> QED BY <1>1, <2>1, <2>2 DEF StateFollows, StateIn
<1>2. CASE k \notin DOMAIN states
  <2>1. StateIn(states, k) = state[k]
    BY <1>2 DEF StateIn
  <2>2. OwnedBy(rows, k) \subseteq OwnedBy(<<>>, k)
    BY <1>2, OwnersCommitted
  <2>3. CASE state[k] = Absent
    BY <2>1, <2>2, <2>3 DEF OwnersInv
  <2>4. CASE state[k] # Absent
    <3>1. AtMost(OwnedBy(<<>>, k) \cup {state[k].incident}, state[k].generation)
      BY <2>4 DEF OwnersInv
    <3>2. state[k].generation \in Nat
      BY <2>4 DEF TypeOK, StateRow
    <3>3. OwnedBy(rows, k) \cup {state[k].incident}
            \in SUBSET (OwnedBy(<<>>, k) \cup {state[k].incident})
      BY <2>2
    <3>4. AtMost(OwnedBy(rows, k) \cup {state[k].incident}, state[k].generation)
      BY <3>1, <3>2, <3>3, AtMostSubset
    <3> QED BY <2>1, <2>4, <3>4
  <2> QED BY <2>3, <2>4
<1> QED BY <1>1, <1>2

-----------------------------------------------------------------------------
(***************************************************************************)
(* What a statement may add to the writes of its transaction.              *)
(***************************************************************************)

LEMMA SeenWritten ==
  ASSUME NEW rows, NEW id, NEW row
  PROVE  /\ SeenIn(Written(rows, id, row), id) = row
         /\ \A x : x # id => SeenIn(Written(rows, id, row), x) = SeenIn(rows, x)
BY DEF SeenIn, Written

LEMMA MoreHeld ==
  ASSUME NEW j, NEW held, NEW rows, NEW final, NEW states,
         Follows(j, held, rows, final, states), NEW more, held \subseteq more
  PROVE  Follows(j, more, rows, final, states)
BY DEF Follows

LEMMA MoreFinal ==
  ASSUME NEW j, NEW held, NEW rows, NEW final, NEW states,
         Follows(j, held, rows, final, states),
         NEW id \in Ids, <<"incident", id>> \in held, SeenIn(rows, id) # Absent
  PROVE  Follows(j, held, rows, final \cup {id}, states)
BY DEF Follows

\* A row that keeps its key, or has none, leaves the owners as they were.
LEMMA WriteKept ==
  ASSUME NEW j, NEW held, NEW rows, NEW final, NEW states,
         Follows(j, held, rows, final, states), NEW n,
         NEW id \in Ids, <<"incident", id>> \in held, NEW row, Brings(j, n, rows, id, row),
         \/ row.key = NoKey
         \/ /\ SeenIn(rows, id) # Absent /\ row.key = SeenIn(rows, id).key
            /\ \/ row.key \in DOMAIN states
               \/ incident[id] # Absent /\ row.key = incident[id].key
  PROVE  Follows(j, held, Written(rows, id, row), final \cup {id}, states)
<1> DEFINE new == Written(rows, id, row)
<1>0. row # Absent
  BY DEF Brings, Holds
<1>1. DOMAIN new = DOMAIN rows \cup {id} /\ new[id] = row
      /\ \A x \in DOMAIN rows : x # id => new[x] = rows[x]
  BY DEF Written
<1>2. SeenIn(new, id) = row /\ \A x : x # id => SeenIn(new, x) = SeenIn(rows, x)
  BY SeenWritten
<1> HIDE DEF new
<1>3. \A x \in final \cup {id} : <<"incident", x>> \in held /\ SeenIn(new, x) # Absent
  BY <1>0, <1>2 DEF Follows
<1>4. RowFollows(j, states, id, row)
  BY DEF RowFollows, Brings
<1>5. \A x \in DOMAIN new : RowFollows(j, states, x, new[x])
  BY <1>1, <1>4 DEF Follows
<1>6. ASSUME NEW k \in DOMAIN states
      PROVE  StateFollows(new, k, states[k])
  <2>1. StateFollows(rows, k, states[k]) /\ k \in Keys
    BY DEF Follows
  <2>2. k # NoKey
    BY <2>1, ConstantsAssumption
  <2>3. OwnedBy(new, k) \subseteq OwnedBy(rows, k)
    BY <1>2, <2>2 DEF OwnedBy
  <2>4. states[k].generation \in Nat
    BY <2>1 DEF StateFollows, StateRow
  <2>5. AtMost(OwnedBy(rows, k) \cup {states[k].incident}, states[k].generation)
    BY <2>1 DEF StateFollows
  <2>6. AtMost(OwnedBy(new, k) \cup {states[k].incident}, states[k].generation)
    BY <2>3, <2>4, <2>5, AtMostSubset
  <2> QED BY <2>1, <2>6 DEF StateFollows
<1> QED BY <1>1, <1>3, <1>5, <1>6 DEF Follows, new

\* An incident that becomes, or stays, the current one of its key, together
\* with the correlation row.
LEMMA WriteKeyed ==
  ASSUME NEW j, NEW held, NEW rows, NEW final, NEW states,
         Follows(j, held, rows, final, states), NEW n,
         NEW id \in Ids, <<"incident", id>> \in held, NEW row, Brings(j, n, rows, id, row),
         NEW k \in Keys, <<"state", k>> \in held, row.key = k,
         NEW srow \in StateRow, srow.incident = id,
         state[k] # Absent => Advances(state[k], srow),
         AtMost(OwnedBy(rows, k) \cup {id}, srow.generation)
  PROVE  Follows(j, held, Written(rows, id, row), final \cup {id}, Written(states, k, srow))
<1> DEFINE new == Written(rows, id, row)
           news == Written(states, k, srow)
<1>0. row # Absent
  BY DEF Brings, Holds
<1>1. DOMAIN new = DOMAIN rows \cup {id} /\ new[id] = row
      /\ \A x \in DOMAIN rows : x # id => new[x] = rows[x]
  BY DEF Written
<1>2. SeenIn(new, id) = row /\ \A x : x # id => SeenIn(new, x) = SeenIn(rows, x)
  BY SeenWritten
<1>3. DOMAIN news = DOMAIN states \cup {k} /\ news[k] = srow
      /\ \A x \in DOMAIN states : x # k => news[x] = states[x]
  BY DEF Written
<1> HIDE DEF new, news
<1>4. \A x \in final \cup {id} : <<"incident", x>> \in held /\ SeenIn(new, x) # Absent
  BY <1>0, <1>2 DEF Follows
<1>5. \A x \in DOMAIN news : x \in Keys /\ <<"state", x>> \in held
  <2>1. \A x \in DOMAIN states : x \in Keys /\ <<"state", x>> \in held
    BY DEF Follows
  <2> QED BY <1>3, <2>1
<1>6. RowFollows(j, news, id, row)
  BY <1>3 DEF RowFollows, Brings
<1>7. \A x \in DOMAIN new : RowFollows(j, news, x, new[x])
  BY <1>1, <1>3, <1>6 DEF Follows, RowFollows
<1>8. OwnedBy(new, k) \subseteq OwnedBy(rows, k) \cup {id}
  BY <1>2 DEF OwnedBy
<1>9. StateFollows(new, k, srow)
  <2>1. OwnedBy(new, k) \cup {srow.incident} \subseteq OwnedBy(rows, k) \cup {id}
    BY <1>8
  <2>2. srow.generation \in Nat
    BY DEF StateRow
  <2>3. AtMost(OwnedBy(new, k) \cup {srow.incident}, srow.generation)
    BY <2>1, <2>2, AtMostSubset
  <2> QED BY <2>3 DEF StateFollows
<1>10. ASSUME NEW l \in DOMAIN states, l # k
       PROVE  StateFollows(new, l, states[l])
  <2>1. StateFollows(rows, l, states[l])
    BY DEF Follows
  <2>2. OwnedBy(new, l) \subseteq OwnedBy(rows, l)
    BY <1>2, <1>10 DEF OwnedBy
  <2>3. states[l].generation \in Nat
    BY <2>1 DEF StateFollows, StateRow
  <2>4. AtMost(OwnedBy(rows, l) \cup {states[l].incident}, states[l].generation)
    BY <2>1 DEF StateFollows
  <2>5. AtMost(OwnedBy(new, l) \cup {states[l].incident}, states[l].generation)
    BY <2>2, <2>3, <2>4, AtMostSubset
  <2> QED BY <2>1, <2>5 DEF StateFollows
<1>11. \A l \in DOMAIN news : StateFollows(new, l, news[l])
  BY <1>3, <1>9, <1>10
<1>12. DOMAIN new \subseteq final \cup {id} /\ final \cup {id} \subseteq Ids
  BY <1>1 DEF Follows
<1> QED BY <1>4, <1>5, <1>7, <1>11, <1>12 DEF Follows, new, news

\* The rows that _merge, _new_generation and the batch-local path write.
LEMMA RewriteBrings ==
  ASSUME TypeOK, NEW j \in Jobs, NEW held, NEW rows, NEW final, NEW states,
         Follows(j, held, rows, final, states), NEW id \in Ids, SeenIn(rows, id) # Absent,
         NEW n \in DOMAIN batch[j], NEW key, NEW new,
         RewrittenBy(SeenIn(rows, id), batch[j][n], j, key, new)
  PROVE  Brings(j, n, rows, id, new) /\ new.key = key
<1> DEFINE old == SeenIn(rows, id)
           b == batch[j][n]
<1>1. /\ old \in IncidentRow /\ old.events \cup old.context \subseteq event \cup JobEvents(j)
      /\ incident[id] # Absent => Extends(incident[id], old)
  BY SeenTyped
<1>2. b \in BundleType /\ b.events \cup b.context \subseteq JobEvents(j)
  BY BundlesTyped
<1>3. incident[id] # Absent => incident[id] \in IncidentRow
  BY DEF TypeOK
<1> HIDE DEF old, b
<1>r. RewrittenBy(old, b, j, key, new)
  BY DEF old, b
<1>4. /\ Gains(old, new) /\ j \in new.jobs /\ b.events \subseteq new.events
      /\ new.events \cup new.context \subseteq
           old.events \cup old.context \cup b.events \cup b.context
      /\ \A o \in IncidentRow : Extends(o, old) => Extends(o, new)
  BY <1>1, <1>2, <1>r, RewrittenExtends
<1>5. new \in IncidentRow /\ new.key = key /\ new # Absent
  BY <1>r, RowsAreRows DEF RewrittenBy
<1>6. new.events \cup new.context \subseteq event \cup JobEvents(j)
  BY <1>1, <1>2, <1>4
<1>7. incident[id] # Absent => Extends(incident[id], new)
  BY <1>1, <1>3, <1>4
<1>8. Holds(j, n, new)
  BY <1>4, <1>5 DEF Holds, b
<1> QED BY <1>4, <1>5, <1>6, <1>7, <1>8 DEF Brings, old

LEMMA FreshBrings ==
  ASSUME TypeOK, NEW j \in Jobs, NEW rows, NEW id \in Ids,
         SeenIn(rows, id) = Absent, incident[id] = Absent,
         NEW n \in DOMAIN batch[j], NEW key \in Keys \cup {NoKey}
  PROVE  LET new == Fresh(batch[j][n], j, key)
         IN  Brings(j, n, rows, id, new) /\ new.key = key
<1> DEFINE b == batch[j][n]
           new == Fresh(b, j, key)
<1>1. b \in BundleType /\ b.events \cup b.context \subseteq JobEvents(j)
  BY BundlesTyped
<1>2. /\ new \in IncidentRow
      /\ new.events = b.events /\ new.context = b.context /\ new.jobs = {j} /\ new.key = key
  BY <1>1, FreshIs
<1>3. new # Absent
  BY <1>2, RowsAreRows
<1> HIDE DEF new
<1>4. Holds(j, n, new)
  BY <1>2, <1>3 DEF Holds
<1>5. Brings(j, n, rows, id, new)
  BY <1>1, <1>2, <1>4 DEF Brings
<1> QED BY <1>2, <1>5 DEF new

\* What was covered stays so, and the bundle is covered now.
LEMMA StaysCovered ==
  ASSUME NEW j, NEW n, NEW rows, NEW id \in Ids, NEW row, Brings(j, n, rows, id, row)
  PROVE  /\ Covered(j, Written(rows, id, row), n)
         /\ \A m \in DOMAIN batch[j] : Covered(j, rows, m) => Covered(j, Written(rows, id, row), m)
<1> DEFINE new == Written(rows, id, row)
<1>1. SeenIn(new, id) = row /\ \A x : x # id => SeenIn(new, x) = SeenIn(rows, x)
  BY SeenWritten
<1> HIDE DEF new
<1>2. Covered(j, new, n)
  BY <1>1 DEF Covered, Brings
<1>3. ASSUME NEW m \in DOMAIN batch[j], Covered(j, rows, m)
      PROVE  Covered(j, new, m)
  <2>1. PICK x \in Ids : Holds(j, m, SeenIn(rows, x))
    BY <1>3 DEF Covered
  <2>2. CASE x = id
    <3>1. Holds(j, m, row)
      BY <2>1, <2>2 DEF Brings, Holds, Gains
    <3> QED BY <1>1, <3>1 DEF Covered
  <2>3. CASE x # id
    BY <1>1, <2>1, <2>3 DEF Covered
  <2> QED BY <2>2, <2>3
<1> QED BY <1>2, <1>3 DEF new

-----------------------------------------------------------------------------
(***************************************************************************)
(* Steps of a transaction.                                                 *)
(***************************************************************************)

\* A record that a statement may leave behind.
Proper(j, u) ==
    /\ TxnOK(j, u) /\ u.pc # "committed"
    /\ \A o \in Jobs \ {j} : u.held \cap txn[o].held = {}

Moves(j) == \E u : Step(j, u) /\ Proper(j, u)

LEMMA Opened ==
  ASSUME CorrelationInv, NEW j \in Jobs, txn[j].pc \notin Idle
  PROVE  /\ TypeOK /\ OwnersInv
         /\ IsTxn(txn[j]) /\ txn[j].pc \in Positions /\ OpenOK(j, txn[j])
BY DEF CorrelationInv, TxnsInv, TxnOK

\* What a transaction sees, in terms of the rows it has written.
LEMMA Views ==
  ASSUME NEW j
  PROVE  /\ \A id : IncidentSeen(j, id) = SeenIn(txn[j].incidents, id)
         /\ \A k : StateSeen(j, k) = StateIn(txn[j].states, k)
BY DEF IncidentSeen, SeenIn, StateSeen, StateIn

\* Locks that nobody else held.
LEMMA Disjoint ==
  ASSUME CorrelationInv, NEW j \in Jobs,
         \A o \in Jobs \ {j} : Needed(j) \cap txn[o].held = {}
  PROVE  /\ \A o \in Jobs \ {j} : txn[j].held \cap txn[o].held = {}
         /\ \A o \in Jobs \ {j} : (txn[j].held \cup Needed(j)) \cap txn[o].held = {}
BY DEF CorrelationInv, LocksExclude

LEMMA AppendIs ==
  ASSUME NEW S, NEW s \in Seq(S), NEW e \in S
  PROVE  /\ Append(s, e) \in Seq(S)
         /\ \A m : Listed(s, m) \/ m = e => Listed(Append(s, e), m)
<1>1. /\ Append(s, e) \in Seq(S) /\ DOMAIN s \subseteq DOMAIN Append(s, e)
      /\ Len(s) + 1 \in DOMAIN Append(s, e) /\ Append(s, e)[Len(s) + 1] = e
      /\ \A i \in DOMAIN s : Append(s, e)[i] = s[i]
  OBVIOUS
<1> QED BY <1>1 DEF Listed

LEMMA ClockTyped ==
  ASSUME TypeOK
  PROVE  now \in Nat
<1>1. MaxTime \in Nat /\ now \in 0 .. MaxTime
  BY ConstantsAssumption DEF TypeOK
<1> QED BY <1>1

LEMMA EndedIs ==
  ASSUME NEW pc
  PROVE  /\ IsTxn(Ended(pc)) /\ Ended(pc).pc = pc
         /\ Ended(pc).held = {} /\ Ended(pc).final = {} /\ Ended(pc).now = 0
         /\ Ended(pc).states = <<>> /\ Ended(pc).incidents = <<>> /\ Ended(pc).local = <<>>
BY DEF IsTxn, Ended

LEMMA EndedProper ==
  ASSUME NEW j \in Jobs
  PROVE  Proper(j, Ended("failed"))
BY EndedIs DEF Proper, TxnOK, Positions, Idle

\* After the last bundle: what is not covered is left to the batch-local path.
LEMMA NextLocalOK ==
  ASSUME TypeOK, NEW j \in Jobs, NEW t, IsTxn(t), t.now \in Nat,
         Follows(j, t.held, t.incidents, t.final, t.states),
         t.local \in Seq(DOMAIN batch[j]),
         \A n \in DOMAIN batch[j] : Covered(j, t.incidents, n) \/ Listed(t.local, n)
  PROVE  TxnOK(j, NextLocal(t)) /\ NextLocal(t).held = t.held /\ NextLocal(t).pc # "committed"
<1> DEFINE u == NextLocal(t)
<1>1. /\ IsTxn(u) /\ u.pc = IF t.local = <<>> THEN "finish" ELSE "local"
      /\ u.at = IF t.local = <<>> THEN 1 ELSE Head(t.local)
      /\ u.held = t.held /\ u.incidents = t.incidents /\ u.final = t.final
      /\ u.states = t.states /\ u.local = t.local /\ u.now = t.now
  <2> DEFINE at == IF t.local = <<>> THEN 1 ELSE Head(t.local)
             pc == IF t.local = <<>> THEN "finish" ELSE "local"
  <2>1. u = [t EXCEPT !.at = at, !.pc = pc]
    BY DEF NextLocal
  <2> HIDE DEF at, pc, u
  <2>2. /\ IsTxn(u) /\ u.pc = pc /\ u.at = at
        /\ u.held = t.held /\ u.incidents = t.incidents /\ u.final = t.final
        /\ u.states = t.states /\ u.local = t.local /\ u.now = t.now
    BY <2>1 DEF IsTxn
  <2> QED BY <2>2 DEF at, pc
<1> HIDE DEF u
<1>2. /\ u.pc \in {"finish", "local"}
      /\ u.pc \in Positions /\ u.pc \notin Idle /\ u.pc \notin Resolving /\ u.pc \notin Creating
      /\ u.pc \notin Following
  BY <1>1 DEF Positions, Idle, Resolving, Creating, Following
<1>3. HeldOf(u) = u.held /\ RowsOf(u) = u.incidents /\ FinalOf(u) = u.final
  BY <1>2 DEF HeldOf, RowsOf, FinalOf
<1>4. Placed(j, u)
  BY <1>1, <1>2 DEF Placed
<1>5. Accounted(j, u)
  BY <1>1, <1>3 DEF Accounted
<1>6. Creates(j, u) /\ FollowsRow(j, u)
  BY <1>2 DEF Creates, FollowsRow, Creating
<1> QED BY <1>1, <1>2, <1>3, <1>4, <1>5, <1>6 DEF TxnOK, OpenOK, u

\* On to bundle n.
LEMMA ResolveOK ==
  ASSUME TypeOK, NEW j \in Jobs, NEW t, IsTxn(t), t.now \in Nat,
         Follows(j, t.held, t.incidents, t.final, t.states),
         t.local \in Seq(DOMAIN batch[j]), NEW n \in Nat \ {0},
         \A m \in DOMAIN batch[j] :
            Covered(j, t.incidents, m) \/ Listed(t.local, m) \/ m >= n
  PROVE  /\ TxnOK(j, Resolve(t, j, n)) /\ Resolve(t, j, n).held = t.held
         /\ Resolve(t, j, n).pc # "committed"
<1>0. batch[j] \in Seq(BundleType) /\ DOMAIN batch[j] = 1 .. Len(batch[j]) /\ Len(batch[j]) \in Nat
  BY BundlesTyped
<1>1. CASE n > Len(batch[j])
  <2>1. \A m \in DOMAIN batch[j] : Covered(j, t.incidents, m) \/ Listed(t.local, m)
    BY <1>0, <1>1
  <2>2. Resolve(t, j, n) = NextLocal(t)
    BY <1>1 DEF Resolve
  <2> QED BY <2>1, <2>2, NextLocalOK
<1>2. CASE ~ (n > Len(batch[j]))
  <2> DEFINE u == Resolve(t, j, n)
  <2>1. /\ IsTxn(u) /\ u.pc = "resolve" /\ u.at = n /\ u.now = now
        /\ u.held = t.held /\ u.incidents = t.incidents /\ u.final = t.final
        /\ u.states = t.states /\ u.local = t.local
    BY <1>2 DEF IsTxn, Resolve
  <2> HIDE DEF u
  <2>2. /\ u.pc \in Positions /\ u.pc \notin Idle /\ u.pc \in Resolving
        /\ u.pc \notin Creating /\ u.pc \notin Following
    BY <2>1 DEF Positions, Idle, Resolving, Creating, Following
  <2>3. HeldOf(u) = u.held /\ RowsOf(u) = u.incidents /\ FinalOf(u) = u.final
    BY <2>2 DEF HeldOf, RowsOf, FinalOf
  <2>4. now \in Nat
    BY ClockTyped
  <2>5. n \in DOMAIN batch[j]
    BY <1>0, <1>2
  <2>6. Placed(j, u)
    BY <2>1, <2>4, <2>5 DEF Placed
  <2>7. Accounted(j, u)
    BY <2>1, <2>2, <2>3 DEF Accounted
  <2>8. Creates(j, u) /\ FollowsRow(j, u)
    BY <2>1, <2>2 DEF Creates, FollowsRow, Creating
  <2> QED BY <2>1, <2>2, <2>3, <2>6, <2>7, <2>8 DEF TxnOK, OpenOK, u
<1> QED BY <1>1, <1>2

\* What the statements that resolve a bundle rely on.
LEMMA OnBundle ==
  ASSUME CorrelationInv, NEW j \in Jobs, NEW t, t = txn[j], t.pc \in Resolving
  PROVE  /\ TypeOK /\ OwnersInv /\ IsTxn(t) /\ t.pc \notin Idle
         /\ Follows(j, HeldOf(t), RowsOf(t), FinalOf(t), t.states)
         /\ Placed(j, t) /\ Accounted(j, t) /\ Creates(j, t) /\ FollowsRow(j, t)
         /\ t.at \in DOMAIN batch[j] /\ t.at \in Nat \ {0} /\ t.at + 1 \in Nat \ {0}
         /\ t.now \in Nat /\ t.local \in Seq(DOMAIN batch[j])
         /\ batch[j][t.at] \in BundleType /\ Bundle(j) = batch[j][t.at]
         /\ \A m \in DOMAIN batch[j] :
              \/ Covered(j, RowsOf(t), m) \/ Listed(t.local, m) \/ m = t.at \/ m >= t.at + 1
<1>1. t.pc \notin Idle /\ t.pc \notin {"events", "insert_events"}
  BY DEF Resolving, Creating, Following, Idle
<1>2. TypeOK /\ OwnersInv /\ IsTxn(t) /\ OpenOK(j, t)
  BY <1>1, Opened
<1>3. /\ Follows(j, HeldOf(t), RowsOf(t), FinalOf(t), t.states)
      /\ Placed(j, t) /\ Accounted(j, t) /\ Creates(j, t) /\ FollowsRow(j, t)
  BY <1>2 DEF OpenOK
<1>4. t.at \in DOMAIN batch[j] /\ t.now \in Nat /\ t.local \in Seq(DOMAIN batch[j])
  BY <1>3 DEF Placed
<1>5. batch[j] \in Seq(BundleType) /\ batch[j][t.at] \in BundleType
  BY <1>2, <1>4, BundlesTyped
<1>6. DOMAIN batch[j] \subseteq Nat \ {0}
  BY <1>5
<1>7. \A m \in DOMAIN batch[j] :
         Covered(j, RowsOf(t), m) \/ Listed(t.local, m) \/ m >= t.at
  BY <1>1, <1>3 DEF Accounted
<1>8. \A m \in DOMAIN batch[j] :
         Covered(j, RowsOf(t), m) \/ Listed(t.local, m) \/ m = t.at \/ m >= t.at + 1
  BY <1>4, <1>6, <1>7
<1>9. t.at \in Nat \ {0} /\ t.at + 1 \in Nat \ {0}
  BY <1>4, <1>6
<1> QED BY <1>1, <1>2, <1>3, <1>4, <1>5, <1>8, <1>9 DEF Bundle

\* Outside the savepoint.
LEMMA NoSavepoint ==
  ASSUME NEW t, t.pc \notin Creating
  PROVE  HeldOf(t) = t.held /\ RowsOf(t) = t.incidents /\ FinalOf(t) = t.final
BY DEF HeldOf, RowsOf, FinalOf

LEMMA BeginMoves ==
  ASSUME CorrelationInv, NEW j \in Jobs, Begin(j)
  PROVE  Moves(j)
<1> DEFINE u == [txn[j] EXCEPT !.pc = "events"]
<1>1. txn[j] = Ended("idle") /\ TypeOK
  BY DEF CorrelationInv, TxnsInv, TxnOK, Begin, Idle
<1>2. /\ IsTxn(u) /\ u.pc = "events" /\ u.held = {} /\ u.final = {} /\ u.now = 0
      /\ u.states = <<>> /\ u.incidents = <<>> /\ u.local = <<>>
  BY <1>1, EndedIs DEF IsTxn
<1>3. Step(j, u)
  BY DEF Begin
<1> HIDE DEF u
<1>4. /\ u.pc \in Positions /\ u.pc \notin Idle /\ u.pc \notin Resolving
      /\ u.pc \notin Creating /\ u.pc \notin Following
  BY <1>2 DEF Positions, Idle, Resolving, Creating, Following
<1>5. Follows(j, HeldOf(u), RowsOf(u), FinalOf(u), u.states)
  BY <1>2, <1>4, NoSavepoint, NoRows DEF Follows
<1>6. Placed(j, u) /\ Accounted(j, u)
  BY <1>2, <1>4 DEF Placed, Accounted
<1>7. Creates(j, u) /\ FollowsRow(j, u)
  BY <1>2, <1>4 DEF Creates, FollowsRow, Creating
<1>8. TxnOK(j, u)
  BY <1>2, <1>4, <1>5, <1>6, <1>7 DEF TxnOK, OpenOK
<1> QED BY <1>2, <1>3, <1>8 DEF Moves, Proper

LEMMA HoldIs ==
  ASSUME NEW j, NEW t, IsTxn(t)
  PROVE  LET u == Hold(t, j)
         IN  /\ IsTxn(u) /\ u.held = t.held \cup Needed(j)
             /\ u.pc = t.pc /\ u.at = t.at /\ u.now = t.now /\ u.found = t.found
             /\ u.target = t.target /\ u.row = t.row /\ u.states = t.states
             /\ u.incidents = t.incidents /\ u.saved = t.saved /\ u.final = t.final
             /\ u.local = t.local
BY DEF IsTxn, Hold

LEMMA LockEventsMoves ==
  ASSUME CorrelationInv, NEW j \in Jobs, LockEvents(j)
  PROVE  Moves(j)
<1> DEFINE t == txn[j]
           h == Hold(t, j)
           found == JobEvents(j) \cap event
           u == [h EXCEPT !.found = found, !.pc = "insert_events"]
<1>0. t.pc = "events" /\ \A o \in Jobs \ {j} : Needed(j) \cap txn[o].held = {}
  BY DEF LockEvents, Granted
<1>1. t.pc \notin Idle /\ t.pc \notin Creating
  BY <1>0 DEF Idle, Creating
<1>2. IsTxn(t) /\ OpenOK(j, t)
  BY <1>1, Opened
<1>3. Step(j, u)
  BY DEF LockEvents
<1> HIDE DEF t
<1>4. /\ IsTxn(h) /\ h.held = t.held \cup Needed(j) /\ h.final = t.final /\ h.now = t.now
      /\ h.states = t.states /\ h.incidents = t.incidents /\ h.local = t.local
  BY <1>2, HoldIs
<1> HIDE DEF h, found
<1>u. u = [h EXCEPT !.found = found, !.pc = "insert_events"]
  OBVIOUS
<1> HIDE DEF u
<1>5. /\ IsTxn(u) /\ u.pc = "insert_events" /\ u.held = h.held /\ u.final = h.final
      /\ u.now = h.now /\ u.states = h.states /\ u.incidents = h.incidents /\ u.local = h.local
  BY <1>4, <1>u DEF IsTxn
<1>6. /\ u.pc \in Positions /\ u.pc \notin Idle /\ u.pc \notin Resolving
      /\ u.pc \notin Creating /\ u.pc \notin Following
  BY <1>5 DEF Positions, Idle, Resolving, Creating, Following
<1>7. Follows(j, HeldOf(u), RowsOf(u), FinalOf(u), u.states)
  <2>1. Follows(j, t.held, t.incidents, t.final, t.states)
    BY <1>1, <1>2, NoSavepoint DEF OpenOK
  <2>2. Follows(j, u.held, t.incidents, t.final, t.states)
    BY <1>4, <1>5, <2>1, MoreHeld
  <2> QED BY <1>4, <1>5, <1>6, <2>2, NoSavepoint
<1>8. Placed(j, u) /\ Accounted(j, u)
  BY <1>2, <1>4, <1>5, <1>6 DEF OpenOK, Placed, Accounted
<1>9. Creates(j, u) /\ FollowsRow(j, u)
  BY <1>5, <1>6 DEF Creates, FollowsRow, Creating
<1>10. TxnOK(j, u)
  BY <1>5, <1>6, <1>7, <1>8, <1>9 DEF TxnOK, OpenOK
<1>11. \A o \in Jobs \ {j} : u.held \cap txn[o].held = {}
  BY <1>0, <1>4, <1>5, Disjoint DEF t
<1> QED BY <1>3, <1>5, <1>10, <1>11 DEF Moves, Proper

LEMMA InsertEventsMoves ==
  ASSUME CorrelationInv, NEW j \in Jobs, InsertEvents(j)
  PROVE  Moves(j)
<1> DEFINE t == txn[j]
           h == Hold(t, j)
           u == Resolve(h, j, 1)
<1>0. t.pc = "insert_events" /\ \A o \in Jobs \ {j} : Needed(j) \cap txn[o].held = {}
  BY DEF InsertEvents, Granted
<1>1. t.pc \notin Idle /\ t.pc \notin Creating
  BY <1>0 DEF Idle, Creating
<1>2. TypeOK /\ IsTxn(t) /\ OpenOK(j, t)
  BY <1>1, Opened
<1>3. Step(j, Ended("failed")) \/ Step(j, u)
  BY DEF InsertEvents
<1> HIDE DEF t
<1>4. /\ IsTxn(h) /\ h.held = t.held \cup Needed(j) /\ h.final = t.final /\ h.now = t.now
      /\ h.states = t.states /\ h.incidents = t.incidents /\ h.local = t.local
  BY <1>2, HoldIs
<1>5. Follows(j, t.held, t.incidents, t.final, t.states)
  BY <1>1, <1>2, NoSavepoint DEF OpenOK
<1>6. Follows(j, h.held, h.incidents, h.final, h.states)
  BY <1>4, <1>5, MoreHeld
<1>7. h.now \in Nat /\ h.local \in Seq(DOMAIN batch[j])
  BY <1>2, <1>4 DEF OpenOK, Placed
<1>8. \A m \in DOMAIN batch[j] : m >= 1
  BY <1>2, BundlesTyped
<1> HIDE DEF h
<1>a. 1 \in Nat \ {0}
  OBVIOUS
<1>9. TxnOK(j, u) /\ u.held = h.held /\ u.pc # "committed"
  BY <1>2, <1>4, <1>6, <1>7, <1>8, <1>a, ResolveOK
<1>10. \A o \in Jobs \ {j} : h.held \cap txn[o].held = {}
  BY <1>0, <1>4, Disjoint DEF t
<1> HIDE DEF u
<1>11. Proper(j, u)
  BY <1>9, <1>10 DEF Proper
<1> QED BY <1>3, <1>11, EndedProper DEF Moves

\* The bundle is left to the batch-local path.
LEMMA LeftOK ==
  ASSUME CorrelationInv, NEW j \in Jobs, NEW t, t = txn[j], t.pc \in Resolving \ Creating,
         NEW w, IsTxn(w), t.held \subseteq w.held, w.final = t.final, w.now = t.now,
         w.states = t.states, w.incidents = t.incidents, w.local = Append(t.local, t.at)
  PROVE  LET u == Resolve(w, j, t.at + 1)
         IN  TxnOK(j, u) /\ u.held = w.held /\ u.pc # "committed"
<1>1. /\ TypeOK /\ IsTxn(t) /\ t.at \in DOMAIN batch[j] /\ t.at + 1 \in Nat \ {0}
      /\ t.now \in Nat /\ t.local \in Seq(DOMAIN batch[j])
      /\ \A m \in DOMAIN batch[j] :
            \/ Covered(j, RowsOf(t), m) \/ Listed(t.local, m) \/ m = t.at \/ m >= t.at + 1
      /\ Follows(j, HeldOf(t), RowsOf(t), FinalOf(t), t.states)
  BY OnBundle
<1>2. Follows(j, t.held, t.incidents, t.final, t.states) /\ RowsOf(t) = t.incidents
  BY <1>1, NoSavepoint
<1>3. Follows(j, w.held, w.incidents, w.final, w.states)
  BY <1>2, MoreHeld
<1>4. /\ w.local \in Seq(DOMAIN batch[j])
      /\ \A m : Listed(t.local, m) \/ m = t.at => Listed(w.local, m)
  <2> DEFINE S == DOMAIN batch[j]
             s == t.local
             e == t.at
  <2>1. s \in Seq(S) /\ e \in S /\ w.local = Append(s, e)
    BY <1>1
  <2> HIDE DEF S, s, e
  <2>2. Append(s, e) \in Seq(S) /\ \A m : Listed(s, m) \/ m = e => Listed(Append(s, e), m)
    BY <2>1, AppendIs
  <2> QED BY <2>1, <2>2 DEF S, s, e
<1>5. \A m \in DOMAIN batch[j] : Covered(j, w.incidents, m) \/ Listed(w.local, m) \/ m >= t.at + 1
  BY <1>1, <1>2, <1>4
<1> QED BY <1>1, <1>3, <1>4, <1>5, ResolveOK

LEMMA DeriveMoves ==
  ASSUME CorrelationInv, NEW j \in Jobs, Derive(j)
  PROVE  Moves(j)
<1> DEFINE t == txn[j]
<1>0. t.pc = "resolve"
  BY DEF Derive
<1>1. t.pc \in Resolving \ Creating
  BY <1>0 DEF Resolving, Creating
<1>2. /\ TypeOK /\ IsTxn(t) /\ Bundle(j) = batch[j][t.at] /\ batch[j][t.at] \in BundleType
      /\ t.at \in DOMAIN batch[j] /\ Placed(j, t) /\ Accounted(j, t)
      /\ Follows(j, HeldOf(t), RowsOf(t), FinalOf(t), t.states)
  BY <1>1, OnBundle
<1>3. \A o \in Jobs \ {j} : t.held \cap txn[o].held = {}
  BY DEF CorrelationInv, LocksExclude
<1>4. CASE Bundle(j).key = NoKey
  <2> DEFINE w == [t EXCEPT !.local = Append(@, t.at)]
             u == Resolve(w, j, t.at + 1)
  <2>1. Step(j, u)
    BY <1>4 DEF Derive
  <2> HIDE DEF t
  <2>2. t = txn[j]
    BY DEF t
  <2>w. w = [t EXCEPT !.local = Append(@, t.at)]
    OBVIOUS
  <2> HIDE DEF w
  <2>3. /\ IsTxn(w) /\ w.held = t.held /\ w.final = t.final /\ w.now = t.now
        /\ w.states = t.states /\ w.incidents = t.incidents /\ w.local = Append(t.local, t.at)
    BY <1>2, <2>w DEF IsTxn
  <2>4. TxnOK(j, u) /\ u.held = t.held /\ u.pc # "committed"
    BY <1>1, <2>2, <2>3, LeftOK
  <2> HIDE DEF u
  <2> QED BY <1>3, <2>1, <2>2, <2>4 DEF Moves, Proper
<1>5. CASE Bundle(j).key # NoKey
  <2> DEFINE u == [t EXCEPT !.pc = "state"]
  <2>1. Step(j, u)
    BY <1>5 DEF Derive
  <2> HIDE DEF t
  <2>2. /\ IsTxn(u) /\ u.pc = "state" /\ u.held = t.held /\ u.incidents = t.incidents
        /\ u.final = t.final /\ u.states = t.states /\ u.local = t.local /\ u.at = t.at
        /\ u.now = t.now
    BY <1>2 DEF IsTxn
  <2> HIDE DEF u
  <2>3. /\ u.pc \in Positions /\ u.pc \notin Idle /\ u.pc \in Resolving
        /\ u.pc \notin Creating /\ u.pc \notin Following
    BY <2>2 DEF Positions, Idle, Resolving, Creating, Following
  <2>4. batch[j][u.at].key \in Keys
    BY <1>2, <1>5, <2>2 DEF BundleType
  <2>5. Follows(j, HeldOf(u), RowsOf(u), FinalOf(u), u.states) /\ RowsOf(u) = RowsOf(t)
    BY <1>1, <1>2, <2>2, <2>3, NoSavepoint
  <2>6. Placed(j, u)
    BY <1>1, <1>2, <2>2, <2>3, <2>4 DEF Placed
  <2>7. Accounted(j, u)
    BY <1>0, <1>2, <2>2, <2>3, <2>5 DEF Accounted
  <2>8. Creates(j, u) /\ FollowsRow(j, u)
    BY <2>2, <2>3 DEF Creates, FollowsRow, Creating
  <2>9. TxnOK(j, u)
    BY <2>2, <2>3, <2>5, <2>6, <2>7, <2>8 DEF TxnOK, OpenOK
  <2> QED BY <1>3, <2>1, <2>2, <2>9 DEF Moves, Proper, t
<1> QED BY <1>4, <1>5

\* The correlation row is locked: its incident is next.
LEMMA RowLocked ==
  ASSUME CorrelationInv, NEW j \in Jobs, NEW t, t = txn[j], t.pc \in {"state", "reread"},
         \A o \in Jobs \ {j} : Needed(j) \cap txn[o].held = {},
         NEW row, row = StateSeen(j, Bundle(j).key), row # Absent,
         NEW u, u = [Hold(t, j) EXCEPT !.row = row, !.target = row.incident, !.pc = "incident"]
  PROVE  Proper(j, u)
<1> DEFINE k == batch[j][t.at].key
           h == Hold(t, j)
<1>1. t.pc \in Resolving /\ t.pc \notin Creating /\ t.pc # "resolve" /\ t.pc \notin Following
  BY DEF Resolving, Creating, Following
<1>2. /\ TypeOK /\ IsTxn(t) /\ Bundle(j) = batch[j][t.at]
      /\ t.at \in DOMAIN batch[j] /\ Placed(j, t) /\ Accounted(j, t)
      /\ Follows(j, HeldOf(t), RowsOf(t), FinalOf(t), t.states)
  BY <1>1, OnBundle
<1>3. k \in Keys
  BY <1>1, <1>2 DEF Placed
<1>4. row = StateIn(t.states, k)
  BY <1>2, Views
<1>5. Follows(j, t.held, t.incidents, t.final, t.states)
  BY <1>1, <1>2, NoSavepoint
<1>6. row \in StateRow /\ row.incident \in Ids
  <2> HIDE DEF k
  <2>1. TypeOK /\ StateIn(t.states, k) # Absent
    BY <1>2, <1>4
  <2> QED BY <1>3, <1>4, <1>5, <2>1, StateSeenTyped
<1>7. Needed(j) = {<<"state", k>>}
  BY <1>2 DEF Needed, LockOf
<1>8. /\ IsTxn(h) /\ h.held = t.held \cup Needed(j) /\ h.final = t.final /\ h.now = t.now
      /\ h.states = t.states /\ h.incidents = t.incidents /\ h.local = t.local /\ h.at = t.at
  BY <1>2, HoldIs
<1> HIDE DEF h, k
<1>9. u = [h EXCEPT !.row = row, !.target = row.incident, !.pc = "incident"]
  BY DEF h
<1>10. /\ IsTxn(u) /\ u.pc = "incident" /\ u.row = row /\ u.target = row.incident
       /\ u.held = h.held /\ u.final = h.final /\ u.now = h.now /\ u.states = h.states
       /\ u.incidents = h.incidents /\ u.local = h.local /\ u.at = h.at
  BY <1>8, <1>9 DEF IsTxn
<1>11. /\ u.pc \in Positions /\ u.pc \notin Idle /\ u.pc \in Resolving /\ u.pc \in Following
       /\ u.pc \notin Creating
  BY <1>10 DEF Positions, Idle, Resolving, Creating, Following
<1>12. Follows(j, HeldOf(u), RowsOf(u), FinalOf(u), u.states) /\ RowsOf(u) = t.incidents
  <2>1. HeldOf(u) = h.held /\ RowsOf(u) = t.incidents /\ FinalOf(u) = t.final /\ u.states = t.states
    BY <1>8, <1>10, <1>11, NoSavepoint
  <2>2. Follows(j, h.held, t.incidents, t.final, t.states)
    BY <1>5, <1>8, MoreHeld
  <2> QED BY <2>1, <2>2
<1>13. batch[j][u.at].key = k /\ u.at = t.at /\ u.local = t.local /\ u.now = t.now
  BY <1>8, <1>10 DEF k
<1>14. Placed(j, u)
  BY <1>1, <1>2, <1>3, <1>10, <1>11, <1>13 DEF Placed
<1>15. Accounted(j, u)
  BY <1>1, <1>2, <1>10, <1>11, <1>12, <1>13, NoSavepoint DEF Accounted
<1>16. Creates(j, u)
  BY <1>10, <1>11 DEF Creates, Creating
<1>17. FollowsRow(j, u)
  BY <1>4, <1>6, <1>7, <1>8, <1>10, <1>13 DEF FollowsRow
<1>18. \A o \in Jobs \ {j} : u.held \cap txn[o].held = {}
  BY <1>8, <1>10, Disjoint
<1> QED BY <1>10, <1>11, <1>12, <1>14, <1>15, <1>16, <1>17, <1>18 DEF Proper, TxnOK, OpenOK

LEMMA LockStateMoves ==
  ASSUME CorrelationInv, NEW j \in Jobs, LockState(j)
  PROVE  Moves(j)
<1> DEFINE t == txn[j]
           row == StateSeen(j, Bundle(j).key)
<1>0. t.pc = "state" /\ \A o \in Jobs \ {j} : Needed(j) \cap txn[o].held = {}
  BY DEF LockState, Granted
<1>1. t.pc \in Resolving /\ t.pc \notin Creating /\ t.pc # "resolve" /\ t.pc # "preexisting"
  BY <1>0 DEF Resolving, Creating
<1>2. /\ TypeOK /\ IsTxn(t) /\ Bundle(j) = batch[j][t.at]
      /\ t.at \in DOMAIN batch[j] /\ Placed(j, t) /\ Accounted(j, t)
      /\ Follows(j, HeldOf(t), RowsOf(t), FinalOf(t), t.states)
  BY <1>1, OnBundle
<1>3. CASE row # Absent
  <2> DEFINE u == [Hold(t, j) EXCEPT !.row = row, !.target = row.incident, !.pc = "incident"]
  <2>1. Step(j, u)
    BY <1>3 DEF LockState
  <2>u. u = [Hold(t, j) EXCEPT !.row = row, !.target = row.incident, !.pc = "incident"]
    OBVIOUS
  <2>t. t = txn[j] /\ t.pc \in {"state", "reread"} /\ row = StateSeen(j, Bundle(j).key)
    BY <1>0
  <2> HIDE DEF t, row, u
  <2>2. Proper(j, u)
    BY <1>0, <1>3, <2>u, <2>t, RowLocked
  <2> QED BY <2>1, <2>2 DEF Moves
<1>4. CASE row = Absent
  <2> DEFINE u == [t EXCEPT !.pc = "preexisting"]
  <2>1. Step(j, u)
    BY <1>4 DEF LockState
  <2>a. \A o \in Jobs \ {j} : t.held \cap txn[o].held = {}
    BY <1>0, Disjoint
  <2>b. row = StateIn(t.states, batch[j][t.at].key)
    BY <1>2, Views
  <2> HIDE DEF t, row
  <2>2. /\ IsTxn(u) /\ u.pc = "preexisting" /\ u.held = t.held /\ u.incidents = t.incidents
        /\ u.final = t.final /\ u.states = t.states /\ u.local = t.local /\ u.at = t.at
        /\ u.now = t.now
    BY <1>2 DEF IsTxn
  <2> HIDE DEF u
  <2>3. /\ u.pc \in Positions /\ u.pc \notin Idle /\ u.pc \in Resolving
        /\ u.pc \notin Creating /\ u.pc \notin Following
    BY <2>2 DEF Positions, Idle, Resolving, Creating, Following
  <2>4. Follows(j, HeldOf(u), RowsOf(u), FinalOf(u), u.states) /\ RowsOf(u) = RowsOf(t)
    BY <1>1, <1>2, <2>2, <2>3, NoSavepoint
  <2>5. Placed(j, u)
    BY <1>1, <1>2, <2>2, <2>3 DEF Placed
  <2>6. Accounted(j, u)
    BY <1>0, <1>2, <2>2, <2>3, <2>4 DEF Accounted
  <2>7. batch[j][u.at].key \notin DOMAIN u.states
    <3>1. \A k \in DOMAIN t.states : t.states[k] # Absent
      BY <1>2, RowsAreRows DEF Follows, StateFollows
    <3> QED BY <1>4, <2>b, <2>2, <3>1 DEF StateIn
  <2>8. Creates(j, u) /\ FollowsRow(j, u)
    BY <2>2, <2>3, <2>7 DEF Creates, FollowsRow, Creating
  <2>9. TxnOK(j, u)
    BY <2>2, <2>3, <2>4, <2>5, <2>6, <2>8 DEF TxnOK, OpenOK
  <2> QED BY <2>1, <2>2, <2>9, <2>a DEF Moves, Proper
<1> QED BY <1>3, <1>4

LEMMA RereadStateMoves ==
  ASSUME CorrelationInv, NEW j \in Jobs, RereadState(j)
  PROVE  Moves(j)
<1> DEFINE t == txn[j]
           row == StateSeen(j, Bundle(j).key)
           u == [Hold(t, j) EXCEPT !.row = row, !.target = row.incident, !.pc = "incident"]
<1>0. t.pc = "reread" /\ \A o \in Jobs \ {j} : Needed(j) \cap txn[o].held = {}
  BY DEF RereadState, Granted
<1>1. row = Absent => Step(j, Ended("failed"))
  BY DEF RereadState
<1>r. row # Absent => Step(j, u)
  BY DEF RereadState
<1>u. u = [Hold(t, j) EXCEPT !.row = row, !.target = row.incident, !.pc = "incident"]
  OBVIOUS
<1>t. t = txn[j] /\ t.pc \in {"state", "reread"} /\ row = StateSeen(j, Bundle(j).key)
  BY <1>0
<1> HIDE DEF t, row, u
<1>2. row # Absent => Proper(j, u)
  BY <1>0, <1>u, <1>t, RowLocked
<1> QED BY <1>1, <1>2, <1>r, EndedProper DEF Moves

LEMMA LockPreexistingMoves ==
  ASSUME CorrelationInv, NEW j \in Jobs, LockPreexisting(j)
  PROVE  Moves(j)
<1> DEFINE t == txn[j]
           b == Bundle(j)
           other == \E k \in Keys : /\ StateSeen(j, k) # Absent
                                    /\ StateSeen(j, k).incident = b.id
                                    /\ KeyVersion[k] # KeyVersion[b.key]
           h == Hold(t, j)
           target == IF IncidentSeen(j, b.id) # Absent /\ other
                     THEN Scoped[b.id, KeyVersion[b.key]] ELSE b.id
           saved == [held |-> h.held, incidents |-> h.incidents, final |-> h.final]
           u == [h EXCEPT !.target = target, !.saved = saved, !.pc = "target"]
<1>0. t.pc = "preexisting" /\ \A o \in Jobs \ {j} : Needed(j) \cap txn[o].held = {}
  BY DEF LockPreexisting, Granted
<1>1. t.pc \in Resolving /\ t.pc \notin Creating /\ t.pc # "resolve"
  BY <1>0 DEF Resolving, Creating
<1>2. /\ TypeOK /\ IsTxn(t) /\ b = batch[j][t.at] /\ b \in BundleType
      /\ t.at \in DOMAIN batch[j] /\ Placed(j, t) /\ Accounted(j, t) /\ Creates(j, t)
      /\ Follows(j, HeldOf(t), RowsOf(t), FinalOf(t), t.states)
  BY <1>1, OnBundle
<1>3. Step(j, u)
  BY DEF LockPreexisting
<1>a. \A o \in Jobs \ {j} : (t.held \cup Needed(j)) \cap txn[o].held = {}
  BY <1>0, Disjoint
<1>4. b.key \in Keys /\ b.id \in Ids
  BY <1>1, <1>2 DEF Placed, BundleType
<1>5. target \in Ids
  BY <1>4, ConstantsAssumption
<1>6. saved.held = h.held /\ saved.incidents = h.incidents /\ saved.final = h.final
  OBVIOUS
<1> HIDE DEF t, b, other, target
<1>7. /\ IsTxn(h) /\ h.held = t.held \cup Needed(j) /\ h.final = t.final /\ h.now = t.now
      /\ h.states = t.states /\ h.incidents = t.incidents /\ h.local = t.local /\ h.at = t.at
  BY <1>2, HoldIs
<1> HIDE DEF h, saved
<1>8. u = [h EXCEPT !.target = target, !.saved = saved, !.pc = "target"]
  OBVIOUS
<1> HIDE DEF u
<1>9. /\ IsTxn(u) /\ u.pc = "target" /\ u.target = target /\ u.saved = saved
      /\ u.held = h.held /\ u.final = h.final /\ u.now = h.now /\ u.states = h.states
      /\ u.incidents = h.incidents /\ u.local = h.local /\ u.at = h.at
  BY <1>7, <1>8 DEF IsTxn
<1>10. /\ u.pc \in Positions /\ u.pc \notin Idle /\ u.pc \in Resolving
       /\ u.pc \in Creating /\ u.pc \notin Following
  BY <1>9 DEF Positions, Idle, Resolving, Creating, Following
<1>11. HeldOf(u) = h.held /\ RowsOf(u) = t.incidents /\ FinalOf(u) = t.final
  BY <1>6, <1>7, <1>9, <1>10 DEF HeldOf, RowsOf, FinalOf
<1>12. Follows(j, HeldOf(u), RowsOf(u), FinalOf(u), u.states)
  BY <1>1, <1>2, <1>7, <1>9, <1>11, NoSavepoint, MoreHeld
<1>13. u.at = t.at /\ u.local = t.local /\ u.now = t.now /\ u.states = t.states
  BY <1>7, <1>9
<1>14. Placed(j, u)
  BY <1>1, <1>2, <1>4, <1>9, <1>10, <1>13 DEF Placed
<1>15. Accounted(j, u)
  BY <1>0, <1>1, <1>2, <1>9, <1>10, <1>11, <1>13, NoSavepoint DEF Accounted
<1>16. Creates(j, u)
  BY <1>0, <1>2, <1>5, <1>6, <1>7, <1>9, <1>13 DEF Creates
<1>17. FollowsRow(j, u)
  BY <1>9, <1>10 DEF FollowsRow
<1> QED BY <1>3, <1>7, <1>9, <1>10, <1>12, <1>14, <1>15, <1>16, <1>17, <1>a
        DEF Moves, Proper, TxnOK, OpenOK

LEMMA WroteIs ==
  ASSUME NEW t, IsTxn(t), NEW id, NEW row
  PROVE  LET u == Wrote(t, id, row)
         IN  /\ IsTxn(u) /\ u.incidents = Written(t.incidents, id, row)
             /\ u.final = t.final \cup {id} /\ u.held = t.held
             /\ u.pc = t.pc /\ u.at = t.at /\ u.now = t.now /\ u.found = t.found
             /\ u.target = t.target /\ u.row = t.row /\ u.states = t.states
             /\ u.saved = t.saved /\ u.local = t.local
<1> DEFINE rows == Written(t.incidents, id, row)
           final == t.final \cup {id}
           u == Wrote(t, id, row)
<1>1. u = [t EXCEPT !.incidents = rows, !.final = final]
  BY DEF Wrote
<1> HIDE DEF rows, final, u
<1>2. /\ IsTxn(u) /\ u.incidents = rows
      /\ u.final = final /\ u.held = t.held
      /\ u.pc = t.pc /\ u.at = t.at /\ u.now = t.now /\ u.found = t.found
      /\ u.target = t.target /\ u.row = t.row /\ u.states = t.states
      /\ u.saved = t.saved /\ u.local = t.local
  BY <1>1 DEF IsTxn
<1> QED BY <1>2 DEF rows, final, u

\* The incident of _try_create is written.
LEMMA TargetWritten ==
  ASSUME CorrelationInv, NEW j \in Jobs, NEW t, t = txn[j], t.pc \in {"target", "insert"},
         \A o \in Jobs \ {j} : Needed(j) \cap txn[o].held = {},
         Needed(j) = {<<"incident", t.target>>},
         NEW row, Brings(j, t.at, t.incidents, t.target, row), row.key = batch[j][t.at].key,
         NEW u, u = [Wrote(Hold(t, j), t.target, row) EXCEPT !.pc = "insert_state"]
  PROVE  Proper(j, u)
<1> DEFINE h == Hold(t, j)
           w == Wrote(h, t.target, row)
<1>1. t.pc \in Resolving /\ t.pc \in Creating /\ t.pc # "resolve"
  BY DEF Resolving, Creating
<1>2. /\ TypeOK /\ IsTxn(t) /\ t.at \in DOMAIN batch[j]
      /\ Placed(j, t) /\ Accounted(j, t) /\ Creates(j, t)
      /\ Follows(j, HeldOf(t), RowsOf(t), FinalOf(t), t.states)
  BY <1>1, OnBundle
<1>3. /\ IsTxn(h) /\ h.held = t.held \cup Needed(j) /\ h.final = t.final /\ h.now = t.now
      /\ h.states = t.states /\ h.incidents = t.incidents /\ h.local = t.local /\ h.at = t.at
      /\ h.target = t.target /\ h.saved = t.saved
  BY <1>2, HoldIs
<1> HIDE DEF h
<1>4. /\ IsTxn(w) /\ w.incidents = Written(h.incidents, t.target, row)
      /\ w.final = h.final \cup {t.target} /\ w.held = h.held /\ w.now = h.now
      /\ w.states = h.states /\ w.local = h.local /\ w.at = h.at
      /\ w.target = h.target /\ w.saved = h.saved
  BY <1>3, WroteIs
<1>5. u = [w EXCEPT !.pc = "insert_state"]
  BY DEF h
<1> HIDE DEF w
<1>6. /\ IsTxn(u) /\ u.pc = "insert_state" /\ u.incidents = w.incidents
      /\ u.final = w.final /\ u.held = w.held /\ u.now = w.now
      /\ u.states = w.states /\ u.local = w.local /\ u.at = w.at
      /\ u.target = w.target /\ u.saved = w.saved
  BY <1>4, <1>5 DEF IsTxn
<1>7. /\ u.pc \in Positions /\ u.pc \notin Idle /\ u.pc \in Resolving
      /\ u.pc \in Creating /\ u.pc \notin Following
  BY <1>6 DEF Positions, Idle, Resolving, Creating, Following
<1>8. /\ u.at = t.at /\ u.local = t.local /\ u.now = t.now /\ u.states = t.states
      /\ u.saved = t.saved /\ u.target = t.target /\ u.held = t.held \cup Needed(j)
      /\ u.final = t.final \cup {t.target} /\ u.incidents = Written(t.incidents, t.target, row)
  BY <1>3, <1>4, <1>6
<1>9. HeldOf(u) = HeldOf(t) /\ RowsOf(u) = RowsOf(t) /\ FinalOf(u) = FinalOf(t)
  BY <1>1, <1>7, <1>8 DEF HeldOf, RowsOf, FinalOf
<1>10. Follows(j, HeldOf(u), RowsOf(u), FinalOf(u), u.states)
  BY <1>2, <1>8, <1>9
<1>11. Placed(j, u)
  BY <1>1, <1>2, <1>6, <1>7, <1>8 DEF Placed
<1>12. Accounted(j, u)
  BY <1>1, <1>2, <1>6, <1>7, <1>8, <1>9 DEF Accounted
<1>13. Creates(j, u)
  <2>1. /\ batch[j][u.at].key \notin DOMAIN u.states /\ u.target \in Ids
        /\ t.held = t.saved.held /\ t.incidents = t.saved.incidents /\ t.final = t.saved.final
    BY <1>1, <1>2, <1>8 DEF Creates
  <2>2. u.incidents[u.target] = row
    BY <1>8 DEF Written
  <2>3. /\ u.held = u.saved.held \cup {<<"incident", u.target>>}
        /\ u.final = u.saved.final \cup {u.target}
        /\ u.incidents = Written(u.saved.incidents, u.target, row)
        /\ Brings(j, u.at, u.saved.incidents, u.target, row)
        /\ row.key = batch[j][u.at].key
    BY <1>8, <2>1
  <2> QED BY <1>6, <2>1, <2>2, <2>3 DEF Creates
<1>14. FollowsRow(j, u)
  BY <1>6, <1>7 DEF FollowsRow
<1>15. \A o \in Jobs \ {j} : u.held \cap txn[o].held = {}
  BY <1>8, Disjoint
<1> QED BY <1>6, <1>7, <1>10, <1>11, <1>12, <1>13, <1>14, <1>15 DEF Proper, TxnOK, OpenOK

LEMMA LockTargetMoves ==
  ASSUME CorrelationInv, NEW j \in Jobs, LockTarget(j)
  PROVE  Moves(j)
<1> DEFINE t == txn[j]
           b == batch[j][t.at]
           old == IncidentSeen(j, t.target)
<1>0. t.pc = "target" /\ \A o \in Jobs \ {j} : Needed(j) \cap txn[o].held = {}
  BY DEF LockTarget, Granted
<1>1. t.pc \in Resolving /\ t.pc \in Creating /\ t.pc # "resolve"
  BY <1>0 DEF Resolving, Creating
<1>2. /\ TypeOK /\ IsTxn(t) /\ Bundle(j) = b /\ b \in BundleType /\ t.at \in DOMAIN batch[j]
      /\ Placed(j, t) /\ Accounted(j, t) /\ Creates(j, t)
      /\ Follows(j, HeldOf(t), RowsOf(t), FinalOf(t), t.states)
  BY <1>1, OnBundle
<1>3. /\ t.target \in Ids /\ b.key \notin DOMAIN t.states
      /\ t.held = t.saved.held /\ t.incidents = t.saved.incidents /\ t.final = t.saved.final
  BY <1>0, <1>1, <1>2 DEF Creates
<1>4. HeldOf(t) = t.held /\ RowsOf(t) = t.incidents /\ FinalOf(t) = t.final
  BY <1>3 DEF HeldOf, RowsOf, FinalOf
<1>5. old = SeenIn(t.incidents, t.target)
  BY Views
<1>6. CASE old = Absent
  <2> DEFINE u == [t EXCEPT !.pc = "insert"]
  <2>1. Step(j, u)
    BY <1>6 DEF LockTarget
  <2>a. \A o \in Jobs \ {j} : t.held \cap txn[o].held = {}
    BY <1>0, Disjoint
  <2> HIDE DEF t, old
  <2>2. /\ IsTxn(u) /\ u.pc = "insert" /\ u.held = t.held /\ u.incidents = t.incidents
        /\ u.final = t.final /\ u.states = t.states /\ u.local = t.local /\ u.at = t.at
        /\ u.now = t.now /\ u.saved = t.saved /\ u.target = t.target
    BY <1>2 DEF IsTxn
  <2> HIDE DEF u
  <2>3. /\ u.pc \in Positions /\ u.pc \notin Idle /\ u.pc \in Resolving
        /\ u.pc \in Creating /\ u.pc \notin Following
    BY <2>2 DEF Positions, Idle, Resolving, Creating, Following
  <2>4. HeldOf(u) = HeldOf(t) /\ RowsOf(u) = RowsOf(t) /\ FinalOf(u) = FinalOf(t)
    BY <1>1, <2>2, <2>3 DEF HeldOf, RowsOf, FinalOf
  <2>5. Follows(j, HeldOf(u), RowsOf(u), FinalOf(u), u.states)
    BY <1>2, <2>2, <2>4
  <2>6. Placed(j, u)
    BY <1>1, <1>2, <2>2, <2>3 DEF Placed
  <2>7. Accounted(j, u)
    BY <1>0, <1>2, <2>2, <2>3, <2>4 DEF Accounted
  <2>8. t.target \notin DOMAIN t.incidents
    <3>1. \A id \in DOMAIN t.incidents : SeenIn(t.incidents, id) # Absent
      BY <1>2, <1>4 DEF Follows
    <3> QED BY <1>5, <1>6, <3>1
  <2>9. Creates(j, u) /\ FollowsRow(j, u)
    BY <1>3, <2>2, <2>3, <2>8 DEF Creates, FollowsRow
  <2>10. TxnOK(j, u)
    BY <2>2, <2>3, <2>5, <2>6, <2>7, <2>9 DEF TxnOK, OpenOK
  <2> QED BY <2>1, <2>2, <2>10, <2>a DEF Moves, Proper
<1>7. CASE old # Absent
  <2> DEFINE row == Reconciled(old, b, j, b.key)
             u == [Wrote(Hold(t, j), t.target, row) EXCEPT !.pc = "insert_state"]
  <2>1. Step(j, u)
    BY <1>2, <1>7 DEF LockTarget
  <2>2. Needed(j) = {<<"incident", t.target>>}
    BY <1>0, <1>7 DEF Needed, LockOf
  <2>3. old \in IncidentRow
    BY <1>2, <1>3, <1>4, <1>5, <1>7, SeenTyped
  <2>4. b.key \in Keys \cup {NoKey}
    BY <1>2 DEF BundleType
  <2>u. u = [Wrote(Hold(t, j), t.target, row) EXCEPT !.pc = "insert_state"]
    OBVIOUS
  <2>t. t = txn[j] /\ t.pc \in {"target", "insert"} /\ b = batch[j][t.at]
    BY <1>0
  <2> HIDE DEF t, b, old
  <2>5. RewrittenBy(old, b, j, b.key, row)
    BY <1>2, <2>3, <2>4, ReconciledIs
  <2> HIDE DEF row, u
  <2>6. Brings(j, t.at, t.incidents, t.target, row) /\ row.key = b.key
    <3>1. Follows(j, t.held, t.incidents, t.final, t.states)
      BY <1>2, <1>4
    <3>2. /\ SeenIn(t.incidents, t.target) # Absent
          /\ RewrittenBy(SeenIn(t.incidents, t.target), batch[j][t.at], j, b.key, row)
      BY <1>5, <1>7, <2>5, <2>t
    <3> QED BY <1>2, <1>3, <3>1, <3>2, RewriteBrings
  <2>7. Proper(j, u)
    BY <1>0, <2>2, <2>6, <2>u, <2>t, TargetWritten
  <2> QED BY <2>1, <2>7 DEF Moves
<1> QED BY <1>6, <1>7

\* An IntegrityError inside the savepoint.
LEMMA RolledBackProper ==
  ASSUME CorrelationInv, NEW j \in Jobs, NEW t, t = txn[j], t.pc \in {"insert", "insert_state"},
         NEW u, u = RolledBack(t)
  PROVE  Proper(j, u)
<1>1. t.pc \in Resolving /\ t.pc \in Creating /\ t.pc # "resolve"
  BY DEF Resolving, Creating
<1>2. /\ TypeOK /\ IsTxn(t) /\ t.at \in DOMAIN batch[j]
      /\ Placed(j, t) /\ Accounted(j, t) /\ Creates(j, t)
      /\ Follows(j, HeldOf(t), RowsOf(t), FinalOf(t), t.states)
  BY <1>1, OnBundle
<1>3. HeldOf(t) = t.saved.held /\ RowsOf(t) = t.saved.incidents /\ FinalOf(t) = t.saved.final
  BY <1>1 DEF HeldOf, RowsOf, FinalOf
<1>4. t.saved.held \subseteq t.held
  BY <1>2 DEF Creates
<1> DEFINE held == t.saved.held
           rows == t.saved.incidents
           final == t.saved.final
<1>5. u = [t EXCEPT !.held = held, !.incidents = rows, !.final = final, !.pc = "reread"]
  BY DEF RolledBack
<1> HIDE DEF held, rows, final
<1>6. /\ IsTxn(u) /\ u.pc = "reread" /\ u.held = held /\ u.incidents = rows /\ u.final = final
      /\ u.states = t.states /\ u.local = t.local /\ u.at = t.at /\ u.now = t.now
  <2>1. /\ u.pc = "reread" /\ u.held = held /\ u.incidents = rows /\ u.final = final
        /\ u.states = t.states /\ u.local = t.local /\ u.at = t.at /\ u.now = t.now
    BY <1>2, <1>5 DEF IsTxn
  <2>2. IsTxn(u)
    BY <1>2, <1>5 DEF IsTxn
  <2> QED BY <2>1, <2>2
<1>7. /\ u.pc \in Positions /\ u.pc \notin Idle /\ u.pc \in Resolving
      /\ u.pc \notin Creating /\ u.pc \notin Following
  BY <1>6 DEF Positions, Idle, Resolving, Creating, Following
<1>8. HeldOf(u) = HeldOf(t) /\ RowsOf(u) = RowsOf(t) /\ FinalOf(u) = FinalOf(t)
  BY <1>3, <1>6, <1>7, NoSavepoint DEF held, rows, final
<1>9. Follows(j, HeldOf(u), RowsOf(u), FinalOf(u), u.states)
  BY <1>2, <1>6, <1>8
<1>10. Placed(j, u)
  BY <1>1, <1>2, <1>6, <1>7 DEF Placed
<1>11. Accounted(j, u)
  BY <1>1, <1>2, <1>6, <1>7, <1>8 DEF Accounted
<1>12. Creates(j, u) /\ FollowsRow(j, u)
  BY <1>6, <1>7 DEF Creates, FollowsRow, Creating
<1>13. \A o \in Jobs \ {j} : u.held \cap txn[o].held = {}
  <2>1. u.held \subseteq txn[j].held
    BY <1>4, <1>6 DEF held
  <2>2. \A o \in Jobs \ {j} : txn[j].held \cap txn[o].held = {}
    BY DEF CorrelationInv, LocksExclude
  <2> QED BY <2>1, <2>2
<1> QED BY <1>6, <1>7, <1>9, <1>10, <1>11, <1>12, <1>13 DEF Proper, TxnOK, OpenOK

LEMMA InsertIncidentMoves ==
  ASSUME CorrelationInv, NEW j \in Jobs, InsertIncident(j)
  PROVE  Moves(j)
<1> DEFINE t == txn[j]
           b == batch[j][t.at]
<1>0. t.pc = "insert" /\ \A o \in Jobs \ {j} : Needed(j) \cap txn[o].held = {}
  BY DEF InsertIncident, Granted
<1>1. t.pc \in Resolving /\ t.pc \in Creating /\ t.pc # "resolve"
  BY <1>0 DEF Resolving, Creating
<1>2. /\ TypeOK /\ Bundle(j) = b /\ b \in BundleType /\ t.at \in DOMAIN batch[j] /\ Creates(j, t)
  BY <1>1, OnBundle
<1>3. t.target \in Ids /\ t.target \notin DOMAIN t.incidents
  BY <1>0, <1>1, <1>2 DEF Creates
<1>4. CASE incident[t.target] # Absent
  <2> DEFINE u == RolledBack(t)
  <2>1. Step(j, u)
    BY <1>4 DEF InsertIncident
  <2>2. t = txn[j] /\ t.pc \in {"insert", "insert_state"} /\ u = RolledBack(t)
    BY <1>0
  <2> HIDE DEF t, u
  <2>3. Proper(j, u)
    BY <2>2, RolledBackProper
  <2> QED BY <2>1, <2>3 DEF Moves
<1>5. CASE incident[t.target] = Absent
  <2> DEFINE row == Fresh(b, j, b.key)
             u == [Wrote(Hold(t, j), t.target, row) EXCEPT !.pc = "insert_state"]
  <2>1. Step(j, u)
    BY <1>2, <1>5 DEF InsertIncident
  <2>2. Needed(j) = {<<"incident", t.target>>}
    BY <1>0 DEF Needed
  <2>3. SeenIn(t.incidents, t.target) = Absent
    BY <1>3, <1>5 DEF SeenIn
  <2>4. b.key \in Keys \cup {NoKey}
    BY <1>2 DEF BundleType
  <2>u. u = [Wrote(Hold(t, j), t.target, row) EXCEPT !.pc = "insert_state"]
    OBVIOUS
  <2>t. t = txn[j] /\ t.pc \in {"target", "insert"} /\ b = batch[j][t.at]
    BY <1>0
  <2>r. row = Fresh(batch[j][t.at], j, b.key)
    OBVIOUS
  <2> HIDE DEF t, b, row, u
  <2>5. Brings(j, t.at, t.incidents, t.target, row) /\ row.key = b.key
    BY <1>2, <1>3, <1>5, <2>3, <2>4, <2>r, FreshBrings
  <2>6. Proper(j, u)
    BY <1>0, <2>2, <2>5, <2>u, <2>t, TargetWritten
  <2> QED BY <2>1, <2>6 DEF Moves
<1> QED BY <1>4, <1>5

LEMMA ResolvedProper ==
  ASSUME TypeOK, NEW j \in Jobs, NEW w, IsTxn(w), w.now \in Nat,
         Follows(j, w.held, w.incidents, w.final, w.states),
         w.local \in Seq(DOMAIN batch[j]), NEW n \in Nat \ {0},
         \A m \in DOMAIN batch[j] : Covered(j, w.incidents, m) \/ Listed(w.local, m) \/ m >= n,
         \A o \in Jobs \ {j} : w.held \cap txn[o].held = {}
  PROVE  Proper(j, Resolve(w, j, n))
<1> DEFINE u == Resolve(w, j, n)
<1>1. TxnOK(j, u) /\ u.held = w.held /\ u.pc # "committed"
  BY ResolveOK
<1> HIDE DEF u
<1>2. Proper(j, u)
  BY <1>1 DEF Proper
<1> QED BY <1>2 DEF u

\* The job adds an incident and the correlation row of its key to its writes.
KeyedWrite(j, t, k, id, row, srow, w) ==
    /\ k \in Keys /\ id \in Ids /\ row.key = k /\ Brings(j, t.at, RowsOf(t), id, row)
    /\ srow \in StateRow /\ srow.incident = id
    /\ state[k] # Absent => Advances(state[k], srow)
    /\ AtMost(OwnedBy(RowsOf(t), k) \cup {id}, srow.generation)
    /\ IsTxn(w) /\ w.local = t.local /\ w.now = t.now
    /\ HeldOf(t) \cup {<<"incident", id>>, <<"state", k>>} \subseteq w.held
    /\ w.incidents = Written(RowsOf(t), id, row) /\ w.final = FinalOf(t) \cup {id}
    /\ w.states = Written(t.states, k, srow)
    /\ \A o \in Jobs \ {j} : w.held \cap txn[o].held = {}

\* This resolves the bundle.
LEMMA KeyedProper ==
  ASSUME CorrelationInv, NEW j \in Jobs, NEW t, t = txn[j], t.pc \in Resolving,
         NEW k, NEW id, NEW row, NEW srow, NEW w, KeyedWrite(j, t, k, id, row, srow, w)
  PROVE  Proper(j, Resolve(w, j, t.at + 1))
<1>0. /\ k \in Keys /\ id \in Ids /\ row.key = k /\ Brings(j, t.at, RowsOf(t), id, row)
      /\ srow \in StateRow /\ srow.incident = id
      /\ state[k] # Absent => Advances(state[k], srow)
      /\ AtMost(OwnedBy(RowsOf(t), k) \cup {id}, srow.generation)
      /\ IsTxn(w) /\ w.local = t.local /\ w.now = t.now
      /\ HeldOf(t) \cup {<<"incident", id>>, <<"state", k>>} \subseteq w.held
      /\ w.incidents = Written(RowsOf(t), id, row) /\ w.final = FinalOf(t) \cup {id}
      /\ w.states = Written(t.states, k, srow)
      /\ \A o \in Jobs \ {j} : w.held \cap txn[o].held = {}
  BY DEF KeyedWrite
<1>1. /\ TypeOK /\ t.at \in DOMAIN batch[j] /\ t.at + 1 \in Nat \ {0} /\ t.now \in Nat
      /\ t.local \in Seq(DOMAIN batch[j])
      /\ Follows(j, HeldOf(t), RowsOf(t), FinalOf(t), t.states)
      /\ \A m \in DOMAIN batch[j] :
            \/ Covered(j, RowsOf(t), m) \/ Listed(t.local, m) \/ m = t.at \/ m >= t.at + 1
  BY OnBundle
<1>2. Follows(j, w.held, RowsOf(t), FinalOf(t), t.states)
  BY <1>0, <1>1, MoreHeld
<1>3. <<"incident", id>> \in w.held /\ <<"state", k>> \in w.held
  BY <1>0
<1>4. Follows(j, w.held, Written(RowsOf(t), id, row), FinalOf(t) \cup {id}, Written(t.states, k, srow))
  BY <1>0, <1>2, <1>3, WriteKeyed
<1>5. /\ Covered(j, w.incidents, t.at)
      /\ \A m \in DOMAIN batch[j] : Covered(j, RowsOf(t), m) => Covered(j, w.incidents, m)
  BY <1>0, StaysCovered
<1>6. \A m \in DOMAIN batch[j] : Covered(j, w.incidents, m) \/ Listed(w.local, m) \/ m >= t.at + 1
  BY <1>0, <1>1, <1>5
<1>7. Follows(j, w.held, w.incidents, w.final, w.states)
  BY <1>0, <1>4
<1>n. w.now \in Nat /\ w.local \in Seq(DOMAIN batch[j])
  BY <1>0, <1>1
<1> QED BY <1>0, <1>1, <1>6, <1>7, <1>n, ResolvedProper

LEMMA ExpiryTyped ==
  ASSUME NEW t \in Nat, NEW last \in Nat
  PROVE  ExpiresAt(t, last) \in Nat
<1>1. Max({t, last}) \in Nat /\ TTL \in Nat
  BY MinMax, ConstantsAssumption
<1> QED BY <1>1 DEF ExpiresAt

\* One incident where there was none.
LEMMA FirstOwner ==
  ASSUME NEW id
  PROVE  AtMost({} \cup {id}, 1)
<1>1. IsFiniteSet({id}) /\ Cardinality({id}) = 1
  BY FS_Singleton
<1> QED BY <1>1 DEF AtMost

LEMMA InsertStateMoves ==
  ASSUME CorrelationInv, NEW j \in Jobs, InsertState(j)
  PROVE  Moves(j)
<1> DEFINE t == txn[j]
           b == batch[j][t.at]
<1>0. t.pc = "insert_state" /\ \A o \in Jobs \ {j} : Needed(j) \cap txn[o].held = {}
  BY DEF InsertState, Granted
<1>1. t.pc \in Resolving /\ t.pc \in Creating /\ t.pc # "resolve"
  BY <1>0 DEF Resolving, Creating
<1>2. /\ TypeOK /\ OwnersInv /\ IsTxn(t) /\ Bundle(j) = b /\ b \in BundleType
      /\ t.at \in DOMAIN batch[j] /\ t.now \in Nat /\ Placed(j, t) /\ Creates(j, t)
      /\ Follows(j, HeldOf(t), RowsOf(t), FinalOf(t), t.states)
  BY <1>1, OnBundle
<1>3. CASE state[b.key] # Absent
  <2> DEFINE u == RolledBack(t)
  <2>1. Step(j, u)
    BY <1>2, <1>3 DEF InsertState
  <2>2. t = txn[j] /\ t.pc \in {"insert", "insert_state"} /\ u = RolledBack(t)
    BY <1>0
  <2> HIDE DEF t, u
  <2>3. Proper(j, u)
    BY <2>2, RolledBackProper
  <2> QED BY <2>1, <2>3 DEF Moves
<1>4. CASE state[b.key] = Absent
  <2> DEFINE k == b.key
             id == t.target
             row == t.incidents[id]
             srow == [incident |-> id, generation |-> 1, version |-> KeyVersion[k],
                      first |-> b.first, last |-> b.last,
                      expires |-> ExpiresAt(t.now, b.last), guard |-> 1]
             h == Hold(t, j)
             states == Written(t.states, k, srow)
             w == [h EXCEPT !.states = states]
             u == Resolve(w, j, t.at + 1)
  <2>1. Step(j, u)
    <3>1. Bundle(j) = b
      BY <1>2
    <3>2. h.states = t.states
      BY <1>2, HoldIs
    <3>3. InsertState(j) => Step(j, Resolve([Hold(txn[j], j) EXCEPT
                    !.states = Written(h.states, b.key, srow)], j, txn[j].at + 1))
      BY <1>4, <3>1 DEF InsertState
    <3> QED BY <3>2, <3>3
  <2>2. /\ k \in Keys /\ k \notin DOMAIN t.states /\ id \in Ids
        /\ t.held = HeldOf(t) \cup {<<"incident", id>>} /\ t.final = FinalOf(t) \cup {id}
        /\ t.incidents = Written(RowsOf(t), id, row)
        /\ Brings(j, t.at, RowsOf(t), id, row) /\ row.key = k
    BY <1>0, <1>1, <1>2 DEF Creates, Placed, HeldOf, RowsOf, FinalOf
  <2>3. Needed(j) = {<<"state", k>>}
    BY <1>0, <1>2 DEF Needed
  <2>4. b.first \in Nat /\ b.last \in Nat /\ KeyVersion[k] \in Nat
    BY <1>2, <2>2, ConstantsAssumption DEF BundleType
  <2>5. ExpiresAt(t.now, b.last) \in Nat
    BY <1>2, <2>4, ExpiryTyped
  <2>6. srow \in StateRow /\ srow.incident = id /\ srow.generation = 1
    BY <2>2, <2>4, <2>5 DEF StateRow
  <2>7. AtMost(OwnedBy(RowsOf(t), k) \cup {id}, 1)
    <3>1. StateIn(t.states, k) = Absent
      BY <1>4, <2>2 DEF StateIn
    <3>2. OwnedBy(RowsOf(t), k) = {}
      BY <1>2, <2>2, <3>1, OwnersSeen
    <3> QED BY <3>2, FirstOwner
  <2>t. t = txn[j] /\ state[k] = Absent
    BY <1>4
  <2>d. \A o \in Jobs \ {j} : (t.held \cup Needed(j)) \cap txn[o].held = {}
    BY <1>0, Disjoint
  <2> HIDE DEF t, b, k, id, row, srow
  <2>8. /\ IsTxn(h) /\ h.held = t.held \cup Needed(j) /\ h.final = t.final /\ h.now = t.now
        /\ h.states = t.states /\ h.incidents = t.incidents /\ h.local = t.local /\ h.at = t.at
    BY <1>2, HoldIs
  <2>w. w = [h EXCEPT !.states = states]
    OBVIOUS
  <2> HIDE DEF h, w
  <2>9. /\ IsTxn(w) /\ w.held = h.held /\ w.final = h.final /\ w.now = h.now
        /\ w.states = states /\ w.incidents = h.incidents /\ w.local = h.local
    BY <2>8, <2>w DEF IsTxn
  <2>10. /\ HeldOf(t) \cup {<<"incident", id>>, <<"state", k>>} \subseteq w.held
         /\ w.incidents = Written(RowsOf(t), id, row) /\ w.final = FinalOf(t) \cup {id}
         /\ w.states = Written(t.states, k, srow) /\ w.local = t.local /\ w.now = t.now
         /\ \A o \in Jobs \ {j} : w.held \cap txn[o].held = {}
    BY <2>2, <2>3, <2>8, <2>9, <2>d
  <2>11. KeyedWrite(j, t, k, id, row, srow, w)
    <3>1. AtMost(OwnedBy(RowsOf(t), k) \cup {id}, srow.generation)
      BY <2>6, <2>7
    <3> QED BY <2>2, <2>6, <2>9, <2>10, <2>t, <3>1 DEF KeyedWrite
  <2>12. Proper(j, u)
    BY <1>1, <2>11, <2>t, KeyedProper
  <2> HIDE DEF u
  <2> QED BY <2>1, <2>12 DEF Moves
<1> QED BY <1>3, <1>4

\* What the correlation row that the job has locked becomes: the next of its
\* generation, or the first of the next generation.
Succeeds(old, new) ==
    /\ new \in StateRow /\ new.guard = old.guard
    /\ \/ /\ new.generation = old.generation /\ new.incident = old.incident
          /\ new.first <= old.first /\ new.last >= old.last
       \/ new.generation = old.generation + 1

\* What follows a version of a correlation row follows what it follows.
LEMMA AdvancesOn ==
  ASSUME NEW old \in StateRow, NEW row \in StateRow, row = old \/ Advances(old, row),
         NEW new, Succeeds(row, new), NEW next, next = [new EXCEPT !.guard = @ + 1]
  PROVE  /\ next \in StateRow /\ Advances(old, next)
         /\ next.incident = new.incident /\ next.generation = new.generation
<1>1. /\ next \in StateRow /\ next.guard = row.guard + 1
      /\ next.generation = new.generation /\ next.incident = new.incident
      /\ next.first = new.first /\ next.last = new.last
  BY DEF Succeeds, StateRow
<1>2. /\ old.guard \in Nat /\ row.guard \in Nat
      /\ old.generation \in Nat /\ row.generation \in Nat /\ new.generation \in Nat
      /\ old.first \in Nat /\ row.first \in Nat /\ new.first \in Nat
      /\ old.last \in Nat /\ row.last \in Nat /\ new.last \in Nat
  BY DEF Succeeds, StateRow
<1>3. /\ row.guard >= old.guard /\ row.generation >= old.generation
      /\ row.generation = old.generation =>
            row.incident = old.incident /\ row.first <= old.first /\ row.last >= old.last
  BY <1>2 DEF Advances
<1>4. CASE new.generation = row.generation + 1
  BY <1>1, <1>2, <1>3, <1>4 DEF Advances
<1>5. CASE /\ new.generation = row.generation /\ new.incident = row.incident
           /\ new.first <= row.first /\ new.last >= row.last
  BY <1>1, <1>2, <1>3, <1>5 DEF Advances
<1> QED BY <1>1, <1>4, <1>5 DEF Succeeds

\* The guarded update of the row that was locked.
LEMMA GuardedProper ==
  ASSUME CorrelationInv, NEW j \in Jobs, NEW t, t = txn[j], t.pc \in Following,
         NEW id \in Ids, Needed(j) = {<<"incident", id>>},
         \A o \in Jobs \ {j} : Needed(j) \cap txn[o].held = {},
         NEW new, Brings(j, t.at, t.incidents, id, new), new.key = batch[j][t.at].key,
         NEW srow, Succeeds(t.row, srow), srow.incident = id
  PROVE  Proper(j, Guarded(j, Wrote(Hold(t, j), id, new), srow))
<1> DEFINE k == batch[j][t.at].key
           h == Hold(t, j)
           v == Wrote(h, id, new)
           next == [srow EXCEPT !.guard = @ + 1]
           states == Written(t.states, k, next)
           w == [v EXCEPT !.states = states]
           u == Resolve(w, j, t.at + 1)
<1>1. /\ t.pc \in Resolving /\ t.pc \notin Creating /\ t.pc # "resolve"
  BY DEF Resolving, Creating, Following
<1>2. /\ TypeOK /\ OwnersInv /\ IsTxn(t) /\ Bundle(j) = batch[j][t.at]
      /\ t.at \in DOMAIN batch[j] /\ Placed(j, t) /\ FollowsRow(j, t)
      /\ Follows(j, HeldOf(t), RowsOf(t), FinalOf(t), t.states)
  BY <1>1, OnBundle
<1>3. HeldOf(t) = t.held /\ RowsOf(t) = t.incidents /\ FinalOf(t) = t.final
  BY <1>1, NoSavepoint
<1>4. /\ k \in Keys /\ t.row \in StateRow /\ t.row = StateIn(t.states, k)
      /\ <<"state", k>> \in t.held
  BY <1>1, <1>2 DEF Placed, FollowsRow
<1>5. StateSeen(j, k) = t.row /\ t.row # Absent
  BY <1>4, Views, RowsAreRows
<1>6. \A o \in Jobs \ {j} : (t.held \cup Needed(j)) \cap txn[o].held = {}
  BY Disjoint
<1>n. next = [srow EXCEPT !.guard = @ + 1]
  OBVIOUS
<1> HIDE DEF k, next
<1>7. /\ IsTxn(h) /\ h.held = t.held \cup Needed(j) /\ h.final = t.final /\ h.now = t.now
      /\ h.states = t.states /\ h.incidents = t.incidents /\ h.local = t.local /\ h.at = t.at
  BY <1>2, HoldIs
<1> HIDE DEF h
<1>8. /\ IsTxn(v) /\ v.incidents = Written(h.incidents, id, new)
      /\ v.final = h.final \cup {id} /\ v.held = h.held /\ v.now = h.now
      /\ v.states = h.states /\ v.local = h.local
  BY <1>7, WroteIs
<1> HIDE DEF v
<1>9. Guarded(j, v, srow) = u
  <2>1. v.states = t.states
    BY <1>7, <1>8
  <2>2. Bundle(j).key = k
    BY <1>2 DEF k
  <2>3. Guarded(j, v, srow)
          = Resolve([v EXCEPT !.states = Written(v.states, k, next)], j, txn[j].at + 1)
    BY <1>5, <2>2 DEF Guarded, next
  <2> QED BY <2>1, <2>3
<1>w. w = [v EXCEPT !.states = states]
  OBVIOUS
<1> HIDE DEF w
<1>10. /\ IsTxn(w) /\ w.incidents = v.incidents /\ w.final = v.final /\ w.held = v.held
       /\ w.now = v.now /\ w.local = v.local /\ w.states = states
  BY <1>8, <1>w DEF IsTxn
<1>11. /\ HeldOf(t) \cup {<<"incident", id>>, <<"state", k>>} \subseteq w.held
       /\ w.incidents = Written(RowsOf(t), id, new) /\ w.final = FinalOf(t) \cup {id}
       /\ w.states = Written(t.states, k, next) /\ w.local = t.local /\ w.now = t.now
       /\ \A o \in Jobs \ {j} : w.held \cap txn[o].held = {}
  BY <1>3, <1>4, <1>6, <1>7, <1>8, <1>10
<1>12. state[k] # Absent => state[k] \in StateRow /\ (t.row = state[k] \/ Advances(state[k], t.row))
  BY <1>2, <1>4, <1>5, StateSeenTyped
<1>13. /\ next \in StateRow /\ next.incident = id /\ next.generation = srow.generation
       /\ state[k] # Absent => Advances(state[k], next)
  <2>1. next \in StateRow /\ next.incident = id /\ next.generation = srow.generation
    BY <1>4, <1>n, AdvancesOn
  <2>2. state[k] # Absent => Advances(state[k], next)
    BY <1>4, <1>12, <1>n, AdvancesOn
  <2> QED BY <2>1, <2>2
<1>14. AtMost(OwnedBy(RowsOf(t), k) \cup {id}, next.generation)
  <2>1. AtMost(OwnedBy(RowsOf(t), k) \cup {t.row.incident}, t.row.generation)
    BY <1>2, <1>4, <1>5, OwnersSeen
  <2>2. t.row.generation \in Nat
    BY <1>4 DEF StateRow
  <2>3. CASE srow.generation = t.row.generation /\ srow.incident = t.row.incident
    BY <1>13, <2>1, <2>3
  <2>4. CASE srow.generation = t.row.generation + 1
    <3>1. AtMost(OwnedBy(RowsOf(t), k), t.row.generation)
      BY <2>1, <2>2, AtMostSubset
    <3>2. AtMost(OwnedBy(RowsOf(t), k) \cup {id}, t.row.generation + 1)
      BY <2>2, <3>1, AtMostOneMore
    <3> QED BY <1>13, <2>4, <3>2
  <2> QED BY <2>3, <2>4 DEF Succeeds
<1>15. Brings(j, t.at, RowsOf(t), id, new) /\ new.key = k
  BY <1>3 DEF k
<1>16. KeyedWrite(j, t, k, id, new, next, w)
  BY <1>4, <1>10, <1>11, <1>13, <1>14, <1>15 DEF KeyedWrite
<1>17. Proper(j, u)
  BY <1>1, <1>16, KeyedProper
<1> QED BY <1>9, <1>17 DEF v, h

\* _merge, with the correlation row and its incident locked.
LEMMA MergeProper ==
  ASSUME CorrelationInv, NEW j \in Jobs, NEW t, t = txn[j], t.pc = "incident",
         \A o \in Jobs \ {j} : Needed(j) \cap txn[o].held = {},
         NEW id, id = t.target, IncidentSeen(j, id) # Absent
  PROVE  Proper(j, MergeInto(j, Hold(t, j), id))
<1> DEFINE b == batch[j][t.at]
           old == IncidentSeen(j, id)
           new == IF IsNoop(old, b, j) THEN old ELSE Merged(old, b, j)
           last == Max({t.row.last, b.last})
           srow == [t.row EXCEPT !.first = Min({@, b.first}), !.last = last,
                                 !.expires = ExpiresAt(t.now, last)]
           h == Hold(t, j)
<1>1. /\ t.pc \in Resolving /\ t.pc \notin Creating /\ t.pc # "resolve" /\ t.pc \in Following
  BY DEF Resolving, Creating, Following
<1>2. /\ TypeOK /\ OwnersInv /\ IsTxn(t) /\ Bundle(j) = b /\ b \in BundleType
      /\ t.at \in DOMAIN batch[j] /\ t.at + 1 \in Nat \ {0}
      /\ t.now \in Nat /\ t.local \in Seq(DOMAIN batch[j]) /\ FollowsRow(j, t)
      /\ Follows(j, HeldOf(t), RowsOf(t), FinalOf(t), t.states)
      /\ \A m \in DOMAIN batch[j] :
            \/ Covered(j, RowsOf(t), m) \/ Listed(t.local, m) \/ m = t.at \/ m >= t.at + 1
  BY <1>1, OnBundle
<1>3. HeldOf(t) = t.held /\ RowsOf(t) = t.incidents /\ FinalOf(t) = t.final
  BY <1>1, NoSavepoint
<1>f. Follows(j, t.held, t.incidents, t.final, t.states)
  BY <1>2, <1>3
<1>4. /\ t.row \in StateRow /\ t.row.incident = id /\ id \in Ids
  BY <1>1, <1>2 DEF FollowsRow, StateRow
<1>g. TypeOK /\ t.at \in DOMAIN batch[j] /\ id \in Ids
  BY <1>2, <1>4
<1>5. old = SeenIn(t.incidents, id) /\ old # Absent
  BY Views
<1>6. Needed(j) = {<<"incident", id>>}
  BY DEF Needed, LockOf
<1>7. \A o \in Jobs \ {j} : (t.held \cup Needed(j)) \cap txn[o].held = {}
  BY Disjoint
<1>8. /\ IsTxn(h) /\ h.held = t.held \cup Needed(j) /\ h.final = t.final /\ h.now = t.now
      /\ h.states = t.states /\ h.incidents = t.incidents /\ h.local = t.local /\ h.at = t.at
  BY <1>2, HoldIs
<1>9. old \in IncidentRow
  BY <1>2, <1>f, <1>4, <1>5, SeenTyped
<1>10. MergeInto(j, h, id) = IF new = old
                             THEN Resolve([h EXCEPT !.final = @ \cup {id}], j, t.at + 1)
                             ELSE Guarded(j, Wrote(h, id, new), srow)
  BY <1>2 DEF MergeInto
<1>11. Succeeds(t.row, srow) /\ srow.incident = id
  <2>1. /\ t.row.first \in Nat /\ t.row.last \in Nat /\ b.first \in Nat /\ b.last \in Nat
    BY <1>2, <1>4 DEF StateRow, BundleType
  <2> DEFINE first == Min({t.row.first, b.first})
             expires == ExpiresAt(t.now, last)
  <2>2. /\ first \in Nat /\ last \in Nat /\ first <= t.row.first /\ last >= t.row.last
    BY <2>1, MinMax
  <2>3. expires \in Nat
    BY <1>2, <2>2, ExpiryTyped
  <2>4. srow = [t.row EXCEPT !.first = first, !.last = last, !.expires = expires]
    OBVIOUS
  <2> HIDE DEF first, last, expires, srow
  <2>5. /\ srow \in StateRow /\ srow.guard = t.row.guard /\ srow.incident = t.row.incident
        /\ srow.generation = t.row.generation /\ srow.first = first /\ srow.last = last
    BY <1>4, <2>2, <2>3, <2>4 DEF StateRow
  <2> QED BY <1>4, <2>2, <2>5 DEF Succeeds
<1> HIDE DEF srow
<1>12. CASE new = old
  <2> DEFINE final == t.final \cup {id}
             w == [h EXCEPT !.final = final]
             u == Resolve(w, j, t.at + 1)
  <2>1. MergeInto(j, h, id) = u
    BY <1>8, <1>10, <1>12
  <2>2. Holds(j, t.at, old)
    <3>1. CASE IsNoop(old, b, j)
      BY <1>5, <3>1 DEF IsNoop, Holds
    <3>2. CASE ~ IsNoop(old, b, j)
      <4>1. RewrittenBy(old, b, j, b.key, old)
        BY <1>2, <1>9, <1>12, <3>2, MergedIs
      <4>2. /\ SeenIn(t.incidents, id) # Absent
            /\ RewrittenBy(SeenIn(t.incidents, id), batch[j][t.at], j, b.key, old)
        BY <1>5, <4>1
      <4>3. Brings(j, t.at, t.incidents, id, old)
        BY <1>f, <1>g, <4>2, RewriteBrings
      <4> QED BY <4>3 DEF Brings
    <3> QED BY <3>1, <3>2
  <2>3. Covered(j, t.incidents, t.at)
    BY <1>4, <1>5, <2>2 DEF Covered
  <2> HIDE DEF h, old, new, b
  <2>w. w = [h EXCEPT !.final = final]
    OBVIOUS
  <2> HIDE DEF w
  <2>4. /\ IsTxn(w) /\ w.held = h.held /\ w.final = final /\ w.now = h.now
        /\ w.states = h.states /\ w.incidents = h.incidents /\ w.local = h.local
    BY <1>8, <2>w DEF IsTxn
  <2>5. Follows(j, w.held, w.incidents, w.final, w.states)
    <3>1. t.held \subseteq w.held /\ <<"incident", id>> \in w.held
      BY <1>6, <1>8, <2>4
    <3>2. Follows(j, w.held, t.incidents, t.final, t.states)
      BY <1>f, <3>1, MoreHeld
    <3>3. Follows(j, w.held, t.incidents, t.final \cup {id}, t.states)
      BY <1>4, <1>5, <3>1, <3>2, MoreFinal
    <3> QED BY <1>8, <2>4, <3>3
  <2>6. \A m \in DOMAIN batch[j] : Covered(j, w.incidents, m) \/ Listed(w.local, m) \/ m >= t.at + 1
    BY <1>2, <1>3, <1>8, <2>3, <2>4
  <2>7. /\ w.now \in Nat /\ w.local \in Seq(DOMAIN batch[j])
        /\ \A o \in Jobs \ {j} : w.held \cap txn[o].held = {}
    BY <1>2, <1>7, <1>8, <2>4
  <2>8. Proper(j, u)
    BY <1>2, <2>4, <2>5, <2>6, <2>7, ResolvedProper
  <2> QED BY <2>1, <2>8 DEF h
<1>13. CASE new # old
  <2>1. MergeInto(j, h, id) = Guarded(j, Wrote(h, id, new), srow)
    BY <1>10, <1>13
  <2>2. RewrittenBy(old, b, j, b.key, new)
    BY <1>2, <1>9, <1>13, MergedIs
  <2>3. /\ SeenIn(t.incidents, id) # Absent
        /\ RewrittenBy(SeenIn(t.incidents, id), batch[j][t.at], j, b.key, new)
    BY <1>5, <2>2
  <2> HIDE DEF new, h, old
  <2>4. Brings(j, t.at, t.incidents, id, new) /\ new.key = b.key
    BY <1>f, <1>g, <2>3, RewriteBrings
  <2>5. Proper(j, Guarded(j, Wrote(Hold(t, j), id, new), srow))
    BY <1>1, <1>4, <1>6, <1>11, <2>4, GuardedProper
  <2> QED BY <2>1, <2>5 DEF h
<1> QED BY <1>12, <1>13

LEMMA LockIncidentMoves ==
  ASSUME CorrelationInv, NEW j \in Jobs, LockIncident(j)
  PROVE  Moves(j)
<1> DEFINE t == txn[j]
           h == Hold(t, j)
           id == t.target
           merged == MergeInto(j, h, id)
           left == Resolve([h EXCEPT !.local = Append(@, h.at)], j, h.at + 1)
           turned == [h EXCEPT !.pc = "renew"]
           b == Bundle(j)
           decision == Decision(t.row, IncidentSeen(j, id) # Absent, b, KeyVersion[b.key], t.now)
<1>0. t.pc = "incident" /\ \A o \in Jobs \ {j} : Needed(j) \cap txn[o].held = {}
  BY DEF LockIncident, Granted
<1>1. /\ t.pc \in Resolving /\ t.pc \notin Creating /\ t.pc # "resolve" /\ t.pc \in Following
  BY <1>0 DEF Resolving, Creating, Following
<1>2. \/ Step(j, left) \/ Step(j, turned)
      \/ IncidentSeen(j, id) # Absent /\ Step(j, merged)
  <2>1. /\ decision = "stale" => Step(j, left)
        /\ decision = "merge" => Step(j, merged)
        /\ decision \in {"new_generation", "repair"} =>
             IF IncidentSeen(j, id) # Absent /\ b.id = id THEN Step(j, merged) ELSE Step(j, turned)
    BY DEF LockIncident
  <2>2. /\ decision \in {"stale", "merge", "new_generation", "repair"}
        /\ decision = "merge" => IncidentSeen(j, id) # Absent
    BY DEF Decision
  <2> HIDE DEF decision, left, turned, merged, b, t, id
  <2> QED BY <2>1, <2>2
<1>3. ASSUME IncidentSeen(j, id) # Absent, Step(j, merged)
      PROVE  Moves(j)
  <2>1. t = txn[j] /\ id = t.target
    OBVIOUS
  <2> HIDE DEF t, id
  <2>2. Proper(j, merged)
    BY <1>0, <1>3, <2>1, MergeProper
  <2> HIDE DEF merged
  <2> QED BY <1>3, <2>2 DEF Moves
<1>4. /\ TypeOK /\ IsTxn(t) /\ t.at \in DOMAIN batch[j] /\ Placed(j, t) /\ Accounted(j, t)
      /\ FollowsRow(j, t)
      /\ Follows(j, HeldOf(t), RowsOf(t), FinalOf(t), t.states)
  BY <1>1, OnBundle
<1>5. \A o \in Jobs \ {j} : (t.held \cup Needed(j)) \cap txn[o].held = {}
  BY <1>0, Disjoint
<1>t. t = txn[j]
  OBVIOUS
<1> HIDE DEF t
<1>6. /\ IsTxn(h) /\ h.held = t.held \cup Needed(j) /\ h.final = t.final /\ h.now = t.now
      /\ h.states = t.states /\ h.incidents = t.incidents /\ h.local = t.local /\ h.at = t.at
      /\ h.row = t.row
  BY <1>4, HoldIs
<1> HIDE DEF h
<1>7. ASSUME Step(j, left)
      PROVE  Moves(j)
  <2> DEFINE local == Append(h.local, h.at)
             w == [h EXCEPT !.local = local]
  <2>1. left = Resolve(w, j, t.at + 1)
    BY <1>6
  <2>w. w = [h EXCEPT !.local = local]
    OBVIOUS
  <2> HIDE DEF w, local
  <2>2. /\ IsTxn(w) /\ w.held = h.held /\ w.final = h.final /\ w.now = h.now
        /\ w.states = h.states /\ w.incidents = h.incidents /\ w.local = local
    BY <1>6, <2>w DEF IsTxn
  <2>3. /\ w.local = Append(t.local, t.at) /\ t.held \subseteq w.held /\ w.final = t.final
        /\ w.now = t.now /\ w.states = t.states /\ w.incidents = t.incidents
    BY <1>6, <2>2 DEF local
  <2>4. /\ TxnOK(j, Resolve(w, j, t.at + 1)) /\ Resolve(w, j, t.at + 1).held = w.held
        /\ Resolve(w, j, t.at + 1).pc # "committed"
    BY <1>1, <1>t, <2>2, <2>3, LeftOK
  <2> HIDE DEF left
  <2>5. Proper(j, left)
    BY <1>5, <1>6, <2>1, <2>2, <2>4 DEF Proper
  <2> QED BY <1>7, <2>5 DEF Moves
<1>8. ASSUME Step(j, turned)
      PROVE  Moves(j)
  <2>u. turned = [h EXCEPT !.pc = "renew"]
    OBVIOUS
  <2> DEFINE u == turned
  <2> HIDE DEF turned
  <2>2. /\ IsTxn(u) /\ u.pc = "renew" /\ u.held = h.held /\ u.incidents = h.incidents
        /\ u.final = h.final /\ u.states = h.states /\ u.local = h.local /\ u.at = h.at
        /\ u.now = h.now /\ u.row = h.row
    BY <1>6, <2>u DEF IsTxn
  <2> HIDE DEF u
  <2>3. /\ u.pc \in Positions /\ u.pc \notin Idle /\ u.pc \in Resolving
        /\ u.pc \notin Creating /\ u.pc \in Following
    BY <2>2 DEF Positions, Idle, Resolving, Creating, Following
  <2>4. HeldOf(u) = h.held /\ RowsOf(u) = RowsOf(t) /\ FinalOf(u) = FinalOf(t) /\ HeldOf(t) = t.held
    BY <1>1, <1>6, <2>2, <2>3, NoSavepoint
  <2>5. Follows(j, HeldOf(u), RowsOf(u), FinalOf(u), u.states)
    <3>1. Follows(j, h.held, RowsOf(t), FinalOf(t), t.states)
      BY <1>4, <1>6, <2>4, MoreHeld
    <3> QED BY <1>6, <2>2, <2>4, <3>1
  <2>6. Placed(j, u)
    BY <1>1, <1>4, <1>6, <2>2, <2>3 DEF Placed
  <2>7. Accounted(j, u)
    BY <1>0, <1>4, <1>6, <1>t, <2>2, <2>3, <2>4 DEF Accounted
  <2>8. Creates(j, u)
    BY <2>2, <2>3 DEF Creates, Creating
  <2>9. FollowsRow(j, u)
    BY <1>1, <1>4, <1>6, <1>t, <2>2, <2>3 DEF FollowsRow
  <2>10. TxnOK(j, u)
    BY <2>2, <2>3, <2>5, <2>6, <2>7, <2>8, <2>9 DEF TxnOK, OpenOK
  <2>11. Proper(j, u)
    BY <1>5, <1>6, <2>2, <2>10 DEF Proper
  <2> QED BY <1>8, <2>11 DEF Moves, u
<1> QED BY <1>2, <1>3, <1>7, <1>8 DEF t, h

\* _new_generation with the incident of the bundle, rewritten or new.
LEMMA RenewedProper ==
  ASSUME CorrelationInv, NEW j \in Jobs, NEW t, t = txn[j], t.pc \in {"renew", "renew_insert"},
         \A o \in Jobs \ {j} : Needed(j) \cap txn[o].held = {},
         Needed(j) = {<<"incident", batch[j][t.at].id>>},
         NEW new, new.key = batch[j][t.at].key,
         Brings(j, t.at, t.incidents, batch[j][t.at].id, new)
  PROVE  Proper(j, Renewed(j, Hold(t, j), new))
<1> DEFINE b == batch[j][t.at]
           expires == ExpiresAt(t.now, b.last)
           srow == [t.row EXCEPT !.incident = b.id, !.generation = @ + 1,
                                 !.first = b.first, !.last = b.last, !.expires = expires]
<1>1. t.pc \in Resolving /\ t.pc \in Following
  BY DEF Resolving, Following
<1>2. /\ TypeOK /\ Bundle(j) = b /\ b \in BundleType /\ t.now \in Nat /\ FollowsRow(j, t)
  BY <1>1, OnBundle
<1>3. t.row \in StateRow
  BY <1>1, <1>2 DEF FollowsRow
<1>4. b.id \in Ids /\ b.first \in Nat /\ b.last \in Nat
  BY <1>2 DEF BundleType
<1>5. expires \in Nat
  BY <1>2, <1>4, ExpiryTyped
<1>6. Renewed(j, Hold(t, j), new) = Guarded(j, Wrote(Hold(t, j), b.id, new), srow)
  BY <1>2 DEF Renewed
<1>b. /\ Needed(j) = {<<"incident", b.id>>} /\ new.key = batch[j][t.at].key
      /\ Brings(j, t.at, t.incidents, b.id, new)
  OBVIOUS
<1>s. srow = [t.row EXCEPT !.incident = b.id, !.generation = t.row.generation + 1,
                           !.first = b.first, !.last = b.last, !.expires = expires]
  OBVIOUS
<1> HIDE DEF b, expires, srow
<1>7. Succeeds(t.row, srow) /\ srow.incident = b.id
  <2>1. t.row.generation + 1 \in Nat
    BY <1>3 DEF StateRow
  <2> DEFINE generation == t.row.generation + 1
  <2>2. srow = [t.row EXCEPT !.incident = b.id, !.generation = generation,
                             !.first = b.first, !.last = b.last, !.expires = expires]
    BY <1>s
  <2> HIDE DEF generation
  <2>3. generation \in Nat
    BY <2>1 DEF generation
  <2>4. /\ srow \in StateRow /\ srow.incident = b.id /\ srow.generation = generation
        /\ srow.guard = t.row.guard
    BY <1>3, <1>4, <1>5, <2>2, <2>3 DEF StateRow
  <2> QED BY <2>4 DEF Succeeds, generation
<1>8. Proper(j, Guarded(j, Wrote(Hold(t, j), b.id, new), srow))
  BY <1>1, <1>4, <1>7, <1>b, GuardedProper
<1> QED BY <1>6, <1>8

LEMMA LockRenewedMoves ==
  ASSUME CorrelationInv, NEW j \in Jobs, LockRenewed(j)
  PROVE  Moves(j)
<1> DEFINE t == txn[j]
           b == batch[j][t.at]
           old == IncidentSeen(j, b.id)
<1>0. t.pc = "renew" /\ \A o \in Jobs \ {j} : Needed(j) \cap txn[o].held = {}
  BY DEF LockRenewed, Granted
<1>1. /\ t.pc \in Resolving /\ t.pc \notin Creating /\ t.pc # "resolve" /\ t.pc \in Following
  BY <1>0 DEF Resolving, Creating, Following
<1>2. /\ TypeOK /\ IsTxn(t) /\ Bundle(j) = b /\ b \in BundleType /\ t.at \in DOMAIN batch[j]
      /\ Placed(j, t) /\ Accounted(j, t) /\ FollowsRow(j, t)
      /\ Follows(j, HeldOf(t), RowsOf(t), FinalOf(t), t.states)
  BY <1>1, OnBundle
<1>3. HeldOf(t) = t.held /\ RowsOf(t) = t.incidents /\ FinalOf(t) = t.final
  BY <1>1, NoSavepoint
<1>f. Follows(j, t.held, t.incidents, t.final, t.states)
  BY <1>2, <1>3
<1>4. b.id \in Ids /\ b.key \in Keys \cup {NoKey}
  BY <1>2 DEF BundleType
<1>5. old = SeenIn(t.incidents, b.id)
  BY Views
<1>g. TypeOK /\ t.at \in DOMAIN batch[j] /\ b.id \in Ids
  BY <1>2, <1>4
<1>6. CASE old = Absent
  <2> DEFINE target == b.id
             u == [t EXCEPT !.target = target, !.pc = "renew_insert"]
  <2>1. Step(j, u)
    BY <1>2, <1>6 DEF LockRenewed
  <2>a. \A o \in Jobs \ {j} : t.held \cap txn[o].held = {}
    BY <1>0, Disjoint
  <2>8. b.id \notin DOMAIN t.incidents
    <3>1. \A id \in DOMAIN t.incidents : SeenIn(t.incidents, id) # Absent
      BY <1>f DEF Follows
    <3> QED BY <1>5, <1>6, <3>1
  <2>u. u = [t EXCEPT !.target = target, !.pc = "renew_insert"]
    OBVIOUS
  <2> HIDE DEF t, u, target
  <2>2. /\ IsTxn(u) /\ u.pc = "renew_insert" /\ u.held = t.held /\ u.incidents = t.incidents
        /\ u.final = t.final /\ u.states = t.states /\ u.local = t.local /\ u.at = t.at
        /\ u.now = t.now /\ u.row = t.row /\ u.target = target
    BY <1>2, <2>u DEF IsTxn
  <2>3. /\ u.pc \in Positions /\ u.pc \notin Idle /\ u.pc \in Resolving
        /\ u.pc \notin Creating /\ u.pc \in Following
    BY <2>2 DEF Positions, Idle, Resolving, Creating, Following
  <2>4. HeldOf(u) = HeldOf(t) /\ RowsOf(u) = RowsOf(t) /\ FinalOf(u) = FinalOf(t)
    BY <1>3, <2>2, <2>3, NoSavepoint
  <2>5. Follows(j, HeldOf(u), RowsOf(u), FinalOf(u), u.states)
    BY <1>2, <2>2, <2>4
  <2>6. Placed(j, u)
    BY <1>1, <1>2, <2>2, <2>3 DEF Placed
  <2>7. Accounted(j, u)
    BY <1>0, <1>2, <2>2, <2>3, <2>4 DEF Accounted
  <2>9. Creates(j, u)
    BY <2>2, <2>3 DEF Creates, Creating
  <2>10. FollowsRow(j, u)
    BY <1>1, <1>2, <2>2, <2>3, <2>8 DEF FollowsRow, target
  <2>11. TxnOK(j, u)
    BY <2>2, <2>3, <2>5, <2>6, <2>7, <2>9, <2>10 DEF TxnOK, OpenOK
  <2> QED BY <2>1, <2>2, <2>11, <2>a DEF Moves, Proper
<1>7. CASE old # Absent
  <2> DEFINE new == Reconciled(old, b, j, b.key)
             u == Renewed(j, Hold(t, j), new)
  <2>1. Step(j, u)
    BY <1>2, <1>7 DEF LockRenewed
  <2>2. Needed(j) = {<<"incident", b.id>>}
    BY <1>0, <1>2, <1>7 DEF Needed, LockOf
  <2>3. old \in IncidentRow
    BY <1>g, <1>f, <1>5, <1>7, SeenTyped
  <2>4. RewrittenBy(old, b, j, b.key, new)
    BY <1>2, <1>4, <2>3, ReconciledIs
  <2>t. t = txn[j] /\ t.pc \in {"renew", "renew_insert"}
    BY <1>0
  <2> HIDE DEF t, new, old
  <2>5. /\ SeenIn(t.incidents, b.id) # Absent
        /\ RewrittenBy(SeenIn(t.incidents, b.id), batch[j][t.at], j, b.key, new)
    BY <1>5, <1>7, <2>4
  <2>6. Brings(j, t.at, t.incidents, b.id, new) /\ new.key = b.key
    BY <1>f, <1>g, <2>5, RewriteBrings
  <2>7. Proper(j, u)
    BY <1>0, <2>2, <2>6, <2>t, RenewedProper
  <2> HIDE DEF u
  <2> QED BY <2>1, <2>7 DEF Moves
<1> QED BY <1>6, <1>7

LEMMA InsertRenewedMoves ==
  ASSUME CorrelationInv, NEW j \in Jobs, InsertRenewed(j)
  PROVE  Moves(j)
<1> DEFINE t == txn[j]
           b == batch[j][t.at]
<1>0. t.pc = "renew_insert" /\ \A o \in Jobs \ {j} : Needed(j) \cap txn[o].held = {}
  BY DEF InsertRenewed, Granted
<1>1. /\ t.pc \in Resolving /\ t.pc \in Following
  BY <1>0 DEF Resolving, Following
<1>2. /\ TypeOK /\ Bundle(j) = b /\ b \in BundleType /\ t.at \in DOMAIN batch[j] /\ FollowsRow(j, t)
  BY <1>1, OnBundle
<1>3. CASE incident[b.id] # Absent
  <2>1. Step(j, Ended("failed"))
    BY <1>2, <1>3 DEF InsertRenewed
  <2> QED BY <2>1, EndedProper DEF Moves
<1>4. CASE incident[b.id] = Absent
  <2> DEFINE new == Fresh(b, j, b.key)
             u == Renewed(j, Hold(t, j), new)
  <2>1. Step(j, u)
    BY <1>2, <1>4 DEF InsertRenewed
  <2>2. t.target = b.id /\ b.id \notin DOMAIN t.incidents
    BY <1>0, <1>2 DEF FollowsRow
  <2>3. Needed(j) = {<<"incident", b.id>>}
    BY <1>0, <2>2 DEF Needed
  <2>4. SeenIn(t.incidents, b.id) = Absent /\ b.id \in Ids /\ b.key \in Keys \cup {NoKey}
    BY <1>2, <1>4, <2>2 DEF SeenIn, BundleType
  <2>t. t = txn[j] /\ t.pc \in {"renew", "renew_insert"} /\ new = Fresh(batch[j][t.at], j, b.key)
    BY <1>0
  <2> HIDE DEF t, new
  <2>5. Brings(j, t.at, t.incidents, b.id, new) /\ new.key = b.key
    BY <1>2, <1>4, <2>4, <2>t, FreshBrings
  <2>6. Proper(j, u)
    BY <1>0, <2>3, <2>5, <2>t, RenewedProper
  <2> HIDE DEF u
  <2> QED BY <2>1, <2>6 DEF Moves
<1> QED BY <1>3, <1>4

LEMMA TailIs ==
  ASSUME NEW S, NEW s \in Seq(S), s # <<>>
  PROVE  /\ Tail(s) \in Seq(S) /\ Head(s) \in S
         /\ \A m : Listed(s, m) => m = Head(s) \/ Listed(Tail(s), m)
<1>1. /\ Tail(s) \in Seq(S) /\ Head(s) \in S /\ Head(s) = s[1] /\ Len(s) \in Nat \ {0}
      /\ DOMAIN s = 1 .. Len(s) /\ DOMAIN Tail(s) = 1 .. Len(s) - 1
      /\ \A i \in 1 .. Len(s) - 1 : Tail(s)[i] = s[i + 1]
  OBVIOUS
<1>2. ASSUME NEW m, NEW i \in DOMAIN s, s[i] = m, m # Head(s)
      PROVE  Listed(Tail(s), m)
  <2>1. i # 1 /\ i - 1 \in 1 .. Len(s) - 1
    BY <1>1, <1>2
  <2>2. Tail(s)[i - 1] = m
    BY <1>1, <1>2, <2>1
  <2> QED BY <1>1, <2>1, <2>2 DEF Listed
<1> QED BY <1>1, <1>2 DEF Listed

\* _persist_batch_local_incident, with the incident rewritten or new.
LEMMA KeptProper ==
  ASSUME CorrelationInv, NEW j \in Jobs, NEW t, t = txn[j], t.pc \in {"local", "local_insert"},
         \A o \in Jobs \ {j} : Needed(j) \cap txn[o].held = {},
         NEW id \in Ids, id = Bundle(j).id, Needed(j) = {<<"incident", id>>},
         NEW row, Brings(j, t.at, t.incidents, id, row),
         \/ row.key = NoKey
         \/ /\ SeenIn(t.incidents, id) # Absent /\ row.key = SeenIn(t.incidents, id).key
            /\ \/ row.key \in DOMAIN t.states
               \/ incident[id] # Absent /\ row.key = incident[id].key
  PROVE  Proper(j, Kept(j, Hold(t, j), row))
<1> DEFINE h == Hold(t, j)
           v == Wrote(h, id, row)
           local == Tail(v.local)
           w == [v EXCEPT !.local = local]
           u == NextLocal(w)
<1>1. /\ t.pc \notin Idle /\ t.pc \notin Resolving /\ t.pc \notin Creating
      /\ t.pc \notin {"events", "insert_events"}
  BY DEF Idle, Resolving, Creating, Following
<1>2. TypeOK /\ IsTxn(t) /\ OpenOK(j, t)
  BY <1>1, Opened
<1>3. HeldOf(t) = t.held /\ RowsOf(t) = t.incidents /\ FinalOf(t) = t.final
  BY <1>1, NoSavepoint
<1>4. Follows(j, t.held, t.incidents, t.final, t.states)
  BY <1>2, <1>3 DEF OpenOK
<1>5. /\ t.now \in Nat /\ t.local \in Seq(DOMAIN batch[j])
      /\ t.local # <<>> /\ t.at = Head(t.local)
  BY <1>2 DEF OpenOK, Placed
<1>6. \A m \in DOMAIN batch[j] : Covered(j, t.incidents, m) \/ Listed(t.local, m)
  BY <1>1, <1>2, <1>3 DEF OpenOK, Accounted
<1>7. \A o \in Jobs \ {j} : (t.held \cup Needed(j)) \cap txn[o].held = {}
  BY Disjoint
<1>8. Kept(j, h, row) = u
  BY DEF Kept
<1>9. /\ IsTxn(h) /\ h.held = t.held \cup Needed(j) /\ h.final = t.final /\ h.now = t.now
      /\ h.states = t.states /\ h.incidents = t.incidents /\ h.local = t.local
  BY <1>2, HoldIs
<1> HIDE DEF h
<1>10. /\ IsTxn(v) /\ v.incidents = Written(h.incidents, id, row)
       /\ v.final = h.final \cup {id} /\ v.held = h.held /\ v.now = h.now
       /\ v.states = h.states /\ v.local = h.local
  BY <1>9, WroteIs
<1> HIDE DEF v
<1>l. local = Tail(t.local)
  BY <1>9, <1>10
<1>w. w = [v EXCEPT !.local = local]
  OBVIOUS
<1> HIDE DEF local, w
<1>11. /\ IsTxn(w) /\ w.incidents = v.incidents /\ w.final = v.final /\ w.held = v.held
       /\ w.now = v.now /\ w.states = v.states /\ w.local = local
  BY <1>10, <1>w DEF IsTxn
<1>12. Follows(j, w.held, w.incidents, w.final, w.states)
  <2>1. w.held = t.held \cup {<<"incident", id>>}
    BY <1>9, <1>10, <1>11
  <2>2. Follows(j, w.held, t.incidents, t.final, t.states) /\ <<"incident", id>> \in w.held
    BY <1>4, <2>1, MoreHeld
  <2>3. Follows(j, w.held, Written(t.incidents, id, row), t.final \cup {id}, t.states)
    BY <2>2, WriteKept
  <2> QED BY <1>9, <1>10, <1>11, <2>3
<1>13. \A m \in DOMAIN batch[j] : Covered(j, w.incidents, m) \/ Listed(w.local, m)
  <2>1. /\ Covered(j, Written(t.incidents, id, row), t.at)
        /\ \A m \in DOMAIN batch[j] : Covered(j, t.incidents, m)
                                      => Covered(j, Written(t.incidents, id, row), m)
    BY StaysCovered
  <2>2. \A m : Listed(t.local, m) => m = t.at \/ Listed(w.local, m)
    BY <1>5, <1>11, <1>l, TailIs
  <2> QED BY <1>6, <1>9, <1>10, <1>11, <2>1, <2>2
<1>14. w.now \in Nat /\ w.local \in Seq(DOMAIN batch[j])
  <2>1. Tail(t.local) \in Seq(DOMAIN batch[j])
    BY <1>5, TailIs
  <2> QED BY <1>5, <1>9, <1>10, <1>11, <1>l, <2>1
<1>15. TxnOK(j, u) /\ u.held = w.held /\ u.pc # "committed"
  BY <1>2, <1>11, <1>12, <1>13, <1>14, NextLocalOK
<1> HIDE DEF u
<1>16. Proper(j, u)
  BY <1>7, <1>9, <1>10, <1>11, <1>15 DEF Proper
<1> QED BY <1>8, <1>16 DEF h

LEMMA LockLocalMoves ==
  ASSUME CorrelationInv, NEW j \in Jobs, LockLocal(j)
  PROVE  Moves(j)
<1> DEFINE t == txn[j]
           b == batch[j][t.at]
           old == IncidentSeen(j, b.id)
<1>0. t.pc = "local" /\ \A o \in Jobs \ {j} : Needed(j) \cap txn[o].held = {}
  BY DEF LockLocal, Granted
<1>1. /\ t.pc \notin Idle /\ t.pc \notin Resolving /\ t.pc \notin Creating /\ t.pc \notin Following
      /\ t.pc \notin {"events", "insert_events"}
  BY <1>0 DEF Idle, Resolving, Creating, Following
<1>2. TypeOK /\ IsTxn(t) /\ OpenOK(j, t)
  BY <1>1, Opened
<1>3. HeldOf(t) = t.held /\ RowsOf(t) = t.incidents /\ FinalOf(t) = t.final
  BY <1>1, NoSavepoint
<1>f. Follows(j, t.held, t.incidents, t.final, t.states)
  BY <1>2, <1>3 DEF OpenOK
<1>4. /\ t.local \in Seq(DOMAIN batch[j]) /\ t.local # <<>> /\ t.at = Head(t.local)
  BY <1>0, <1>2 DEF OpenOK, Placed
<1>g. t.at \in DOMAIN batch[j] /\ b \in BundleType /\ Bundle(j) = b
  BY <1>2, <1>4, TailIs, BundlesTyped DEF Bundle
<1>h. b.id \in Ids
  BY <1>g DEF BundleType
<1>5. old = SeenIn(t.incidents, b.id)
  BY Views
<1>6. CASE old = Absent
  <2> DEFINE target == b.id
             u == [t EXCEPT !.target = target, !.pc = "local_insert"]
  <2>1. Step(j, u)
    BY <1>g, <1>6 DEF LockLocal
  <2>a. \A o \in Jobs \ {j} : t.held \cap txn[o].held = {}
    BY <1>0, Disjoint
  <2>8. b.id \notin DOMAIN t.incidents
    <3>1. \A id \in DOMAIN t.incidents : SeenIn(t.incidents, id) # Absent
      BY <1>f DEF Follows
    <3> QED BY <1>5, <1>6, <3>1
  <2>u. u = [t EXCEPT !.target = target, !.pc = "local_insert"]
    OBVIOUS
  <2> HIDE DEF t, u, target
  <2>2. /\ IsTxn(u) /\ u.pc = "local_insert" /\ u.held = t.held /\ u.incidents = t.incidents
        /\ u.final = t.final /\ u.states = t.states /\ u.local = t.local /\ u.at = t.at
        /\ u.now = t.now /\ u.target = target
    BY <1>2, <2>u DEF IsTxn
  <2>3. /\ u.pc \in Positions /\ u.pc \notin Idle /\ u.pc \notin Resolving
        /\ u.pc \notin Creating /\ u.pc \notin Following
    BY <2>2 DEF Positions, Idle, Resolving, Creating, Following
  <2>4. HeldOf(u) = HeldOf(t) /\ RowsOf(u) = RowsOf(t) /\ FinalOf(u) = FinalOf(t)
    BY <1>3, <2>2, <2>3, NoSavepoint
  <2>5. Follows(j, HeldOf(u), RowsOf(u), FinalOf(u), u.states)
    BY <1>2, <2>2, <2>4 DEF OpenOK
  <2>6. Placed(j, u)
    BY <1>2, <1>4, <2>2, <2>3 DEF OpenOK, Placed
  <2>7. Accounted(j, u)
    BY <1>1, <1>2, <2>2, <2>4 DEF OpenOK, Accounted
  <2>9. Creates(j, u)
    BY <2>2, <2>3 DEF Creates, Creating
  <2>10. FollowsRow(j, u)
    BY <2>2, <2>3, <2>8 DEF FollowsRow, target
  <2>11. TxnOK(j, u)
    BY <2>2, <2>3, <2>5, <2>6, <2>7, <2>9, <2>10 DEF TxnOK, OpenOK
  <2> QED BY <2>1, <2>2, <2>11, <2>a DEF Moves, Proper
<1>7. CASE old # Absent
  <2> DEFINE row == Reconciled(old, b, j, old.key)
             u == Kept(j, Hold(t, j), row)
  <2>1. Step(j, u)
    BY <1>g, <1>7 DEF LockLocal
  <2>2. Needed(j) = {<<"incident", b.id>>}
    BY <1>0, <1>g, <1>7 DEF Needed, LockOf
  <2>3. /\ old \in IncidentRow
        /\ \/ old.key \in DOMAIN t.states \cup {NoKey}
           \/ incident[b.id] # Absent /\ old.key = incident[b.id].key
    BY <1>2, <1>f, <1>h, <1>5, <1>7, SeenTyped
  <2>k. old.key \in Keys \cup {NoKey}
    BY <2>3 DEF IncidentRow
  <2>4. RewrittenBy(old, b, j, old.key, row)
    BY <1>g, <2>3, <2>k, ReconciledIs
  <2>t. t = txn[j] /\ t.pc \in {"local", "local_insert"} /\ b.id = Bundle(j).id
    BY <1>0, <1>g
  <2> HIDE DEF t, row, old
  <2>5. /\ SeenIn(t.incidents, b.id) # Absent
        /\ RewrittenBy(SeenIn(t.incidents, b.id), batch[j][t.at], j, old.key, row)
    BY <1>5, <1>7, <2>4
  <2>i. TypeOK /\ t.at \in DOMAIN batch[j]
    BY <1>2, <1>g
  <2>6. Brings(j, t.at, t.incidents, b.id, row) /\ row.key = old.key
    BY <1>f, <1>h, <2>5, <2>i, RewriteBrings
  <2>7. \/ row.key = NoKey
        \/ /\ SeenIn(t.incidents, b.id) # Absent /\ row.key = SeenIn(t.incidents, b.id).key
           /\ \/ row.key \in DOMAIN t.states
              \/ incident[b.id] # Absent /\ row.key = incident[b.id].key
    BY <1>5, <2>3, <2>5, <2>6
  <2> DEFINE id == b.id
  <2>9. /\ id \in Ids /\ id = Bundle(j).id /\ Needed(j) = {<<"incident", id>>}
        /\ Brings(j, t.at, t.incidents, id, row)
        /\ \/ row.key = NoKey
           \/ /\ SeenIn(t.incidents, id) # Absent /\ row.key = SeenIn(t.incidents, id).key
              /\ \/ row.key \in DOMAIN t.states
                 \/ incident[id] # Absent /\ row.key = incident[id].key
    BY <1>h, <2>2, <2>6, <2>7, <2>t
  <2> HIDE DEF id
  <2>8. Proper(j, u)
    BY <1>0, <2>9, <2>t, KeptProper
  <2> HIDE DEF u
  <2> QED BY <2>1, <2>8 DEF Moves
<1> QED BY <1>6, <1>7

LEMMA InsertLocalMoves ==
  ASSUME CorrelationInv, NEW j \in Jobs, InsertLocal(j)
  PROVE  Moves(j)
<1> DEFINE t == txn[j]
           b == batch[j][t.at]
           id == b.id
<1>0. t.pc = "local_insert" /\ \A o \in Jobs \ {j} : Needed(j) \cap txn[o].held = {}
  BY DEF InsertLocal, Granted
<1>1. /\ t.pc \notin Idle
  BY <1>0 DEF Idle
<1>2. TypeOK /\ OpenOK(j, t)
  BY <1>1, Opened
<1>3. /\ t.local \in Seq(DOMAIN batch[j]) /\ t.local # <<>> /\ t.at = Head(t.local)
      /\ t.target = id /\ id \notin DOMAIN t.incidents
  BY <1>0, <1>2 DEF OpenOK, Placed, FollowsRow
<1>4. t.at \in DOMAIN batch[j] /\ b \in BundleType /\ Bundle(j) = b
  BY <1>2, <1>3, TailIs, BundlesTyped DEF Bundle
<1>5. CASE incident[id] # Absent
  <2>1. Step(j, Ended("failed"))
    BY <1>4, <1>5 DEF InsertLocal
  <2> QED BY <2>1, EndedProper DEF Moves
<1>6. CASE incident[id] = Absent
  <2> DEFINE row == Fresh(b, j, NoKey)
             u == Kept(j, Hold(t, j), row)
  <2>1. Step(j, u)
    BY <1>4, <1>6 DEF InsertLocal
  <2>2. Needed(j) = {<<"incident", id>>}
    BY <1>0, <1>3 DEF Needed
  <2>3. SeenIn(t.incidents, id) = Absent /\ id \in Ids
    BY <1>3, <1>4, <1>6 DEF SeenIn, BundleType
  <2>t. /\ t = txn[j] /\ t.pc \in {"local", "local_insert"} /\ id = Bundle(j).id
        /\ row = Fresh(batch[j][t.at], j, NoKey)
    BY <1>0, <1>4
  <2> HIDE DEF t, row, id, b
  <2>4. NoKey \in Keys \cup {NoKey}
    OBVIOUS
  <2>5. Brings(j, t.at, t.incidents, id, row) /\ row.key = NoKey
    <3>1. TypeOK /\ t.at \in DOMAIN batch[j]
      BY <1>2, <1>4
    <3> QED BY <1>6, <2>3, <2>4, <2>t, <3>1, FreshBrings
  <2>6. Proper(j, u)
    BY <1>0, <2>2, <2>3, <2>5, <2>t, KeptProper
  <2> HIDE DEF u
  <2> QED BY <2>1, <2>6 DEF Moves
<1> QED BY <1>5, <1>6

-----------------------------------------------------------------------------
(***************************************************************************)
(* What the steps of the others leave to an open transaction.              *)
(***************************************************************************)

\* A step of somebody else: no row the transaction has locked changes, no
\* incident loses anything, and none is given a key whose row it has locked.
Harmless(t) ==
    /\ batch' = batch /\ event \subseteq event'
    /\ \A id \in Ids : <<"incident", id>> \in t.held => incident'[id] = incident[id]
    /\ \A k \in Keys : <<"state", k>> \in t.held => state'[k] = state[k]
    /\ \A id \in Ids : incident[id] # Absent =>
            incident'[id] # Absent /\ Gains(incident[id], incident'[id])
    /\ \A id \in Ids, k \in Keys :
            <<"state", k>> \in t.held /\ incident'[id] # Absent /\ incident'[id].key = k =>
                incident[id] # Absent /\ incident[id].key = k

LEMMA SeenFrame ==
  ASSUME NEW t, Harmless(t), NEW rows, NEW id \in Ids
  PROVE  /\ id \in DOMAIN rows \/ <<"incident", id>> \in t.held => SeenIn(rows, id)' = SeenIn(rows, id)
         /\ SeenIn(rows, id) # Absent =>
                SeenIn(rows, id)' # Absent /\ Gains(SeenIn(rows, id), SeenIn(rows, id)')
         /\ \A k \in Keys : <<"state", k>> \in t.held =>
                OwnedBy(rows, k)' \subseteq OwnedBy(rows, k)
<1>1. SeenIn(rows, id)' = IF id \in DOMAIN rows THEN rows[id] ELSE incident'[id]
  BY DEF SeenIn
<1>2. SeenIn(rows, id) = IF id \in DOMAIN rows THEN rows[id] ELSE incident[id]
  BY DEF SeenIn
<1>3. id \in DOMAIN rows \/ <<"incident", id>> \in t.held => SeenIn(rows, id)' = SeenIn(rows, id)
  BY <1>1, <1>2 DEF Harmless
<1>4. SeenIn(rows, id) # Absent =>
                SeenIn(rows, id)' # Absent /\ Gains(SeenIn(rows, id), SeenIn(rows, id)')
  <2>1. CASE id \in DOMAIN rows
    BY <1>1, <1>2, <2>1 DEF Gains
  <2>2. CASE id \notin DOMAIN rows
    <3>1. SeenIn(rows, id) = incident[id] /\ SeenIn(rows, id)' = incident'[id]
      BY <1>1, <1>2, <2>2
    <3>2. incident[id] # Absent => incident'[id] # Absent /\ Gains(incident[id], incident'[id])
      BY DEF Harmless
    <3> QED BY <3>1, <3>2
  <2> QED BY <2>1, <2>2
<1>5. ASSUME NEW k \in Keys, <<"state", k>> \in t.held, NEW x \in OwnedBy(rows, k)'
      PROVE  x \in OwnedBy(rows, k)
  <2>1. /\ x \in Ids
        /\ IF x \in DOMAIN rows THEN rows[x] # Absent /\ rows[x].key = k
           ELSE incident'[x] # Absent /\ incident'[x].key = k
    BY <1>5 DEF OwnedBy, SeenIn
  <2>2. x \notin DOMAIN rows => incident[x] # Absent /\ incident[x].key = k
    BY <1>5, <2>1 DEF Harmless
  <2> QED BY <2>1, <2>2 DEF OwnedBy, SeenIn
<1> QED BY <1>3, <1>4, <1>5

LEMMA JobEventsFrame ==
  ASSUME batch' = batch, NEW j
  PROVE  JobEvents(j)' = JobEvents(j)
BY DEF JobEvents

LEMMA FollowsFrame ==
  ASSUME NEW t, Harmless(t), NEW j, NEW held, held \subseteq t.held, NEW rows, NEW final, NEW states,
         Follows(j, held, rows, final, states)
  PROVE  Follows(j, held, rows, final, states)'
<1>0. batch' = batch /\ event \subseteq event'
  BY DEF Harmless
<1>1. /\ DOMAIN rows \subseteq final /\ final \subseteq Ids /\ DOMAIN states \subseteq Keys
      /\ \A id \in final : <<"incident", id>> \in held /\ SeenIn(rows, id) # Absent
      /\ \A k \in DOMAIN states : <<"state", k>> \in held
  BY DEF Follows
<1>2. \A id \in final : SeenIn(rows, id)' # Absent
  BY <1>1, SeenFrame
<1>3. ASSUME NEW id \in DOMAIN rows
      PROVE  RowFollows(j, states, id, rows[id])'
  <2>1. RowFollows(j, states, id, rows[id])
    BY DEF Follows
  <2>2. incident'[id] = incident[id]
    BY <1>1 DEF Harmless
  <2>3. JobEvents(j)' = JobEvents(j)
    BY <1>0, JobEventsFrame
  <2>4. rows[id].events \cup rows[id].context \subseteq event' \cup JobEvents(j)'
    BY <1>0, <2>1, <2>3 DEF RowFollows
  <2> QED BY <2>1, <2>2, <2>4 DEF RowFollows
<1>4. ASSUME NEW k \in DOMAIN states
      PROVE  StateFollows(rows, k, states[k])'
  <2>1. StateFollows(rows, k, states[k]) /\ k \in Keys /\ <<"state", k>> \in t.held
    BY <1>1 DEF Follows
  <2>2. state'[k] = state[k]
    BY <2>1 DEF Harmless
  <2>3. OwnedBy(rows, k)' \subseteq OwnedBy(rows, k)
    <3>1. ASSUME NEW x \in OwnedBy(rows, k)'
          PROVE  x \in OwnedBy(rows, k)
      <4>1. x \in Ids
        BY DEF OwnedBy
      <4> QED BY <2>1, <4>1, SeenFrame
    <3> QED BY <3>1
  <2>4. states[k].generation \in Nat
    BY <2>1 DEF StateFollows, StateRow
  <2>5. AtMost(OwnedBy(rows, k) \cup {states[k].incident}, states[k].generation)
    BY <2>1 DEF StateFollows
  <2>6. AtMost(OwnedBy(rows, k)' \cup {states[k].incident}, states[k].generation)
    BY <2>3, <2>4, <2>5, AtMostSubset
  <2> QED BY <2>1, <2>2, <2>6 DEF StateFollows
<1> QED BY <1>1, <1>2, <1>3, <1>4 DEF Follows

LEMMA CoveredFrame ==
  ASSUME NEW t, Harmless(t), NEW j, NEW rows, NEW n, Covered(j, rows, n)
  PROVE  Covered(j, rows, n)'
<1>1. PICK id \in Ids : Holds(j, n, SeenIn(rows, id))
  BY DEF Covered
<1>2. SeenIn(rows, id)' # Absent /\ Gains(SeenIn(rows, id), SeenIn(rows, id)')
  BY <1>1, SeenFrame DEF Holds
<1>3. batch' = batch
  BY DEF Harmless
<1>4. j \in SeenIn(rows, id)'.jobs /\ batch'[j][n].events \subseteq SeenIn(rows, id)'.events
  BY <1>1, <1>2, <1>3 DEF Holds, Gains
<1>5. Holds(j, n, SeenIn(rows, id))'
  BY <1>2, <1>4 DEF Holds
<1> QED BY <1>5 DEF Covered

LEMMA BringsFrame ==
  ASSUME NEW t, Harmless(t), NEW j, NEW n, NEW rows, NEW id \in Ids, NEW row,
         Brings(j, n, rows, id, row), <<"incident", id>> \in t.held
  PROVE  Brings(j, n, rows, id, row)'
<1>1. batch' = batch /\ event \subseteq event' /\ incident'[id] = incident[id]
  BY DEF Harmless
<1>2. SeenIn(rows, id)' = SeenIn(rows, id)
  BY SeenFrame
<1>3. JobEvents(j)' = JobEvents(j)
  BY <1>1, JobEventsFrame
<1>4. row.events \cup row.context \subseteq event' \cup JobEvents(j)'
  BY <1>1, <1>3 DEF Brings
<1>5. Holds(j, n, row)'
  BY <1>1 DEF Brings, Holds
<1> QED BY <1>1, <1>2, <1>4, <1>5 DEF Brings

LEMMA TxnFrame ==
  ASSUME NEW t, Harmless(t), NEW j, TxnOK(j, t)
  PROVE  TxnOK(j, t)'
<1>0. batch' = batch
  BY DEF Harmless
<1>1. CASE t.pc \in Idle
  BY <1>1 DEF TxnOK, Ended
<1>2. CASE t.pc \notin Idle
  <2>1. OpenOK(j, t)
    BY <1>2 DEF TxnOK
  <2>2. HeldOf(t) \subseteq t.held
    BY <2>1 DEF OpenOK, Creates, HeldOf, Creating
  <2>3. Follows(j, HeldOf(t), RowsOf(t), FinalOf(t), t.states)'
    <3> DEFINE held == HeldOf(t)
               rows == RowsOf(t)
               final == FinalOf(t)
    <3>1. Follows(j, held, rows, final, t.states) /\ held \subseteq t.held
      BY <2>1, <2>2 DEF OpenOK
    <3>2. Follows(j, held, rows, final, t.states)'
      BY <3>1, FollowsFrame
    <3> QED BY <3>2 DEF HeldOf, RowsOf, FinalOf
  <2>4. Placed(j, t)'
    BY <1>0, <2>1 DEF OpenOK, Placed
  <2>5. Accounted(j, t)'
    <3>1. \A n : Covered(j, RowsOf(t), n) => Covered(j, RowsOf(t), n)'
      BY CoveredFrame DEF RowsOf
    <3> QED BY <1>0, <2>1, <3>1 DEF OpenOK, Accounted, RowsOf, Listed
  <2>6. Creates(j, t)'
    <3>1. CASE t.pc = "insert_state"
      <4>1. /\ t.target \in Ids /\ <<"incident", t.target>> \in t.held
            /\ Brings(j, t.at, t.saved.incidents, t.target, t.incidents[t.target])
        BY <2>1, <3>1 DEF OpenOK, Creates, Creating
      <4>2. Brings(j, t.at, t.saved.incidents, t.target, t.incidents[t.target])'
        BY <4>1, BringsFrame
      <4> QED BY <1>0, <2>1, <3>1, <4>2 DEF OpenOK, Creates, Creating
    <3>2. CASE t.pc # "insert_state"
      BY <1>0, <2>1, <3>2 DEF OpenOK, Creates, Creating
    <3> QED BY <3>1, <3>2
  <2>7. FollowsRow(j, t)'
    <3>1. ASSUME t.pc \in Following
          PROVE  StateIn(t.states, batch[j][t.at].key)' = StateIn(t.states, batch[j][t.at].key)
      <4>1. t.pc \in Resolving \ {"resolve"}
        BY <3>1 DEF Resolving, Following
      <4>2. batch[j][t.at].key \in Keys /\ <<"state", batch[j][t.at].key>> \in t.held
        BY <2>1, <3>1, <4>1 DEF OpenOK, Placed, FollowsRow
      <4>3. state'[batch[j][t.at].key] = state[batch[j][t.at].key]
        BY <4>2 DEF Harmless
      <4> QED BY <1>0, <4>3 DEF StateIn
    <3> QED BY <1>0, <2>1, <3>1 DEF OpenOK, FollowsRow
  <2> QED BY <1>2, <2>3, <2>4, <2>5, <2>6, <2>7 DEF TxnOK, OpenOK
<1> QED BY <1>1, <1>2

-----------------------------------------------------------------------------
(***************************************************************************)
(* Every step keeps the invariant.                                         *)
(***************************************************************************)

\* EvidenceKept and GenerationsHold, of one step.
Grows ==
    \A id \in Ids : incident[id] # Absent =>
        /\ incident'[id] # Absent
        /\ Gains(incident[id], incident'[id]) /\ ContextKept(incident[id], incident'[id])

Progresses ==
    \A k \in Keys : state[k] # Absent /\ state'[k] # state[k] =>
        state'[k] # Absent /\ Advances(state[k], state'[k])

LEMMA SameRow ==
  ASSUME NEW row
  PROVE  Gains(row, row) /\ ContextKept(row, row)
BY DEF Gains, ContextKept

LEMMA Quiet ==
  ASSUME UNCHANGED <<batch, event, state, incident>>
  PROVE  /\ Grows /\ Progresses
         /\ \A t : Harmless(t)
         /\ OwnersInv => OwnersInv'
<1>1. Grows
  BY SameRow DEF Grows
<1>2. Progresses
  BY DEF Progresses
<1>3. ASSUME NEW t
      PROVE  Harmless(t)
  BY SameRow DEF Harmless
<1>4. ASSUME OwnersInv
      PROVE  OwnersInv'
  <2>1. state' = state /\ incident' = incident
    OBVIOUS
  <2>2. ASSUME NEW k \in Keys
        PROVE  IF state'[k] = Absent THEN OwnedBy(<<>>, k)' = {}
               ELSE AtMost(OwnedBy(<<>>, k)' \cup {state'[k].incident}, state'[k].generation)
    <3>1. OwnedBy(<<>>, k)' = OwnedBy(<<>>, k)
      BY <2>1 DEF OwnedBy, SeenIn
    <3> QED BY <1>4, <2>1, <3>1 DEF OwnersInv
  <2> QED BY <2>2 DEF OwnersInv
<1> QED BY <1>1, <1>2, <1>3, <1>4

LEMMA MovesKeep ==
  ASSUME CorrelationInv, NEW j \in Jobs, Moves(j)
  PROVE  CorrelationInv' /\ Grows /\ Progresses
<1>1. PICK u : Step(j, u) /\ Proper(j, u)
  BY DEF Moves
<1>2. /\ UNCHANGED <<now, batch, event, state, incident, projected, patch>>
      /\ txn' = [txn EXCEPT ![j] = u]
  BY <1>1 DEF Step
<1>3. DOMAIN txn = Jobs /\ \A o \in Jobs : TxnOK(o, txn[o])
  BY DEF CorrelationInv, TxnsInv
<1>4. /\ DOMAIN txn' = Jobs /\ txn'[j] = u
      /\ \A o \in Jobs \ {j} : txn'[o] = txn[o]
  BY <1>2, <1>3
<1>q. /\ Grows /\ Progresses /\ \A t : Harmless(t) /\ OwnersInv'
  BY <1>2, Quiet DEF CorrelationInv
<1>5. TypeOK'
  BY <1>2 DEF CorrelationInv, TypeOK
<1>6. TxnsInv'
  <2>1. TxnOK(j, u)'
    BY <1>1, <1>q, TxnFrame DEF Proper
  <2>2. \A o \in Jobs \ {j} : TxnOK(o, txn[o])'
    <3>1. ASSUME NEW o \in Jobs \ {j}
          PROVE  TxnOK(o, txn[o])'
      <4> DEFINE t == txn'[o]
      <4>1. TxnOK(o, t)
        BY <1>3, <1>4
      <4>2. Harmless(t)
        BY <1>q
      <4> QED BY <4>1, <4>2, TxnFrame
    <3> QED BY <3>1
  <2> QED BY <1>4, <2>1, <2>2 DEF TxnsInv
<1>7. LocksExclude'
  BY <1>1, <1>4 DEF Proper, CorrelationInv, LocksExclude
<1>8. PatchInv'
  BY <1>2 DEF CorrelationInv, PatchInv
<1>9. CommittedCovered'
  BY <1>1, <1>2, <1>4 DEF Proper, CorrelationInv, CommittedCovered
<1> QED BY <1>5, <1>6, <1>7, <1>8, <1>9, <1>q DEF CorrelationInv

\* A status update or the clock: no transaction moves.
LEMMA OthersKeep ==
  ASSUME CorrelationInv, UNCHANGED <<batch, event, state, incident, txn>>,
         now' \in 0 .. MaxTime, PatchInv'
  PROVE  CorrelationInv' /\ Grows /\ Progresses
<1>q. /\ Grows /\ Progresses /\ \A t : Harmless(t) /\ OwnersInv'
  BY Quiet DEF CorrelationInv
<1>1. TypeOK'
  BY DEF CorrelationInv, TypeOK
<1>2. TxnsInv'
  <2>1. ASSUME NEW o \in Jobs
        PROVE  TxnOK(o, txn[o])'
    <3> DEFINE t == txn'[o]
    <3>1. TxnOK(o, t) /\ Harmless(t)
      BY <1>q DEF CorrelationInv, TxnsInv
    <3> QED BY <3>1, TxnFrame
  <2> QED BY <2>1 DEF TxnsInv, CorrelationInv
<1>3. LocksExclude' /\ CommittedCovered'
  BY DEF CorrelationInv, LocksExclude, CommittedCovered
<1> QED BY <1>1, <1>2, <1>3, <1>q DEF CorrelationInv

LEMMA TickKeeps ==
  ASSUME CorrelationInv, Tick
  PROVE  CorrelationInv' /\ Grows /\ Progresses
<1>1. now' \in 0 .. MaxTime
  <2>1. MaxTime \in Nat /\ now \in 0 .. MaxTime
    BY ConstantsAssumption DEF CorrelationInv, TypeOK
  <2> QED BY <2>1 DEF Tick
<1>2. PatchInv'
  BY DEF Tick, CorrelationInv, PatchInv
<1> QED BY <1>1, <1>2, OthersKeep DEF Tick

LEMMA ReadPatchKeeps ==
  ASSUME CorrelationInv, NEW r \in Requests, ReadPatch(r)
  PROVE  CorrelationInv' /\ Grows /\ Progresses
<1>1. PICK id \in Ids :
        /\ incident[id] # Absent
        /\ patch' = [patch EXCEPT ![r] =
                [pc |-> "read", id |-> id,
                 status |-> incident[id].status, version |-> incident[id].version]]
  BY DEF ReadPatch
<1>2. incident[id].status \in DOMAIN Allowed /\ incident[id].version \in Nat
  <2>1. incident[id] \in IncidentRow
    BY <1>1 DEF CorrelationInv, TypeOK
  <2> QED BY <2>1 DEF IncidentRow
<1>3. UNCHANGED <<now, batch, event, state, incident, txn>>
  BY DEF ReadPatch
<1>4. PatchInv'
  BY <1>1, <1>2, <1>3 DEF CorrelationInv, PatchInv
<1>5. now' \in 0 .. MaxTime
  BY <1>3 DEF CorrelationInv, TypeOK
<1> QED BY <1>3, <1>4, <1>5, OthersKeep

LEMMA AllowedClosed ==
  \A s \in DOMAIN Allowed : Allowed[s] \subseteq DOMAIN Allowed
BY DEF Allowed

\* A status update ends.
LEMMA PatchEnds ==
  ASSUME CorrelationInv, NEW r \in Requests, NEW pc, pc # "read",
         patch' = [patch EXCEPT ![r].pc = pc],
         \A id \in Ids : incident[id] # Absent => incident'[id] # Absent
  PROVE  PatchInv'
<1> DEFINE p == [patch[r] EXCEPT !.pc = pc]
<1>0. PatchInv
  BY DEF CorrelationInv
<1>1. p.pc = pc /\ p = [pc |-> p.pc, id |-> p.id, status |-> p.status, version |-> p.version]
  BY <1>0 DEF PatchInv
<1>2. DOMAIN patch = Requests
  BY <1>0 DEF PatchInv
<1>3. patch' = [patch EXCEPT ![r] = p]
  OBVIOUS
<1> HIDE DEF p
<1>4. DOMAIN patch' = Requests /\ patch'[r] = p /\ \A o \in Requests : o # r => patch'[o] = patch[o]
  BY <1>2, <1>3
<1>5. ASSUME NEW o \in Requests
      PROVE  /\ patch'[o] = [pc |-> patch'[o].pc, id |-> patch'[o].id,
                             status |-> patch'[o].status, version |-> patch'[o].version]
             /\ patch'[o].pc = "read" =>
                    /\ patch'[o].id \in Ids /\ incident'[patch'[o].id] # Absent
                    /\ patch'[o].status \in DOMAIN Allowed /\ patch'[o].version \in Nat
  <2>1. CASE o = r
    BY <1>1, <1>4, <2>1
  <2>2. CASE o # r
    BY <1>0, <1>4, <2>2 DEF PatchInv
  <2> QED BY <2>1, <2>2
<1> QED BY <1>4, <1>5 DEF PatchInv

LEMMA WritePatchKeeps ==
  ASSUME CorrelationInv, NEW r \in Requests, WritePatch(r)
  PROVE  CorrelationInv' /\ Grows /\ Progresses
<1> DEFINE id == patch[r].id
           old == incident[id]
<1>0. /\ patch[r].pc = "read" /\ \A j \in Jobs : <<"incident", id>> \notin txn[j].held
      /\ UNCHANGED <<now, batch, event, state, txn>>
  BY DEF WritePatch
<1>1. /\ id \in Ids /\ old # Absent /\ patch[r].status \in DOMAIN Allowed /\ patch[r].version \in Nat
  BY <1>0 DEF CorrelationInv, PatchInv
<1>2. /\ old \in IncidentRow /\ old.events \cup old.context \subseteq event
      /\ incident \in [Ids -> IncidentRow \cup {Absent}] /\ now \in 0 .. MaxTime
  BY <1>1 DEF CorrelationInv, TypeOK
<1>3. CASE patch' = [patch EXCEPT ![r].pc = "refused"] /\ UNCHANGED incident
  <2>1. PatchInv'
    BY <1>3, PatchEnds
  <2> QED BY <1>0, <1>2, <1>3, <2>1, OthersKeep
<1>4. ASSUME NEW to \in Allowed[patch[r].status],
             patch' = [patch EXCEPT ![r].pc = "done"],
             incident' = [incident EXCEPT ![id] =
                [incident[id] EXCEPT !.status = to, !.version = patch[r].version + 1,
                                     !.writer = r]]
      PROVE  CorrelationInv' /\ Grows /\ Progresses
  <2> DEFINE version == patch[r].version + 1
             row == [old EXCEPT !.status = to, !.version = version, !.writer = r]
  <2>1. to \in DOMAIN Allowed
    BY <1>1, <1>4, AllowedClosed
  <2>2. version \in Nat \ {0}
    BY <1>1
  <2>i. incident' = [incident EXCEPT ![id] = row]
    BY <1>4
  <2>r. row = [old EXCEPT !.status = to, !.version = version, !.writer = r]
    OBVIOUS
  <2> HIDE DEF version, row, old, id, Allowed
  <2>3. /\ row \in IncidentRow
        /\ row.events = old.events /\ row.context = old.context
        /\ row.jobs = old.jobs /\ row.key = old.key
    BY <1>2, <2>1, <2>2, <2>r DEF IncidentRow
  <2>4. Gains(old, row) /\ ContextKept(old, row) /\ row # Absent
    BY <2>3, SameAssociations, RowsAreRows
  <2>5. /\ incident' \in [Ids -> IncidentRow \cup {Absent}] /\ incident'[id] = row
        /\ \A x \in Ids : x # id => incident'[x] = incident[x]
    BY <1>1, <1>2, <2>3, <2>i
  <2>o. old = incident[id]
    BY DEF old, id
  <2>6. Grows
    BY <2>4, <2>5, <2>o, SameRow DEF Grows
  <2>7. Progresses
    BY <1>0 DEF Progresses
  <2>8. TypeOK'
    <3>1. \A x \in Ids : incident'[x] # Absent =>
            incident'[x].events \cup incident'[x].context \subseteq event'
      BY <1>0, <1>2, <2>3, <2>5 DEF CorrelationInv, TypeOK
    <3> QED BY <1>0, <2>5, <3>1 DEF CorrelationInv, TypeOK
  <2>9. ASSUME NEW o \in Jobs
        PROVE  Harmless(txn[o])
    <3>1. \A x \in Ids : <<"incident", x>> \in txn[o].held => incident'[x] = incident[x]
      BY <1>0, <2>5 DEF id
    <3>2. \A x \in Ids, k \in Keys : incident'[x] # Absent /\ incident'[x].key = k =>
                incident[x] # Absent /\ incident[x].key = k
      BY <1>1, <2>3, <2>5, <2>o
    <3> QED BY <1>0, <2>6, <3>1, <3>2 DEF Harmless, Grows
  <2>10. TxnsInv'
    <3>1. ASSUME NEW o \in Jobs
          PROVE  TxnOK(o, txn[o])'
      <4> DEFINE t == txn'[o]
      <4>1. TxnOK(o, t) /\ Harmless(t)
        BY <1>0, <2>9 DEF CorrelationInv, TxnsInv
      <4> QED BY <4>1, TxnFrame
    <3> QED BY <1>0, <3>1 DEF TxnsInv, CorrelationInv
  <2>11. OwnersInv'
    <3>1. ASSUME NEW k \in Keys
          PROVE  IF state'[k] = Absent THEN OwnedBy(<<>>, k)' = {}
                 ELSE AtMost(OwnedBy(<<>>, k)' \cup {state'[k].incident}, state'[k].generation)
      <4>1. \A x \in Ids : SeenIn(<<>>, x) = incident[x] /\ SeenIn(<<>>, x)' = incident'[x]
        BY NoRows DEF SeenIn
      <4>2. \A x \in Ids : /\ incident'[x] # Absent <=> incident[x] # Absent
                           /\ incident[x] # Absent => incident'[x].key = incident[x].key
        BY <1>1, <2>3, <2>4, <2>5, <2>o
      <4>3. OwnedBy(<<>>, k)' = OwnedBy(<<>>, k)
        BY <4>1, <4>2 DEF OwnedBy
      <4> QED BY <1>0, <4>3 DEF CorrelationInv, OwnersInv
    <3> QED BY <3>1 DEF OwnersInv
  <2>12. LocksExclude'
    BY <1>0 DEF CorrelationInv, LocksExclude
  <2>13. CommittedCovered'
    BY <1>0, <2>6 DEF CorrelationInv, CommittedCovered, Grows, Gains
  <2>14. PatchInv'
    BY <1>4, <2>6, PatchEnds DEF Grows
  <2> QED BY <2>6, <2>7, <2>8, <2>10, <2>11, <2>12, <2>13, <2>14 DEF CorrelationInv
<1> QED BY <1>3, <1>4 DEF WritePatch

\* A commit that no document conflict stops.
Commits(j, to) ==
    LET t == txn[j]
        rows == [id \in t.final |-> Transitioned(IncidentSeen(j, id), to[id])]
    IN  /\ t.pc = "finish" /\ to \in [t.final -> Outcomes]
        /\ incident' = Over(rows, incident) /\ state' = Over(t.states, state)
        /\ event' = event \cup JobEvents(j)
        /\ txn' = [txn EXCEPT ![j] = Ended("committed")]
        /\ UNCHANGED <<now, batch, patch>>

LEMMA CommitIs ==
  ASSUME NEW j, Commit(j)
  PROVE  Step(j, Ended("failed")) \/ \E to : Commits(j, to)
<1>1. PICK to \in [txn[j].final -> Outcomes] :
        LET t == txn[j]
            rows == [id \in t.final |-> Transitioned(IncidentSeen(j, id), to[id])]
            documents == {Document(id, rows[id]) : id \in t.final}
        IN  IF Conflicts(documents) THEN Step(j, Ended("failed"))
            ELSE /\ incident' = Over(rows, incident)
                 /\ state' = Over(t.states, state)
                 /\ event' = event \cup JobEvents(j)
                 /\ projected' = projected \cup documents
                 /\ txn' = [txn EXCEPT ![j] = Ended("committed")]
                 /\ UNCHANGED <<now, batch, patch>>
  BY DEF Commit
<1>2. txn[j].pc = "finish"
  BY DEF Commit
<1>3. Step(j, Ended("failed")) \/ Commits(j, to)
  BY <1>1, <1>2 DEF Commits
<1> QED BY <1>3

\* What the job has written becomes the committed rows.
LEMMA Committed ==
  ASSUME CorrelationInv, NEW j \in Jobs, NEW to, Commits(j, to), NEW t, t = txn[j]
  PROVE  /\ Follows(j, t.held, t.incidents, t.final, t.states)
         /\ \A n \in DOMAIN batch[j] : Covered(j, t.incidents, n)
         /\ state' = [k \in Keys |-> StateIn(t.states, k)]
         /\ DOMAIN incident' = Ids
         /\ \A id \in Ids \ t.final :
                incident'[id] = incident[id] /\ SeenIn(t.incidents, id) = incident[id]
         /\ \A id \in t.final :
                LET row == SeenIn(t.incidents, id)
                IN  /\ row \in IncidentRow
                    /\ incident'[id] \in IncidentRow
                    /\ incident'[id].events = row.events /\ incident'[id].context = row.context
                    /\ incident'[id].jobs = row.jobs /\ incident'[id].key = row.key
<1> DEFINE rows == [id \in t.final |-> Transitioned(IncidentSeen(j, id), to[id])]
<1>0. /\ t.pc = "finish" /\ to \in [t.final -> Outcomes]
      /\ incident' = Over(rows, incident) /\ state' = Over(t.states, state)
  BY DEF Commits
<1>1. t.pc \notin Idle /\ t.pc \notin Creating /\ t.pc \notin Resolving
  BY <1>0 DEF Idle, Resolving, Creating, Following
<1>2. TypeOK /\ OpenOK(j, t)
  BY <1>1, Opened
<1>3. Follows(j, t.held, t.incidents, t.final, t.states) /\ RowsOf(t) = t.incidents
  BY <1>1, <1>2, NoSavepoint DEF OpenOK
<1>4. \A n \in DOMAIN batch[j] : Covered(j, t.incidents, n)
  <2>1. t.local = <<>>
    BY <1>0, <1>2 DEF OpenOK, Placed
  <2>2. \A n : ~ Listed(t.local, n)
    BY <2>1, NoRows DEF Listed
  <2> QED BY <1>0, <1>1, <1>2, <1>3, <2>2 DEF OpenOK, Accounted
<1>5. state' = [k \in Keys |-> StateIn(t.states, k)]
  <2>1. DOMAIN state = Keys
    BY <1>2 DEF TypeOK
  <2> QED BY <1>0, <2>1 DEF Over, StateIn
<1>6. /\ DOMAIN incident' = Ids
      /\ \A id \in Ids : incident'[id] = IF id \in DOMAIN rows THEN rows[id] ELSE incident[id]
  <2>1. DOMAIN incident = Ids
    BY <1>2 DEF TypeOK
  <2> HIDE DEF rows
  <2> QED BY <1>0, <2>1 DEF Over
<1>7. DOMAIN rows = t.final /\ \A id \in t.final : rows[id] = Transitioned(IncidentSeen(j, id), to[id])
  OBVIOUS
<1> HIDE DEF rows
<1>8. DOMAIN t.incidents \subseteq t.final /\ t.final \subseteq Ids
      /\ \A id \in t.final : SeenIn(t.incidents, id) # Absent
  BY <1>3 DEF Follows
<1>9. \A id \in Ids \ t.final :
         incident'[id] = incident[id] /\ SeenIn(t.incidents, id) = incident[id]
  BY <1>6, <1>7, <1>8 DEF SeenIn
<1>10. ASSUME NEW id \in t.final
       PROVE  LET row == SeenIn(t.incidents, id)
              IN  /\ row \in IncidentRow
                  /\ incident'[id] \in IncidentRow
                  /\ incident'[id].events = row.events /\ incident'[id].context = row.context
                  /\ incident'[id].jobs = row.jobs /\ incident'[id].key = row.key
  <2> DEFINE row == SeenIn(t.incidents, id)
  <2>1. id \in Ids /\ row # Absent
    BY <1>8
  <2>2. row \in IncidentRow
    BY <1>2, <1>3, <2>1, SeenTyped
  <2>3. incident'[id] = Transitioned(row, to[id]) /\ to[id] \in Outcomes
    <3>1. IncidentSeen(j, id) = row
      BY Views
    <3> QED BY <1>0, <1>6, <1>7, <2>1, <3>1
  <2> HIDE DEF row
  <2>4. LET new == Transitioned(row, to[id])
        IN  /\ new \in IncidentRow
            /\ new.events = row.events /\ new.context = row.context
            /\ new.jobs = row.jobs /\ new.key = row.key
    BY <2>2, <2>3, TransitionedIs
  <2>5. /\ row \in IncidentRow
        /\ incident'[id] \in IncidentRow
        /\ incident'[id].events = row.events /\ incident'[id].context = row.context
        /\ incident'[id].jobs = row.jobs /\ incident'[id].key = row.key
    BY <2>2, <2>3, <2>4
  <2> QED BY <2>5 DEF row
<1> QED BY <1>3, <1>4, <1>5, <1>6, <1>9, <1>10

LEMMA CommitsKeep ==
  ASSUME CorrelationInv, NEW j \in Jobs, NEW to, Commits(j, to)
  PROVE  CorrelationInv' /\ Grows /\ Progresses
<1> DEFINE t == txn[j]
           rows == t.incidents
<1>0. /\ event' = event \cup JobEvents(j) /\ UNCHANGED <<now, batch, patch>>
      /\ txn' = [txn EXCEPT ![j] = Ended("committed")]
  BY DEF Commits
<1>i. /\ TypeOK /\ TxnsInv /\ LocksExclude /\ PatchInv /\ OwnersInv /\ CommittedCovered
  BY DEF CorrelationInv
<1>t. t = txn[j]
  OBVIOUS
<1>1. /\ Follows(j, t.held, rows, t.final, t.states)
      /\ \A n \in DOMAIN batch[j] : Covered(j, rows, n)
      /\ state' = [k \in Keys |-> StateIn(t.states, k)]
      /\ DOMAIN incident' = Ids
      /\ \A id \in Ids \ t.final : incident'[id] = incident[id] /\ SeenIn(rows, id) = incident[id]
      /\ \A id \in t.final :
            /\ SeenIn(rows, id) \in IncidentRow
            /\ incident'[id] \in IncidentRow
            /\ incident'[id].events = SeenIn(rows, id).events
            /\ incident'[id].context = SeenIn(rows, id).context
            /\ incident'[id].jobs = SeenIn(rows, id).jobs
            /\ incident'[id].key = SeenIn(rows, id).key
  BY Committed
<1>2. /\ DOMAIN txn = Jobs /\ DOMAIN txn' = Jobs /\ txn'[j] = Ended("committed")
      /\ \A o \in Jobs \ {j} : txn'[o] = txn[o]
  BY <1>0, <1>i DEF TxnsInv
<1> HIDE DEF t, rows
<1>3. ASSUME NEW id \in t.final
      PROVE  /\ id \in Ids /\ <<"incident", id>> \in t.held /\ SeenIn(rows, id) # Absent
             /\ SeenIn(rows, id).events \cup SeenIn(rows, id).context \subseteq event'
             /\ incident[id] # Absent => Extends(incident[id], SeenIn(rows, id))
             /\ \/ SeenIn(rows, id).key \in DOMAIN t.states \cup {NoKey}
                \/ incident[id] # Absent /\ SeenIn(rows, id).key = incident[id].key
  <2>1. id \in Ids /\ <<"incident", id>> \in t.held /\ SeenIn(rows, id) # Absent
    BY <1>1 DEF Follows
  <2> QED BY <1>0, <1>1, <1>i, <2>1, SeenTyped
<1>4. Grows
  <2>1. ASSUME NEW id \in Ids, incident[id] # Absent
        PROVE  /\ incident'[id] # Absent
               /\ Gains(incident[id], incident'[id]) /\ ContextKept(incident[id], incident'[id])
    <3>1. CASE id \in t.final
      <4> DEFINE row == SeenIn(rows, id)
      <4>1. Gains(incident[id], row) /\ ContextKept(incident[id], row)
        BY <1>3, <2>1, <3>1, SameRow DEF Extends
      <4>2. /\ incident'[id].events = row.events /\ incident'[id].context = row.context
            /\ incident'[id].jobs = row.jobs /\ incident'[id] \in IncidentRow
        BY <1>1, <3>1
      <4> HIDE DEF row
      <4>3. Gains(incident[id], incident'[id]) /\ ContextKept(incident[id], incident'[id])
        BY <4>1, <4>2, SameAssociations
      <4> QED BY <4>2, <4>3, RowsAreRows
    <3>2. CASE id \notin t.final
      BY <1>1, <2>1, <3>2, SameRow
    <3> QED BY <3>1, <3>2
  <2> QED BY <2>1 DEF Grows
<1>5. Progresses
  <2>1. ASSUME NEW k \in Keys, state[k] # Absent, state'[k] # state[k]
        PROVE  state'[k] # Absent /\ Advances(state[k], state'[k])
    <3>1. k \in DOMAIN t.states /\ state'[k] = t.states[k]
      BY <1>1, <2>1 DEF StateIn
    <3>2. StateFollows(rows, k, t.states[k])
      BY <1>1, <3>1 DEF Follows
    <3> QED BY <2>1, <3>1, <3>2, RowsAreRows DEF StateFollows
  <2> QED BY <2>1 DEF Progresses
<1>6. TypeOK'
  <2>1. incident' \in [Ids -> IncidentRow \cup {Absent}]
    <3>1. \A id \in Ids : incident'[id] \in IncidentRow \cup {Absent}
      BY <1>1, <1>i DEF TypeOK
    <3>2. incident' = [id \in Ids |-> incident'[id]]
      BY <1>1 DEF Commits, Over
    <3> QED BY <3>1, <3>2
  <2>2. state' \in [Keys -> StateRow \cup {Absent}]
    <3>1. \A k \in Keys : StateIn(t.states, k) \in StateRow \cup {Absent}
      BY <1>1, <1>i DEF StateIn, Follows, StateFollows, TypeOK
    <3> QED BY <1>1, <3>1
  <2>3. event' \subseteq Nat
    BY <1>0, <1>i, BundlesTyped DEF TypeOK
  <2>4. \A id \in Ids : incident'[id] # Absent =>
            incident'[id].events \cup incident'[id].context \subseteq event'
    <3>1. ASSUME NEW id \in Ids, incident'[id] # Absent
          PROVE  incident'[id].events \cup incident'[id].context \subseteq event'
      <4>1. CASE id \in t.final
        BY <1>1, <1>3, <4>1
      <4>2. CASE id \notin t.final
        BY <1>0, <1>1, <1>i, <3>1, <4>2 DEF TypeOK
      <4> QED BY <4>1, <4>2
    <3> QED BY <3>1
  <2> QED BY <1>0, <1>i, <2>1, <2>2, <2>3, <2>4 DEF TypeOK
<1>7. OwnersInv'
  <2>1. ASSUME NEW k \in Keys
        PROVE  IF state'[k] = Absent THEN OwnedBy(<<>>, k)' = {}
               ELSE AtMost(OwnedBy(<<>>, k)' \cup {state'[k].incident}, state'[k].generation)
    <3>1. OwnedBy(<<>>, k)' = OwnedBy(rows, k)
      <4>1. \A id \in Ids : SeenIn(<<>>, id)' = incident'[id]
        BY NoRows DEF SeenIn
      <4>2. \A id \in Ids : /\ incident'[id] # Absent <=> SeenIn(rows, id) # Absent
                            /\ SeenIn(rows, id) # Absent => incident'[id].key = SeenIn(rows, id).key
        BY <1>1, <1>3, RowsAreRows
      <4> QED BY <4>1, <4>2 DEF OwnedBy
    <3>2. state'[k] = StateIn(t.states, k)
      BY <1>1
    <3>3. IF StateIn(t.states, k) = Absent THEN OwnedBy(rows, k) = {}
          ELSE AtMost(OwnedBy(rows, k) \cup {StateIn(t.states, k).incident},
                      StateIn(t.states, k).generation)
      BY <1>1, <1>i, OwnersSeen
    <3> QED BY <3>1, <3>2, <3>3
  <2> QED BY <2>1 DEF OwnersInv
<1>8. ASSUME NEW o \in Jobs \ {j}
      PROVE  Harmless(txn[o])
  <2>0. t.held \cap txn[o].held = {}
    BY <1>i, <1>t DEF LocksExclude
  <2>1. \A id \in Ids : <<"incident", id>> \in txn[o].held => incident'[id] = incident[id]
    <3>1. \A id \in t.final : <<"incident", id>> \in t.held
      BY <1>3
    <3> QED BY <1>1, <2>0, <3>1
  <2>2. \A k \in DOMAIN t.states : <<"state", k>> \in t.held
    BY <1>1 DEF Follows
  <2>3. \A k \in Keys : <<"state", k>> \in txn[o].held => state'[k] = state[k]
    BY <1>1, <2>0, <2>2 DEF StateIn
  <2>4. ASSUME NEW id \in Ids, NEW k \in Keys, <<"state", k>> \in txn[o].held,
               incident'[id] # Absent, incident'[id].key = k
        PROVE  incident[id] # Absent /\ incident[id].key = k
    <3>1. CASE id \in t.final
      <4>1. k \notin DOMAIN t.states /\ k # NoKey
        BY <2>0, <2>2, <2>4, ConstantsAssumption
      <4>2. SeenIn(rows, id).key = k
        BY <1>1, <2>4, <3>1
      <4> QED BY <1>3, <3>1, <4>1, <4>2
    <3>2. CASE id \notin t.final
      BY <1>1, <2>4, <3>2
    <3> QED BY <3>1, <3>2
  <2>5. \A id \in Ids : incident[id] # Absent =>
            incident'[id] # Absent /\ Gains(incident[id], incident'[id])
    BY <1>4 DEF Grows
  <2> QED BY <1>0, <2>1, <2>3, <2>4, <2>5 DEF Harmless
<1>9. TxnsInv'
  <2>1. TxnOK(j, Ended("committed"))'
    BY EndedIs DEF TxnOK, Positions, Idle
  <2>2. ASSUME NEW o \in Jobs \ {j}
        PROVE  TxnOK(o, txn[o])'
    <3> DEFINE u == txn'[o]
    <3>1. TxnOK(o, u) /\ Harmless(u)
      BY <1>2, <1>8, <1>i DEF TxnsInv
    <3> QED BY <3>1, TxnFrame
  <2> QED BY <1>2, <2>1, <2>2 DEF TxnsInv
<1>10. LocksExclude'
  BY <1>2, <1>i, EndedIs DEF LocksExclude
<1>11. PatchInv'
  BY <1>0, <1>4, <1>i DEF PatchInv, Grows
<1>12. CommittedCovered'
  <2>1. ASSUME NEW n \in DOMAIN batch[j]
        PROVE  \E id \in Ids : /\ incident'[id] # Absent /\ j \in incident'[id].jobs
                               /\ batch[j][n].events \subseteq incident'[id].events
    <3>1. PICK id \in Ids : Holds(j, n, SeenIn(rows, id))
      BY <1>1 DEF Covered
    <3>2. CASE id \in t.final
      BY <1>1, <3>1, <3>2, RowsAreRows DEF Holds
    <3>3. CASE id \notin t.final
      BY <1>1, <3>1, <3>3 DEF Holds
    <3> QED BY <3>2, <3>3
  <2>2. ASSUME NEW o \in Jobs \ {j}, txn[o].pc = "committed", NEW n \in DOMAIN batch[o]
        PROVE  \E id \in Ids : /\ incident'[id] # Absent /\ o \in incident'[id].jobs
                               /\ batch[o][n].events \subseteq incident'[id].events
    BY <1>4, <1>i, <2>2 DEF CommittedCovered, Grows, Gains
  <2> QED BY <1>0, <1>2, <2>1, <2>2 DEF CommittedCovered
<1> QED BY <1>4, <1>5, <1>6, <1>7, <1>9, <1>10, <1>11, <1>12 DEF CorrelationInv

LEMMA InitHolds ==
  ASSUME Init
  PROVE  CorrelationInv
<1>0. /\ \A k \in Keys : state[k] = Absent
      /\ \A id \in Ids : incident[id] = Absent
      /\ DOMAIN txn = Jobs /\ \A j \in Jobs : txn[j] = Ended("idle")
      /\ DOMAIN patch = Requests
      /\ \A r \in Requests :
            patch[r] = [pc |-> "idle", id |-> Absent, status |-> Absent, version |-> 0]
  BY DEF Init
<1>1. TypeOK
  <2>1. MaxTime \in Nat
    BY ConstantsAssumption
  <2>2. now \in 0 .. MaxTime
    BY <2>1 DEF Init
  <2>3. /\ batch \in Inputs /\ event \subseteq Nat
        /\ state \in [Keys -> StateRow \cup {Absent}]
        /\ incident \in [Ids -> IncidentRow \cup {Absent}]
    BY DEF Init
  <2> QED BY <1>0, <2>2, <2>3 DEF TypeOK
<1>2. TxnsInv
  BY <1>0, EndedIs DEF TxnsInv, TxnOK, Positions, Idle
<1>3. LocksExclude
  BY <1>0, EndedIs DEF LocksExclude
<1>4. PatchInv
  BY <1>0 DEF PatchInv
<1>5. OwnersInv
  BY <1>0, NoRows DEF OwnersInv, OwnedBy, SeenIn
<1>6. CommittedCovered
  BY <1>0, EndedIs DEF CommittedCovered
<1> QED BY <1>1, <1>2, <1>3, <1>4, <1>5, <1>6 DEF CorrelationInv

LEMMA StatementKeeps ==
  ASSUME CorrelationInv, NEW j \in Jobs, Begin(j) \/ Statement(j) \/ Abort(j) \/ DeadlockVictim(j)
  PROVE  CorrelationInv' /\ Grows /\ Progresses
<1>1. CASE Moves(j)
  BY <1>1, MovesKeep
<1>2. ASSUME Step(j, Ended("failed"))
      PROVE  Moves(j)
  BY <1>2, EndedProper DEF Moves
<1>3. CASE Begin(j)
  BY <1>1, <1>3, BeginMoves
<1>4. CASE Abort(j) \/ DeadlockVictim(j)
  BY <1>1, <1>2, <1>4 DEF Abort, DeadlockVictim
<1>5. CASE Statement(j)
  <2>1. CASE LockEvents(j)
    BY <1>1, <2>1, LockEventsMoves
  <2>2. CASE InsertEvents(j)
    BY <1>1, <2>2, InsertEventsMoves
  <2>3. CASE Derive(j)
    BY <1>1, <2>3, DeriveMoves
  <2>4. CASE LockState(j)
    BY <1>1, <2>4, LockStateMoves
  <2>5. CASE LockPreexisting(j)
    BY <1>1, <2>5, LockPreexistingMoves
  <2>6. CASE LockTarget(j)
    BY <1>1, <2>6, LockTargetMoves
  <2>7. CASE InsertIncident(j)
    BY <1>1, <2>7, InsertIncidentMoves
  <2>8. CASE InsertState(j)
    BY <1>1, <2>8, InsertStateMoves
  <2>9. CASE RereadState(j)
    BY <1>1, <2>9, RereadStateMoves
  <2>10. CASE LockIncident(j)
    BY <1>1, <2>10, LockIncidentMoves
  <2>11. CASE LockRenewed(j)
    BY <1>1, <2>11, LockRenewedMoves
  <2>12. CASE InsertRenewed(j)
    BY <1>1, <2>12, InsertRenewedMoves
  <2>13. CASE LockLocal(j)
    BY <1>1, <2>13, LockLocalMoves
  <2>14. CASE InsertLocal(j)
    BY <1>1, <2>14, InsertLocalMoves
  <2>15. CASE Commit(j)
    BY <1>1, <1>2, <2>15, CommitIs, CommitsKeep
  <2> QED BY <1>5, <2>1, <2>2, <2>3, <2>4, <2>5, <2>6, <2>7, <2>8, <2>9, <2>10,
             <2>11, <2>12, <2>13, <2>14, <2>15 DEF Statement
<1> QED BY <1>3, <1>4, <1>5

LEMMA NextKeeps ==
  ASSUME CorrelationInv, [Next]_vars
  PROVE  CorrelationInv' /\ Grows /\ Progresses
<1>1. CASE UNCHANGED vars
  <2>1. now' \in 0 .. MaxTime /\ PatchInv'
    BY <1>1 DEF vars, CorrelationInv, TypeOK, PatchInv
  <2> QED BY <1>1, <2>1, OthersKeep DEF vars
<1>2. CASE Next
  BY <1>2, StatementKeeps, ReadPatchKeeps, WritePatchKeeps, TickKeeps DEF Next
<1> QED BY <1>1, <1>2

-----------------------------------------------------------------------------
(***************************************************************************)
(* The theorems.                                                           *)
(***************************************************************************)

\* What open transactions have written extends what is committed, under locks
\* that exclude each other (SELECT ... FOR UPDATE, the unique keys and the
\* savepoint of _try_create), in every interleaving.
THEOREM CorrelationInvariant == Spec => []CorrelationInv
<1>1. CorrelationInv /\ [Next]_vars => CorrelationInv'
  BY NextKeeps
<1> QED BY <1>1, InitHolds, PTL DEF Spec

\* Rows have their types and incidents refer to stored events only
\* (_persist_canonical_events before the first bundle).
THEOREM RowsAreTyped == Spec => []TypeOK
<1>1. CorrelationInv => TypeOK
  BY DEF CorrelationInv
<1> QED BY <1>1, CorrelationInvariant, PTL

\* No detection of a completed job is lost, whoever wins the race for the rows
\* of its campaign (resolve_and_merge and _persist_batch_local_incident).
THEOREM DetectionsAreCovered == Spec => []CommittedCovered
<1>1. CorrelationInv => CommittedCovered
  BY DEF CorrelationInv
<1> QED BY <1>1, CorrelationInvariant, PTL

\* The savepoint leaves no second incident of a generation (_try_create).
THEOREM GenerationsOwnOneIncident == Spec => []OneIncidentPerGeneration
<1>1. CorrelationInv => OneIncidentPerGeneration
  <2> SUFFICES ASSUME CorrelationInv, NEW k \in Keys
               PROVE  LET own == {id \in Ids : incident[id] # Absent /\ incident[id].key = k}
                      IN  Cardinality(own) <= IF state[k] = Absent THEN 0 ELSE state[k].generation
    BY DEF OneIncidentPerGeneration
  <2> DEFINE own == {id \in Ids : incident[id] # Absent /\ incident[id].key = k}
  <2>1. OwnedBy(<<>>, k) = own
    BY NoRows DEF OwnedBy, SeenIn
  <2>2. CASE state[k] = Absent
    <3>1. own = {}
      BY <2>1, <2>2 DEF CorrelationInv, OwnersInv
    <3> HIDE DEF own
    <3>2. Cardinality(own) = 0
      BY <3>1, FS_EmptySet
    <3>3. Cardinality(own) <= IF state[k] = Absent THEN 0 ELSE state[k].generation
      BY <2>2, <3>2
    <3> QED BY <3>3 DEF own
  <2>3. CASE state[k] # Absent
    <3>1. AtMost(own \cup {state[k].incident}, state[k].generation)
      BY <2>1, <2>3 DEF CorrelationInv, OwnersInv
    <3>2. state[k].generation \in Nat
      BY <2>3 DEF CorrelationInv, TypeOK, StateRow
    <3> HIDE DEF own
    <3>3. AtMost(own, state[k].generation)
      BY <3>1, <3>2, AtMostSubset
    <3>4. Cardinality(own) <= IF state[k] = Absent THEN 0 ELSE state[k].generation
      BY <2>3, <3>3 DEF AtMost
    <3> QED BY <3>4 DEF own
  <2> QED BY <2>2, <2>3
<1> QED BY <1>1, CorrelationInvariant, PTL

\* No write takes evidence, a job or, unless the bound displaced it, a context
\* event from an incident (merge_into_canonical, reconcile_existing_incident,
\* update_status).
THEOREM EvidenceIsKept == Spec => EvidenceKept
<1>1. CorrelationInv /\ [Next]_vars =>
        [\A id \in Ids : incident[id] # Absent =>
            LET old == incident[id] new == incident'[id]
            IN  /\ new # Absent
                /\ old.events \subseteq new.events /\ old.jobs \subseteq new.jobs
                /\ \A e \in old.context : e \in new.context \cup new.events
                                          \/ Displaced(e, old, new)]_vars
  <2> SUFFICES ASSUME CorrelationInv, [Next]_vars, NEW id \in Ids, incident[id] # Absent
               PROVE  LET old == incident[id] new == incident'[id]
                      IN  /\ new # Absent
                          /\ old.events \subseteq new.events /\ old.jobs \subseteq new.jobs
                          /\ \A e \in old.context : e \in new.context \cup new.events
                                                    \/ Displaced(e, old, new)
    OBVIOUS
  <2>1. Grows
    BY NextKeeps
  <2> QED BY <2>1 DEF Grows, Gains, ContextKept
<1> QED BY <1>1, CorrelationInvariant, PTL DEF Spec, EvidenceKept

\* A generation keeps its incident and its window only grows, each change
\* under a new guard (the guarded UPDATE of get_for_update's row).
THEOREM GenerationsAdvance == Spec => GenerationsHold
<1>1. CorrelationInv /\ [Next]_vars =>
        [\A k \in Keys : state[k] # Absent /\ state'[k] # state[k] =>
            LET old == state[k] new == state'[k]
            IN  /\ new # Absent
                /\ new.guard > old.guard /\ new.generation >= old.generation
                /\ new.generation = old.generation =>
                    new.incident = old.incident /\ new.first <= old.first
                    /\ new.last >= old.last]_vars
  <2> SUFFICES ASSUME CorrelationInv, [Next]_vars, NEW k \in Keys,
                      state[k] # Absent, state'[k] # state[k]
               PROVE  LET old == state[k] new == state'[k]
                      IN  /\ new # Absent
                          /\ new.guard > old.guard /\ new.generation >= old.generation
                          /\ new.generation = old.generation =>
                              new.incident = old.incident /\ new.first <= old.first
                              /\ new.last >= old.last
    OBVIOUS
  <2>1. Progresses
    BY NextKeeps
  <2> QED BY <2>1 DEF Progresses, Advances
<1> QED BY <1>1, CorrelationInvariant, PTL DEF Spec, GenerationsHold
=============================================================================
