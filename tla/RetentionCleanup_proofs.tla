---------------------- MODULE RetentionCleanup_proofs ----------------------
(***************************************************************************)
(* Proofs about RetentionCleanup, for any archive, any references between  *)
(* its rows and any number of calls: typing, and what a cleanup may never  *)
(* delete.                                                                 *)
(***************************************************************************)
EXTENDS RetentionCleanup, FiniteSetTheorems, TLAPS

\* The first entity type is one of the types.
LEMMA FirstType == Order[1] \in EntityTypes
  BY DEF EntityTypes

\* Counts of subsets of the roots are natural numbers.
LEMMA CountType ==
  ASSUME NEW S \in SUBSET Roots
  PROVE  Cardinality(S) \in Nat
  BY ConstantsAssumption, FS_Subset, FS_CardinalityType

\* What the writes to the run leave of it.
LEMMA RunWrites ==
  ASSUME NEW r \in RunRow
  PROVE  /\ Renewed(r) \in RunRow
         /\ r.version + 1 \in Nat
         /\ Renewed(r).status = r.status /\ Renewed(r).owner = r.owner
         /\ Renewed(r).lease = "live" /\ Renewed(r).version = r.version + 1
         /\ [r EXCEPT !.lease = "expired"] \in RunRow
<1> DEFINE a == [r EXCEPT !.lease = "live"]
<1>1. a \in RunRow /\ [r EXCEPT !.lease = "expired"] \in RunRow
  BY DEF RunRow
<1>2. /\ a.status = r.status /\ a.owner = r.owner
      /\ a.lease = "live" /\ a.version = r.version
  BY DEF RunRow
<1> HIDE DEF a
<1>3. r.version \in Nat /\ r.version + 1 \in Nat
  BY DEF RunRow
<1>4. [a EXCEPT !.version = r.version + 1] \in RunRow
  BY <1>1, <1>3 DEF RunRow
<1>5. Renewed(r) = [a EXCEPT !.version = r.version + 1]
  BY DEF Renewed, a
<1> QED BY <1>1, <1>2, <1>3, <1>4, <1>5 DEF RunRow

\* A closing write (completed or failed) keeps the row well typed.
LEMMA RunClosed ==
  ASSUME NEW r \in RunRow, NEW st \in {"completed", "failed"}
  PROVE  [r EXCEPT !.status = st, !.owner = NoOne, !.lease = "none",
                   !.version = @ + 1] \in RunRow
<1> DEFINE a == [r EXCEPT !.status = st]
           b == [a EXCEPT !.owner = NoOne]
           c == [b EXCEPT !.lease = "none"]
<1>1. a \in RunRow BY DEF RunRow
<1> HIDE DEF a
<1>2. b \in RunRow BY <1>1 DEF RunRow
<1> HIDE DEF b
<1>3. c \in RunRow BY <1>2 DEF RunRow
<1>4. c.version + 1 \in Nat BY <1>3 DEF RunRow
<1>5. c.version = r.version BY DEF a, b, c, RunRow
<1> HIDE DEF c
<1>6. [c EXCEPT !.version = @ + 1] \in RunRow BY <1>3, <1>4 DEF RunRow
<1> QED BY <1>6 DEF a, b, c

\* The counters of a committed batch are natural numbers.
LEMMA RunCounted ==
  ASSUME run \in RunRow, NEW s \in Batch
  PROVE  Counted(s) \in RunRow
<1> DEFINE nd == Cardinality(s.safe)
           np == Cardinality(s.existing \ s.safe)
           nm == Cardinality(s.scanned \ s.existing)
<1>1. nd \in Nat /\ np \in Nat /\ nm \in Nat
  BY CountType DEF Batch
<1> DEFINE a == Renewed(run)
           b == [a EXCEPT !.deleted = @ + nd]
           c == [b EXCEPT !.protected = @ + np]
<1>2. a \in RunRow BY RunWrites
<1> HIDE DEF a, nd, np, nm
<1>3. b \in RunRow BY <1>1, <1>2 DEF RunRow
<1> HIDE DEF b
<1>4. c \in RunRow BY <1>1, <1>3 DEF RunRow
<1> HIDE DEF c
<1>5. [c EXCEPT !.missing = @ + nm] \in RunRow BY <1>1, <1>4 DEF RunRow
<1> QED BY <1>5 DEF Counted, a, b, c, nd, np, nm

\* A call that is claimed owns the run.
LEMMA RunClaimed ==
  ASSUME NEW r \in RunRow, NEW e \in Executors
  PROVE  [Renewed(r) EXCEPT !.status = "running", !.owner = e] \in RunRow
<1> DEFINE a == Renewed(r)
           b == [a EXCEPT !.status = "running"]
<1>1. a \in RunRow BY RunWrites
<1> HIDE DEF a
<1>2. b \in RunRow BY <1>1 DEF RunRow
<1> HIDE DEF b
<1>3. [b EXCEPT !.owner = e] \in RunRow BY <1>2 DEF RunRow
<1> QED BY <1>3 DEF a, b

\* A batch ends within the archive, and at the cursor only when the archive
\* does.
LEMMA BatchEnds ==
  ASSUME NEW t \in EntityTypes, NEW from \in Nat, from <= Len(Archive[t])
  PROVE  /\ Len(Archive[t]) \in Nat
         /\ BatchEnd(t, from) \in from .. Len(Archive[t])
         /\ BatchEnd(t, from) = from => from = Len(Archive[t])
<1>1. Archive[t] \in Seq(Roots) /\ BatchSize \in Nat \ {0}
  BY ConstantsAssumption
<1> QED BY <1>1 DEF BatchEnd

\* The records of an archive are roots.
LEMMA RecordsAreRoots ==
  ASSUME NEW t \in EntityTypes, NEW from \in Nat, NEW to \in Nat, to <= Len(Archive[t])
  PROVE  Records(t, from, to) \subseteq Roots
<1>1. Archive[t] \in Seq(Roots)
  BY ConstantsAssumption
<1> QED BY <1>1 DEF Records

\* What BeginBatch reads is a batch.
LEMMA BatchRead ==
  ASSUME TypeOK, NEW t \in EntityTypes
  PROVE  Classified(t) \in Batch
<1>1. progress[t].cursor \in Nat /\ run.version \in Nat
  BY DEF TypeOK, RunRow
<1>2. Archive[t] \in Seq(Roots) /\ BatchSize \in Nat
  BY ConstantsAssumption
<1>3. BatchEnd(t, progress[t].cursor) \in Nat
  BY <1>1, <1>2 DEF BatchEnd
<1>4. BatchEnd(t, progress[t].cursor) <= Len(Archive[t])
  BY <1>1, <1>2 DEF BatchEnd
<1>5. Records(t, progress[t].cursor, BatchEnd(t, progress[t].cursor)) \subseteq Roots
  BY <1>1, <1>3, <1>4, RecordsAreRoots
<1> QED BY <1>1, <1>3, <1>5 DEF Classified, Batch

\* Every variable keeps its type.
THEOREM TypeCorrect == Spec => []TypeOK
<1>1. Init => TypeOK
  BY FirstType, ConstantsAssumption DEF Init, TypeOK, RunRow, CallPC, NoBatch, Batch
<1>2. TypeOK /\ [Next]_vars => TypeOK'
  <2> SUFFICES ASSUME TypeOK, [Next]_vars
               PROVE  TypeOK'
    OBVIOUS
  <2>r. run \in RunRow
    BY DEF TypeOK
  <2>n. NoBatch \in Batch
    BY FirstType DEF NoBatch, Batch
  <2>f. \A e \in Executors : [seen EXCEPT ![e] = NoBatch] \in [Executors -> Batch]
    BY <2>n DEF TypeOK
  <2>1. ASSUME NEW e \in Executors, CallStep(e) \/ Raise(e) \/ Crash(e)
        PROVE  TypeOK'
    <3>1. pc' \in [Executors -> CallPC]
      BY <2>1 DEF TypeOK, CallPC, CallStep, At, Claim, TurnedAway, BeginBatch, CommitBatch,
           CompletePhase, LoseBatch, LoseLease, CompleteRun, MarkFailed, Raise, Crash
    <3>2. run' \in RunRow
      <4>1. CASE Claim(e)
        BY <4>1, <2>r, RunClaimed DEF Claim
      <4>2. CASE CommitBatch(e)
        BY <4>2, <2>r, RunCounted DEF CommitBatch, TypeOK
      <4>3. CASE CompletePhase(e)
        BY <4>3, <2>r, RunWrites DEF CompletePhase
      <4>4. CASE CompleteRun(e)
        BY <4>4, <2>r, RunClosed DEF CompleteRun
      <4>5. CASE MarkFailed(e)
        BY <4>5, <2>r, RunClosed DEF MarkFailed
      <4>6. CASE run' = run
        BY <4>6, <2>r
      <4> QED BY <2>1, <4>1, <4>2, <4>3, <4>4, <4>5, <4>6
              DEF CallStep, TurnedAway, BeginBatch, LoseBatch, LoseLease, Raise, Crash
    <3>3. seen' \in [Executors -> Batch]
      <4>1. CASE BeginBatch(e)
        BY <4>1, BatchRead DEF BeginBatch, TypeOK
      <4>2. CASE Forget(e)
        BY <4>2, <2>f DEF Forget
      <4>3. CASE seen' = seen
        BY <4>3 DEF TypeOK
      <4> QED BY <2>1, <4>1, <4>2, <4>3
              DEF CallStep, Claim, TurnedAway, CommitBatch, CompletePhase, LoseBatch,
                  LoseLease, CompleteRun, MarkFailed, Raise, Crash
    <3>4. progress' \in [EntityTypes -> [completed : BOOLEAN, cursor : Nat]]
      <4>1. CASE CommitBatch(e)
        <5>1. seen[e].next \in Nat /\ seen[e].type \in EntityTypes
          BY DEF TypeOK, Batch
        <5>2. Advanced(seen[e]) \in [completed : BOOLEAN, cursor : Nat]
          BY <5>1 DEF Advanced
        <5> QED BY <4>1, <5>1, <5>2 DEF CommitBatch, TypeOK
      <4>2. CASE CompletePhase(e)
        <5>1. seen[e].type \in EntityTypes
          BY DEF TypeOK, Batch
        <5>2. [progress[seen[e].type] EXCEPT !.completed = TRUE]
                \in [completed : BOOLEAN, cursor : Nat]
          BY <5>1 DEF TypeOK
        <5> QED BY <4>2, <5>1, <5>2 DEF CompletePhase, TypeOK
      <4>3. CASE progress' = progress
        BY <4>3 DEF TypeOK
      <4> QED BY <2>1, <4>1, <4>2, <4>3
              DEF CallStep, Claim, TurnedAway, BeginBatch, LoseBatch, LoseLease,
                  CompleteRun, MarkFailed, Raise, Crash
    <3>5. /\ row' \in [Roots -> {"present", "deleted", "removed"}]
          /\ UNCHANGED <<held, recent, open, fresh>>
      BY <2>1 DEF CallStep, Claim, TurnedAway, BeginBatch, CommitBatch, CompletePhase,
             LoseBatch, LoseLease, CompleteRun, MarkFailed, Raise, Crash, TypeOK,
             RowsUnchanged
    <3> QED BY <3>1, <3>2, <3>3, <3>4, <3>5 DEF TypeOK
  <2>2. CASE LeaseExpires
    BY <2>2, <2>r, RunWrites DEF LeaseExpires, TypeOK, RowsUnchanged
  <2>3. ASSUME NEW x \in Holdable, PlaceHold(x) \/ LiftHold(x)
        PROVE  TypeOK'
    BY <2>3 DEF PlaceHold, LiftHold, TypeOK, RestUnchanged
  <2>4. ASSUME NEW x \in Changing, ChangeIncident(x) \/ LinkAgain(x)
        PROVE  TypeOK'
    BY <2>4 DEF ChangeIncident, LinkAgain, TypeOK, RestUnchanged
  <2>5. ASSUME NEW x \in Roots, RemoveElsewhere(x)
        PROVE  TypeOK'
    BY <2>5 DEF RemoveElsewhere, TypeOK, RestUnchanged
  <2>6. CASE UNCHANGED vars
    BY <2>6 DEF vars, TypeOK
  <2> QED BY <2>1, <2>2, <2>3, <2>4, <2>5, <2>6 DEF Next
<1> QED BY <1>1, <1>2, PTL DEF Spec

-----------------------------------------------------------------------------
(* References.  What a batch found unreferenced stays so, because rows only *)
(* leave: whoever named it is gone.                                        *)

References ==
    /\ ReferencesIntact
    /\ \A e \in Executors : \A x \in seen[e].safe : Unreferenced(x)

\* What is unreferenced stays unreferenced while rows only leave.
LEMMA StaysUnreferenced ==
  ASSUME \A y \in Roots : Present(y)' => Present(y),
         NEW x \in Roots, Unreferenced(x)
  PROVE  Unreferenced(x)'
  BY DEF Unreferenced

\* No row that is left names a deleted one.
THEOREM ReferencesKept == Spec => []ReferencesIntact
<1>1. Init => References
  BY DEF Init, References, ReferencesIntact, Present, NoBatch
<1>2. TypeOK /\ References /\ [Next]_vars => References'
  <2> SUFFICES ASSUME TypeOK, References, [Next]_vars
               PROVE  References'
    OBVIOUS
  <2> USE DEF References
  <2>b. \A e \in Executors : seen[e].safe \subseteq Roots
    BY DEF TypeOK, Batch
  <2>s. ASSUME row' = row, seen' = seen
        PROVE  References'
    BY <2>s DEF ReferencesIntact, Unreferenced, Present
  <2>f. ASSUME row' = row, NEW e \in Executors, Forget(e)
        PROVE  References'
    BY <2>f DEF ReferencesIntact, Unreferenced, Present, Forget, NoBatch, TypeOK
  <2>1. ASSUME NEW e \in Executors, CallStep(e) \/ Raise(e) \/ Crash(e)
        PROVE  References'
    <3>1. CASE BeginBatch(e)
      <4>1. PICK t \in EntityTypes : seen' = [seen EXCEPT ![e] = Classified(t)]
        BY <3>1 DEF BeginBatch
      <4>2. \A x \in Classified(t).safe : Unreferenced(x)
        BY DEF Classified, Safe
      <4>3. row' = row
        BY <3>1 DEF BeginBatch, RowsUnchanged
      <4> HIDE DEF References
      <4>4. \A f \in Executors : \A x \in seen'[f].safe : Unreferenced(x)
        BY <4>1, <4>2 DEF TypeOK, References
      <4> QED BY <4>3, <4>4 DEF ReferencesIntact, Unreferenced, Present, References
    <3>2. CASE CommitBatch(e)
      <4>1. /\ row' = [x \in Roots |-> IF x \in seen[e].safe THEN "deleted" ELSE row[x]]
            /\ seen' = [seen EXCEPT ![e] = NoBatch]
        BY <3>2 DEF CommitBatch, Forget
      <4>2. \A x \in Roots : Present(x)' => Present(x) /\ x \notin seen[e].safe
        BY <4>1 DEF Present
      <4>3. ASSUME NEW x \in Roots, NEW y \in Roots, <<x, y>> \in Refers, Present(x)'
            PROVE  Present(y)'
        <5>1. Present(x) /\ Present(y)
          BY <4>2, <4>3 DEF ReferencesIntact
        <5>2. y \notin seen[e].safe
          BY <4>3, <5>1 DEF Unreferenced
        <5> QED BY <4>1, <5>1, <5>2 DEF Present
      <4>4. \A f \in Executors : \A x \in seen'[f].safe : x \in seen[f].safe
        BY <4>1 DEF NoBatch, TypeOK
      <4> QED BY <2>b, <4>2, <4>3, <4>4, StaysUnreferenced DEF ReferencesIntact
    <3>3. CASE row' = row /\ (seen' = seen \/ Forget(e))
      BY <3>3, <2>s, <2>f
    <3> QED BY <2>1, <3>1, <3>2, <3>3
            DEF CallStep, Claim, TurnedAway, CompletePhase, LoseBatch, LoseLease,
                CompleteRun, MarkFailed, Raise, Crash, RowsUnchanged
  <2>2. ASSUME NEW z \in Roots, RemoveElsewhere(z)
        PROVE  References'
    <3>1. row' = [row EXCEPT ![z] = "removed"] /\ Unreferenced(z) /\ seen' = seen
      BY <2>2 DEF RemoveElsewhere, RestUnchanged, Safe
    <3>2. \A x \in Roots : Present(x)' => Present(x) /\ x # z
      BY <3>1 DEF Present, TypeOK
    <3>3. ASSUME NEW x \in Roots, NEW y \in Roots, <<x, y>> \in Refers, Present(x)'
          PROVE  Present(y)'
      <4>1. Present(x) /\ Present(y)
        BY <3>2, <3>3 DEF ReferencesIntact
      <4>2. y # z
        BY <3>1, <3>3, <4>1 DEF Unreferenced
      <4> QED BY <3>1, <4>1, <4>2 DEF Present, TypeOK
    <3> QED BY <2>b, <3>1, <3>2, <3>3, StaysUnreferenced DEF ReferencesIntact
  <2> QED BY <2>1, <2>2, <2>s
          DEF Next, LeaseExpires, PlaceHold, LiftHold, ChangeIncident, LinkAgain,
              RowsUnchanged, RestUnchanged, vars
<1> QED BY <1>1, <1>2, TypeCorrect, PTL DEF Spec, References

-----------------------------------------------------------------------------
(* What one deletion may not do.                                           *)

\* Rows are deleted by the commit of a batch, and they are its safe ones.
LEMMA DeletedByCommit ==
  ASSUME TypeOK, [Next]_vars, NEW x \in Roots, Present(x), row'[x] = "deleted"
  PROVE  \E e \in Executors : CommitBatch(e) /\ x \in seen[e].safe
<1>1. row' # row
  BY DEF Present
<1>2. ASSUME NEW e \in Executors, CallStep(e) \/ Raise(e) \/ Crash(e)
      PROVE  CommitBatch(e) /\ x \in seen[e].safe
  <2>1. CommitBatch(e)
    BY <1>1, <1>2 DEF CallStep, Claim, TurnedAway, BeginBatch, CompletePhase, LoseBatch,
         LoseLease, CompleteRun, MarkFailed, Raise, Crash, RowsUnchanged
  <2> QED BY <2>1 DEF CommitBatch, Present
<1>3. ASSUME NEW z \in Roots, RemoveElsewhere(z)
      PROVE  FALSE
  BY <1>3 DEF RemoveElsewhere, Present, TypeOK
<1> QED BY <1>1, <1>2, <1>3
        DEF Next, LeaseExpires, PlaceHold, LiftHold, ChangeIncident, LinkAgain,
            RowsUnchanged, RestUnchanged, vars

\* A row under a hold, changed after the cutoff or linked to an open incident
\* is not deleted, however late that happened.
THEOREM OnlyEligibleDeleted == Spec => DeletionsEligible
<1>1. ASSUME TypeOK, [Next]_vars, NEW x \in Roots, Present(x), row'[x] = "deleted"
      PROVE  /\ x \notin held \union recent
             /\ \A i \in open : <<i, x>> \in Refers => ~Present(i)
  BY <1>1, DeletedByCommit DEF CommitBatch, Deletable, Candidate
<1>2. TypeOK /\ [Next]_vars =>
        \A x \in Roots : Present(x) /\ row'[x] = "deleted" =>
          /\ x \notin held \union recent
          /\ \A i \in open : <<i, x>> \in Refers => ~Present(i)
  BY <1>1
<1> QED BY <1>2, TypeCorrect, PTL DEF Spec, DeletionsEligible

\* Progress and deletions are written by a call that holds the lease.
THEOREM OnlyHolderWrites == Spec => LeaseHolderWrites
<1>1. ASSUME TypeOK, [Next]_vars, progress' # progress
      PROVE  \E e \in Executors : OwnsLease(e) /\ pc[e] = "batch" /\ pc'[e] = "between"
  <2>1. ASSUME NEW e \in Executors, CallStep(e) \/ Raise(e) \/ Crash(e)
        PROVE  CommitBatch(e) \/ CompletePhase(e)
    BY <1>1, <2>1 DEF CallStep, Claim, TurnedAway, BeginBatch, LoseBatch,
         LoseLease, CompleteRun, MarkFailed, Raise, Crash
  <2>2. \E e \in Executors : CommitBatch(e) \/ CompletePhase(e)
    BY <1>1, <2>1 DEF Next, LeaseExpires, PlaceHold, LiftHold, ChangeIncident, LinkAgain,
         RemoveElsewhere, RestUnchanged, vars
  <2> QED BY <1>1, <2>2 DEF CommitBatch, CompletePhase, Granted, At, TypeOK
<1>2. ASSUME TypeOK, [Next]_vars, \E x \in Roots : row'[x] = "deleted" /\ Present(x)
      PROVE  \E e \in Executors : OwnsLease(e) /\ pc[e] = "batch" /\ pc'[e] = "between"
  BY <1>2, DeletedByCommit DEF CommitBatch, Granted, At, TypeOK
<1> QED BY <1>1, <1>2, TypeCorrect, PTL DEF Spec, LeaseHolderWrites

\* A call fails the run only while it owns it.
THEOREM FailedByOwner == Spec => TakeoverUndisturbed
<1>1. ASSUME TypeOK, [Next]_vars, run.status = "running", run'.status = "failed"
      PROVE  \E e \in Executors : run.owner = e /\ pc[e] = "failing"
  <2>r. run \in RunRow
    BY <1>1 DEF TypeOK
  <2>1. run' # run
    BY <1>1
  <2>2. ASSUME NEW e \in Executors, CallStep(e) \/ Raise(e) \/ Crash(e)
        PROVE  run.owner = e /\ pc[e] = "failing"
    <3>1. CASE Claim(e)
      BY <1>1, <3>1, <2>r, RunWrites DEF Claim, RunRow
    <3>2. CASE CommitBatch(e)
      <4>1. run' = Counted(seen[e]) /\ Renewed(run).status = "running"
        BY <1>1, <3>2, <2>r, RunWrites DEF CommitBatch
      <4>2. Counted(seen[e]).status = Renewed(run).status
        BY <2>r, RunWrites DEF Counted, RunRow
      <4> QED BY <1>1, <4>1, <4>2
    <3>3. CASE CompletePhase(e)
      BY <1>1, <3>3, <2>r, RunWrites DEF CompletePhase
    <3>4. CASE CompleteRun(e)
      BY <1>1, <3>4, <2>r DEF CompleteRun, RunRow
    <3>5. CASE MarkFailed(e)
      BY <2>1, <3>5 DEF MarkFailed, Failable, At
    <3> QED BY <2>1, <2>2, <3>1, <3>2, <3>3, <3>4, <3>5
            DEF CallStep, TurnedAway, BeginBatch, LoseBatch, LoseLease, Raise, Crash
  <2>3. CASE LeaseExpires
    BY <1>1, <2>3, <2>r DEF LeaseExpires, RunRow
  <2> QED BY <1>1, <2>1, <2>2, <2>3
          DEF Next, PlaceHold, LiftHold, ChangeIncident, LinkAgain, RemoveElsewhere,
              RestUnchanged, vars
<1> QED BY <1>1, TypeCorrect, PTL DEF Spec, TakeoverUndisturbed

\* A safe incident that has got a new dependent since has changed since.
IncidentLinks ==
    \A e \in Executors : \A x \in seen[e].safe :
        Kind[x] = "incident" /\ x \in fresh => x \in recent

\* Where the foreign keys are enforced, no row is deleted that something the
\* archive does not hold is linked to.
THEOREM NothingLinkedDeleted == ASSUME ForeignKeys PROVE Spec => DeletedUnlinked
<1> SUFFICES ASSUME ForeignKeys
             PROVE  Spec => DeletedUnlinked
  OBVIOUS
<1>1. Init => IncidentLinks
  BY DEF Init, IncidentLinks, NoBatch
<1>2. TypeOK /\ IncidentLinks /\ [Next]_vars => IncidentLinks'
  <2> SUFFICES ASSUME TypeOK, IncidentLinks, [Next]_vars
               PROVE  IncidentLinks'
    OBVIOUS
  <2> USE DEF IncidentLinks
  <2>1. ASSUME NEW e \in Executors, CallStep(e) \/ Raise(e) \/ Crash(e)
        PROVE  IncidentLinks'
    <3>0. fresh' = fresh /\ recent' = recent
      BY <2>1 DEF CallStep, Claim, TurnedAway, BeginBatch, CommitBatch, CompletePhase,
           LoseBatch, LoseLease, CompleteRun, MarkFailed, Raise, Crash, RowsUnchanged
    <3>1. CASE BeginBatch(e)
      <4>1. PICK t \in EntityTypes : seen' = [seen EXCEPT ![e] = Classified(t)]
        BY <3>1 DEF BeginBatch
      <4>2. \A x \in Classified(t).safe : x \notin fresh
        BY DEF Classified, Safe
      <4> QED BY <3>0, <4>1, <4>2 DEF TypeOK
    <3>2. CASE Forget(e)
      BY <3>0, <3>2 DEF Forget, NoBatch, TypeOK
    <3>3. CASE seen' = seen
      BY <3>0, <3>3
    <3> QED BY <2>1, <3>1, <3>2, <3>3
            DEF CallStep, Claim, TurnedAway, CommitBatch, CompletePhase, LoseBatch,
                LoseLease, CompleteRun, MarkFailed, Raise, Crash
  <2>2. ASSUME NEW z \in Changing, ChangeIncident(z) \/ LinkAgain(z)
        PROVE  IncidentLinks'
    BY <2>2 DEF ChangeIncident, LinkAgain, RestUnchanged
  <2>3. CASE fresh' = fresh /\ recent' = recent /\ seen' = seen
    BY <2>3
  <2> QED BY <2>1, <2>2, <2>3
          DEF Next, LeaseExpires, PlaceHold, LiftHold, RemoveElsewhere,
              RowsUnchanged, RestUnchanged, vars
<1>3. ASSUME TypeOK, IncidentLinks, [Next]_vars, NEW x \in Roots,
             Present(x), row'[x] = "deleted"
      PROVE  x \notin fresh
  <2>1. PICK e \in Executors : CommitBatch(e) /\ x \in seen[e].safe
    BY <1>3, DeletedByCommit
  <2>2. Deletable(x)
    BY <2>1 DEF CommitBatch
  <2> QED BY <1>3, <2>1, <2>2 DEF Deletable, Candidate, IncidentLinks
<1>4. TypeOK /\ IncidentLinks /\ [Next]_vars =>
        \A x \in Roots : Present(x) /\ row'[x] = "deleted" => x \notin fresh
  BY <1>3
<1> QED BY <1>1, <1>2, <1>4, TypeCorrect, PTL DEF Spec, DeletedUnlinked

-----------------------------------------------------------------------------
(* Cursors.  A batch whose version is still the run's begins where the     *)
(* cursor stands: whoever moved a cursor took the version forward.         *)

CursorsInArchive ==
    \A t \in EntityTypes :
        /\ progress[t].cursor <= Len(Archive[t])
        /\ progress[t].completed => progress[t].cursor = Len(Archive[t])

CompletedPhases ==
    run.status = "completed" => \A t \in EntityTypes : progress[t].completed

AtCursor(s) ==
    /\ s.next = BatchEnd(s.type, progress[s.type].cursor)
    /\ s.scanned = Records(s.type, progress[s.type].cursor, s.next)

BatchesCurrent ==
    \A e \in Executors : pc[e] = "batch" =>
        /\ seen[e].version <= run.version
        /\ seen[e].version = run.version => AtCursor(seen[e])

Cursors == CursorsInArchive /\ CompletedPhases /\ BatchesCurrent

\* What a committed batch leaves of the run.
LEMMA CountedWrites ==
  ASSUME run \in RunRow, NEW s \in Batch
  PROVE  /\ Counted(s).status = run.status
         /\ Counted(s).version = run.version + 1
         /\ Counted(s).deleted = run.deleted + Cardinality(s.safe)
         /\ Counted(s).protected = run.protected + Cardinality(s.existing \ s.safe)
         /\ Counted(s).missing = run.missing + Cardinality(s.scanned \ s.existing)
<1> DEFINE a == Renewed(run)
           b == [a EXCEPT !.deleted = @ + Cardinality(s.safe)]
           c == [b EXCEPT !.protected = @ + Cardinality(s.existing \ s.safe)]
           d == [c EXCEPT !.missing = @ + Cardinality(s.scanned \ s.existing)]
<1>0. /\ Cardinality(s.safe) \in Nat /\ Cardinality(s.existing \ s.safe) \in Nat
      /\ Cardinality(s.scanned \ s.existing) \in Nat
  BY CountType DEF Batch
<1>1. /\ a \in RunRow /\ a.status = run.status /\ a.version = run.version + 1
      /\ a.deleted = run.deleted /\ a.protected = run.protected /\ a.missing = run.missing
  <2>1. /\ a.deleted = run.deleted /\ a.protected = run.protected /\ a.missing = run.missing
    BY DEF Renewed, RunRow
  <2> QED BY <2>1, RunWrites
<1> HIDE DEF a
<1>2. /\ b \in RunRow /\ b.status = a.status /\ b.version = a.version
      /\ b.deleted = a.deleted + Cardinality(s.safe)
      /\ b.protected = a.protected /\ b.missing = a.missing
  BY <1>0, <1>1 DEF RunRow
<1> HIDE DEF b
<1>3. /\ c \in RunRow /\ c.status = b.status /\ c.version = b.version
      /\ c.protected = b.protected + Cardinality(s.existing \ s.safe)
      /\ c.deleted = b.deleted /\ c.missing = b.missing
  BY <1>0, <1>2 DEF RunRow
<1> HIDE DEF c
<1>4. /\ d.status = c.status /\ d.version = c.version
      /\ d.missing = c.missing + Cardinality(s.scanned \ s.existing)
      /\ d.deleted = c.deleted /\ d.protected = c.protected
  BY <1>0, <1>3 DEF RunRow
<1>5. Counted(s) = d
  BY DEF Counted, a, b, c
<1> HIDE DEF d
<1> QED BY <1>1, <1>2, <1>3, <1>4, <1>5

\* What a closing write leaves of the run.
LEMMA ClosedWrites ==
  ASSUME NEW r \in RunRow, NEW st \in {"completed", "failed"},
         NEW q, q = [r EXCEPT !.status = st, !.owner = NoOne, !.lease = "none",
                              !.version = @ + 1]
  PROVE  /\ q.status = st /\ q.version = r.version + 1
         /\ q.deleted = r.deleted /\ q.protected = r.protected /\ q.missing = r.missing
  BY DEF RunRow

\* The version of the run never falls, and rises with every change of a cursor.
LEMMA VersionGrows ==
  ASSUME TypeOK, [Next]_vars
  PROVE  /\ run.version \in Nat /\ run'.version \in Nat
         /\ run'.version >= run.version
         /\ progress' # progress => run'.version > run.version
<1>r. run \in RunRow /\ run.version \in Nat
  BY DEF TypeOK, RunRow
<1>1. ASSUME NEW e \in Executors, CallStep(e) \/ Raise(e) \/ Crash(e)
      PROVE  \/ run' = run /\ progress' = progress
             \/ run'.version = run.version + 1
  <2>1. CASE Claim(e)
    <3>1. Renewed(run).version = run.version + 1 /\ Renewed(run) \in RunRow
      BY <1>r, RunWrites
    <3>2. run' = [Renewed(run) EXCEPT !.status = "running", !.owner = e]
      BY <2>1 DEF Claim
    <3> QED BY <3>1, <3>2 DEF RunRow
  <2>2. CASE CommitBatch(e)
    BY <2>2, <1>r, CountedWrites DEF CommitBatch, TypeOK
  <2>3. CASE CompletePhase(e)
    BY <2>3, <1>r, RunWrites DEF CompletePhase
  <2>4. CASE CompleteRun(e)
    <3>1. run' = [run EXCEPT !.status = "completed", !.owner = NoOne, !.lease = "none",
                             !.version = @ + 1]
      BY <2>4 DEF CompleteRun
    <3> QED BY <3>1, <1>r DEF RunRow
  <2>5. CASE MarkFailed(e)
    <3>1. CASE Failable(e)
      <4>1. run' = [run EXCEPT !.status = "failed", !.owner = NoOne, !.lease = "none",
                               !.version = @ + 1]
        BY <2>5, <3>1 DEF MarkFailed
      <4> QED BY <4>1, <1>r DEF RunRow
    <3>2. CASE ~Failable(e)
      BY <2>5, <3>2 DEF MarkFailed
    <3> QED BY <3>1, <3>2
  <2> QED BY <1>1, <2>1, <2>2, <2>3, <2>4, <2>5
          DEF CallStep, TurnedAway, BeginBatch, LoseBatch, LoseLease, Raise, Crash
<1>2. CASE LeaseExpires
  <2>1. run'.version = run.version /\ progress' = progress
    BY <1>2, <1>r DEF LeaseExpires, RunRow
  <2> QED BY <2>1, <1>r
<1>3. CASE run' = run /\ progress' = progress
  BY <1>3, <1>r
<1> QED BY <1>r, <1>1, <1>2, <1>3
        DEF Next, PlaceHold, LiftHold, ChangeIncident, LinkAgain, RemoveElsewhere,
            RestUnchanged, vars

\* A call whose batch is not begun by this step keeps a current snapshot, or
\* none.
LEMMA SnapshotsKept ==
  ASSUME TypeOK, BatchesCurrent, [Next]_vars,
         NEW f \in Executors, pc'[f] = "batch", pc[f] = "batch", seen'[f] = seen[f]
  PROVE  /\ seen'[f].version <= run'.version
         /\ seen'[f].version = run'.version => AtCursor(seen[f])'
<1>1. seen[f].version \in Nat /\ seen[f].version <= run.version
  BY DEF TypeOK, Batch, BatchesCurrent
<1>2. /\ run.version \in Nat /\ run'.version \in Nat /\ run'.version >= run.version
      /\ progress' # progress => run'.version > run.version
  BY VersionGrows
<1>3. ASSUME seen'[f].version = run'.version
      PROVE  AtCursor(seen[f])'
  <2>1. progress' = progress /\ seen[f].version = run.version
    BY <1>1, <1>2, <1>3
  <2>2. AtCursor(seen[f])
    BY <2>1 DEF BatchesCurrent
  <2> QED BY <2>1, <2>2 DEF AtCursor
<1> QED BY <1>1, <1>2, <1>3

\* A batch is begun by BeginBatch, and ended by every other step of its call.
LEMMA BatchPC ==
  ASSUME TypeOK, [Next]_vars, NEW f \in Executors, pc'[f] = "batch"
  PROVE  \/ pc[f] = "batch" /\ seen'[f] = seen[f]
         \/ BeginBatch(f)
<1>1. ASSUME NEW e \in Executors, CallStep(e) \/ Raise(e) \/ Crash(e), e = f
      PROVE  BeginBatch(f)
  BY <1>1 DEF CallStep, At, Claim, TurnedAway, CommitBatch, CompletePhase, LoseBatch,
       LoseLease, CompleteRun, MarkFailed, Raise, Crash, TypeOK
<1>2. ASSUME NEW e \in Executors, CallStep(e) \/ Raise(e) \/ Crash(e), e # f
      PROVE  pc[f] = "batch" /\ seen'[f] = seen[f]
  BY <1>2 DEF CallStep, At, Claim, TurnedAway, BeginBatch, CommitBatch, CompletePhase,
       LoseBatch, LoseLease, CompleteRun, MarkFailed, Raise, Crash, Forget, TypeOK
<1> QED BY <1>1, <1>2
        DEF Next, LeaseExpires, PlaceHold, LiftHold, ChangeIncident, LinkAgain,
            RemoveElsewhere, RestUnchanged, vars

\* The cursors stay within the archive, and a batch is current or refused.
THEOREM CursorsCurrent == Spec => []Cursors
<1>1. Init => Cursors
  <2> SUFFICES ASSUME Init
               PROVE  Cursors
    OBVIOUS
  <2>1. \A t \in EntityTypes : Len(Archive[t]) \in Nat
    BY ConstantsAssumption
  <2> QED BY <2>1 DEF Init, Cursors, CursorsInArchive, CompletedPhases, BatchesCurrent
<1>2. TypeOK /\ Cursors /\ [Next]_vars => Cursors'
  <2> SUFFICES ASSUME TypeOK, Cursors, [Next]_vars
               PROVE  Cursors'
    OBVIOUS
  <2>r. run \in RunRow
    BY DEF TypeOK
  <2>1. BatchesCurrent'
    <3> SUFFICES ASSUME NEW f \in Executors, pc'[f] = "batch"
                 PROVE  /\ seen'[f].version <= run'.version
                        /\ seen'[f].version = run'.version => AtCursor(seen[f])'
      BY DEF BatchesCurrent
    <3>1. CASE pc[f] = "batch" /\ seen'[f] = seen[f]
      BY <3>1, SnapshotsKept DEF Cursors
    <3>2. CASE BeginBatch(f)
      <4>1. PICK t \in EntityTypes : seen' = [seen EXCEPT ![f] = Classified(t)]
        BY <3>2 DEF BeginBatch
      <4>2. run' = run /\ progress' = progress /\ seen'[f] = Classified(t)
        BY <3>2, <4>1 DEF BeginBatch, TypeOK
      <4>3. Classified(t).version = run.version /\ AtCursor(Classified(t))
        BY DEF Classified, AtCursor
      <4>4. run.version \in Nat
        BY <2>r DEF RunRow
      <4> QED BY <4>2, <4>3, <4>4 DEF AtCursor
    <3> QED BY <3>1, <3>2, BatchPC
  <2>2. ASSUME NEW e \in Executors, CommitBatch(e)
        PROVE  CursorsInArchive' /\ CompletedPhases'
    <3> DEFINE s == seen[e]
    <3>1. s \in Batch /\ pc[e] = "batch" /\ s.version = run.version
      BY <2>2 DEF CommitBatch, At, Granted, TypeOK
    <3>2. AtCursor(s)
      BY <3>1 DEF Cursors, BatchesCurrent
    <3>3. /\ s.type \in EntityTypes
          /\ s.next <= Len(Archive[s.type])
      <4>1. s.type \in EntityTypes
        BY <3>1 DEF Batch
      <4> QED BY <3>2, <4>1, BatchEnds DEF AtCursor, Cursors, CursorsInArchive, TypeOK
    <3>4. progress' = [progress EXCEPT ![s.type] = [completed |-> FALSE, cursor |-> s.next]]
      BY <2>2 DEF CommitBatch, Advanced
    <3>5. run'.status = "running"
      BY <2>2, <2>r, <3>1, CountedWrites DEF CommitBatch, Granted, OwnsLease
    <3> HIDE DEF s
    <3>6. CursorsInArchive'
      BY <3>3, <3>4 DEF Cursors, CursorsInArchive, TypeOK
    <3> QED BY <3>5, <3>6 DEF CompletedPhases
  <2>3. ASSUME NEW e \in Executors, CompletePhase(e)
        PROVE  CursorsInArchive' /\ CompletedPhases'
    <3> DEFINE s == seen[e]
               from == progress[s.type].cursor
    <3>1. s \in Batch /\ pc[e] = "batch" /\ s.version = run.version /\ s.scanned = {}
      BY <2>3 DEF CompletePhase, At, Granted, Exhausted, TypeOK
    <3>2. AtCursor(s)
      BY <3>1 DEF Cursors, BatchesCurrent
    <3>3. s.type \in EntityTypes /\ from \in Nat /\ from <= Len(Archive[s.type])
      BY <3>1 DEF Batch, TypeOK, Cursors, CursorsInArchive
    <3>4. s.next = from
      <4>1. /\ Len(Archive[s.type]) \in Nat
            /\ BatchEnd(s.type, from) \in from .. Len(Archive[s.type])
        BY <3>3, BatchEnds
      <4>2. \A i : i \notin from + 1 .. s.next
        BY <3>1, <3>2 DEF AtCursor, Records
      <4> QED BY <3>2, <3>3, <4>1, <4>2 DEF AtCursor
    <3>5. from = Len(Archive[s.type])
      BY <3>2, <3>3, <3>4, BatchEnds DEF AtCursor
    <3>6. progress' = [progress EXCEPT ![s.type].completed = TRUE]
      BY <2>3 DEF CompletePhase
    <3>7. run'.status = "running"
      BY <2>3, <2>r, RunWrites DEF CompletePhase, Granted, OwnsLease
    <3>8. progress[s.type].cursor = Len(Archive[s.type])
      BY <3>5
    <3> HIDE DEF s, from
    <3>9. CursorsInArchive'
      BY <3>3, <3>6, <3>8 DEF Cursors, CursorsInArchive, TypeOK
    <3> QED BY <3>7, <3>9 DEF CompletedPhases
  <2>4. ASSUME progress' = progress,
               run'.status = "completed" => \/ run.status = "completed"
                                           \/ \A t \in EntityTypes : ~Pending(t)
        PROVE  CursorsInArchive' /\ CompletedPhases'
    BY <2>4 DEF Cursors, CursorsInArchive, CompletedPhases, Pending
  <2>5. ASSUME NEW e \in Executors, CallStep(e) \/ Raise(e) \/ Crash(e)
        PROVE  CursorsInArchive' /\ CompletedPhases'
    <3>1. CASE Claim(e)
      <4>1. progress' = progress /\ run'.status # "completed"
        BY <3>1, <2>r, RunWrites DEF Claim, RunRow
      <4> QED BY <4>1, <2>4
    <3>2. CASE CompleteRun(e)
      BY <3>2, <2>4 DEF CompleteRun
    <3>3. CASE MarkFailed(e)
      <4>1. progress' = progress /\ (run' = run \/ run'.status # "completed")
        BY <3>3, <2>r, ClosedWrites DEF MarkFailed
      <4> QED BY <4>1, <2>4
    <3>4. CASE run' = run /\ progress' = progress
      BY <3>4, <2>4
    <3> QED BY <2>2, <2>3, <2>5, <3>1, <3>2, <3>3, <3>4
            DEF CallStep, TurnedAway, BeginBatch, LoseBatch, LoseLease, Raise, Crash
  <2>6. ASSUME LeaseExpires
        PROVE  CursorsInArchive' /\ CompletedPhases'
    <3>1. progress' = progress /\ run'.status = run.status
      BY <2>6, <2>r DEF LeaseExpires, RunRow
    <3> QED BY <3>1, <2>4
  <2>7. ASSUME run' = run, progress' = progress
        PROVE  CursorsInArchive' /\ CompletedPhases'
    BY <2>7, <2>4
  <2>8. CursorsInArchive' /\ CompletedPhases'
    BY <2>5, <2>6, <2>7
       DEF Next, PlaceHold, LiftHold, ChangeIncident, LinkAgain, RemoveElsewhere,
           RestUnchanged, vars
  <2> QED BY <2>1, <2>8 DEF Cursors
<1> QED BY <1>1, <1>2, TypeCorrect, PTL DEF Spec

\* A completed run has been through the whole archive.
THEOREM WholeArchiveScanned == Spec => []CompletedScannedAll
<1>1. Cursors => CompletedScannedAll
  BY DEF Cursors, CompletedPhases, CursorsInArchive, CompletedScannedAll
<1> QED BY <1>1, CursorsCurrent, PTL

-----------------------------------------------------------------------------
(* Counters.  A batch adds records no cursor had passed, and its deletions *)
(* are of rows that were there.                                            *)

Deleted == {x \in Roots : row[x] = "deleted"}

BatchesNested ==
    \A e \in Executors : /\ seen[e].safe \subseteq seen[e].existing
                        /\ seen[e].existing \subseteq seen[e].scanned

Counters == BatchesNested /\ CountsExact /\ DeletedWereScanned

\* Disjoint sets of roots add up.
LEMMA DisjointCount ==
  ASSUME NEW S \in SUBSET Roots, NEW T \in SUBSET Roots, S \cap T = {}
  PROVE  /\ Cardinality(S \union T) = Cardinality(S) + Cardinality(T)
         /\ Cardinality(S) \in Nat /\ Cardinality(T) \in Nat
<1>1. IsFiniteSet(S) /\ IsFiniteSet(T)
  BY ConstantsAssumption, FS_Subset
<1>2. Cardinality(S \union T) = Cardinality(S) + Cardinality(T) - Cardinality(S \cap T)
  BY <1>1, FS_Union
<1>3. Cardinality(S \cap T) = 0
  BY FS_EmptySet
<1> QED BY <1>2, <1>3, CountType

\* The records of a batch split into deleted, protected and missing ones.
LEMMA BatchCount ==
  ASSUME NEW s \in Batch, s.safe \subseteq s.existing, s.existing \subseteq s.scanned
  PROVE  /\ Cardinality(s.safe) \in Nat /\ Cardinality(s.existing \ s.safe) \in Nat
         /\ Cardinality(s.scanned \ s.existing) \in Nat
         /\ Cardinality(s.scanned) = Cardinality(s.safe) + Cardinality(s.existing \ s.safe)
                                       + Cardinality(s.scanned \ s.existing)
<1>1. s.scanned \subseteq Roots
  BY DEF Batch
<1>2. /\ s.existing = s.safe \union (s.existing \ s.safe)
      /\ s.scanned = s.existing \union (s.scanned \ s.existing)
  OBVIOUS
<1>3. Cardinality(s.existing) = Cardinality(s.safe) + Cardinality(s.existing \ s.safe)
  BY <1>1, <1>2, DisjointCount
<1>4. Cardinality(s.scanned) = Cardinality(s.existing) + Cardinality(s.scanned \ s.existing)
  BY <1>1, <1>2, DisjointCount
<1> QED BY <1>1, <1>3, <1>4, CountType

\* The records of an archive split at every cursor position.
LEMMA RecordsSplit ==
  ASSUME NEW t \in EntityTypes, NEW from \in Nat, NEW to \in from .. Len(Archive[t])
  PROVE  /\ Records(t, 0, to) = Records(t, 0, from) \union Records(t, from, to)
         /\ Records(t, 0, from) \cap Records(t, from, to) = {}
         /\ \A x \in Records(t, 0, to) : Kind[x] = t
<1>1. Len(Archive[t]) \in Nat
  BY ConstantsAssumption
<1>2. \A i \in 1 .. to : i \in 1 .. from \/ i \in from + 1 .. to
  BY <1>1
<1>3. /\ 1 .. from \subseteq 1 .. Len(Archive[t])
      /\ from + 1 .. to \subseteq 1 .. Len(Archive[t])
      /\ from + 1 .. to \subseteq 1 .. to /\ 1 .. from \subseteq 1 .. to
      /\ 1 .. to \subseteq 1 .. Len(Archive[t])
  BY <1>1
<1>4. \A i \in 1 .. from : i \notin from + 1 .. to
  BY <1>1
<1>5. Records(t, 0, to) = Records(t, 0, from) \union Records(t, from, to)
  BY <1>2, <1>3 DEF Records
<1>6. Records(t, 0, from) \cap Records(t, from, to) = {}
  BY <1>3, <1>4, ArchiveIndexed DEF Records
<1>7. \A x \in Records(t, 0, to) : Kind[x] = t
  BY <1>3, ArchiveIndexed DEF Records
<1> QED BY <1>5, <1>6, <1>7

\* Committing a current batch adds its records to those scanned, none twice.
LEMMA CommitScans ==
  ASSUME TypeOK, Cursors, NEW e \in Executors, CommitBatch(e)
  PROVE  /\ Scanned' = Scanned \union seen[e].scanned
         /\ Scanned \cap seen[e].scanned = {}
         /\ Scanned \subseteq Roots /\ seen[e].scanned \subseteq Roots
<1> DEFINE s == seen[e]
           from == progress[s.type].cursor
           R(t) == Records(t, 0, progress[t].cursor)
<1>1. s \in Batch /\ pc[e] = "batch" /\ s.version = run.version
  BY DEF CommitBatch, At, Granted, TypeOK
<1>2. s.next = BatchEnd(s.type, from) /\ s.scanned = Records(s.type, from, s.next)
  BY <1>1 DEF Cursors, BatchesCurrent, AtCursor
<1>3. s.type \in EntityTypes /\ from \in Nat /\ from <= Len(Archive[s.type])
  BY <1>1 DEF Batch, TypeOK, Cursors, CursorsInArchive
<1>4. s.next \in from .. Len(Archive[s.type]) /\ Len(Archive[s.type]) \in Nat
  BY <1>2, <1>3, BatchEnds
<1>5. progress' = [progress EXCEPT ![s.type] = [completed |-> FALSE, cursor |-> s.next]]
  BY DEF CommitBatch, Advanced
<1>6. \A t \in EntityTypes : progress[t].cursor \in Nat /\ progress[t].cursor <= Len(Archive[t])
  BY DEF TypeOK, Cursors, CursorsInArchive
<1>7. \A t \in EntityTypes : R(t) \subseteq Roots /\ \A x \in R(t) : Kind[x] = t
  <2> SUFFICES ASSUME NEW t \in EntityTypes
               PROVE  R(t) \subseteq Roots /\ \A x \in R(t) : Kind[x] = t
    OBVIOUS
  <2>1. Len(Archive[t]) \in Nat
    BY ConstantsAssumption
  <2>2. progress[t].cursor \in progress[t].cursor .. Len(Archive[t])
    BY <1>6, <2>1
  <2> QED BY <1>6, <2>2, RecordsAreRoots, RecordsSplit
<1>8. s.scanned \subseteq Roots
  BY <1>1 DEF Batch
<1>9. /\ Records(s.type, 0, s.next) = R(s.type) \union s.scanned
      /\ R(s.type) \cap s.scanned = {}
      /\ \A x \in s.scanned : Kind[x] = s.type
  BY <1>2, <1>3, <1>4, RecordsSplit
<1>10. /\ progress'[s.type].cursor = s.next
       /\ \A t \in EntityTypes : t # s.type => progress'[t].cursor = progress[t].cursor
  BY <1>3, <1>5 DEF TypeOK
<1>11. /\ Scanned = UNION {R(t) : t \in EntityTypes}
       /\ Scanned' = UNION {Records(t, 0, progress'[t].cursor) : t \in EntityTypes}
  BY DEF Scanned
<1>12. \A t \in EntityTypes : t # s.type => Records(t, 0, progress'[t].cursor) = R(t)
  BY <1>10
<1>13. Records(s.type, 0, progress'[s.type].cursor) = R(s.type) \union s.scanned
  BY <1>9, <1>10
<1> HIDE DEF R, s
<1>14. Scanned' = Scanned \union s.scanned
  BY <1>3, <1>11, <1>12, <1>13
<1>15. Scanned \cap s.scanned = {}
  BY <1>7, <1>9, <1>11
<1>16. Scanned \subseteq Roots
  BY <1>7, <1>11
<1> QED BY <1>8, <1>14, <1>15, <1>16 DEF s

\* While the cursors stand, so does what they have passed.
LEMMA ScannedKept ==
  ASSUME \A t \in EntityTypes : progress'[t].cursor = progress[t].cursor
  PROVE  Scanned' = Scanned
  BY DEF Scanned

\* The counters are exact, and only scanned rows are deleted.
THEOREM CountersExact == Spec => []Counters
<1>1. Init => Counters
  <2> SUFFICES ASSUME Init
               PROVE  Counters
    OBVIOUS
  <2>1. BatchesNested
    BY DEF Init, BatchesNested, NoBatch
  <2>2. {x \in Roots : row[x] = "deleted"} = {}
    BY DEF Init
  <2>3. Scanned = {}
    <3>1. \A i : i \notin 0 + 1 .. 0
      OBVIOUS
    <3> QED BY <3>1 DEF Init, Scanned, Records
  <2> QED BY <2>1, <2>2, <2>3, FS_EmptySet DEF Init, Counters, CountsExact, DeletedWereScanned
<1>2. TypeOK /\ Cursors /\ Counters /\ [Next]_vars => Counters'
  <2> SUFFICES ASSUME TypeOK, Cursors, Counters, [Next]_vars
               PROVE  Counters'
    OBVIOUS
  <2>r. run \in RunRow
    BY DEF TypeOK
  <2>d. CountsExact /\ DeletedWereScanned /\ BatchesNested
    BY DEF Counters
  <2>1. BatchesNested'
    <3>1. ASSUME NEW e \in Executors, NEW t \in EntityTypes,
                 seen' = [seen EXCEPT ![e] = Classified(t)]
          PROVE  BatchesNested'
      <4>1. /\ Classified(t).safe \subseteq Classified(t).existing
            /\ Classified(t).existing \subseteq Classified(t).scanned
        BY DEF Classified, Candidate
      <4> QED BY <2>d, <3>1, <4>1 DEF BatchesNested, TypeOK
    <3>2. ASSUME NEW e \in Executors, Forget(e)
          PROVE  BatchesNested'
      BY <2>d, <3>2 DEF BatchesNested, Forget, NoBatch, TypeOK
    <3>3. ASSUME seen' = seen
          PROVE  BatchesNested'
      BY <2>d, <3>3 DEF BatchesNested
    <3>4. ASSUME NEW e \in Executors, CallStep(e) \/ Raise(e) \/ Crash(e)
          PROVE  BatchesNested'
      BY <3>1, <3>2, <3>3, <3>4
         DEF CallStep, Claim, TurnedAway, BeginBatch, CommitBatch, CompletePhase,
             LoseBatch, LoseLease, CompleteRun, MarkFailed, Raise, Crash
    <3> QED BY <3>3, <3>4
            DEF Next, LeaseExpires, PlaceHold, LiftHold, ChangeIncident, LinkAgain,
                RemoveElsewhere, RestUnchanged, vars
  <2>2. ASSUME NEW e \in Executors, CommitBatch(e)
        PROVE  CountsExact' /\ DeletedWereScanned'
    <3> DEFINE s == seen[e]
    <3>1. s \in Batch /\ s.safe \subseteq s.existing /\ s.existing \subseteq s.scanned
      BY <2>d DEF BatchesNested, TypeOK
    <3>2. /\ Scanned' = Scanned \union s.scanned
          /\ Scanned \cap s.scanned = {}
          /\ Scanned \subseteq Roots /\ s.scanned \subseteq Roots
      BY <2>2, CommitScans
    <3>3. Deleted' = Deleted \union s.safe /\ Deleted \cap s.safe = {}
      <4>1. row' = [x \in Roots |-> IF x \in s.safe THEN "deleted" ELSE row[x]]
        BY <2>2 DEF CommitBatch
      <4>2. \A x \in s.safe : row[x] = "present"
        BY <2>2 DEF CommitBatch, Deletable, Candidate, Present
      <4>3. s.safe \subseteq Roots
        BY <3>1 DEF Batch
      <4> QED BY <4>1, <4>2, <4>3 DEF Deleted
    <3>4. s.safe \subseteq Roots /\ Deleted \subseteq Roots
      BY <3>1 DEF Batch, Deleted
    <3>5. run' = Counted(s)
      BY <2>2 DEF CommitBatch
    <3>6. /\ run.deleted \in Nat /\ run.protected \in Nat /\ run.missing \in Nat
      BY <2>r DEF RunRow
    <3> HIDE DEF s
    <3>7. /\ run'.deleted = run.deleted + Cardinality(s.safe)
          /\ run'.protected = run.protected + Cardinality(s.existing \ s.safe)
          /\ run'.missing = run.missing + Cardinality(s.scanned \ s.existing)
      BY <2>r, <3>1, <3>5, CountedWrites
    <3>8. Cardinality(Deleted') = Cardinality(Deleted) + Cardinality(s.safe)
      BY <3>3, <3>4, DisjointCount
    <3>9. /\ Cardinality(Scanned') = Cardinality(Scanned) + Cardinality(s.scanned)
          /\ Cardinality(Scanned) \in Nat
      BY <3>2, DisjointCount
    <3>10. /\ run.deleted = Cardinality(Deleted)
           /\ run.deleted + run.protected + run.missing = Cardinality(Scanned)
           /\ Deleted \subseteq Scanned
      BY <2>d DEF CountsExact, DeletedWereScanned, Deleted
    <3>11. run'.deleted = Cardinality(Deleted')
      BY <3>7, <3>8, <3>10
    <3>12. run'.deleted + run'.protected + run'.missing = Cardinality(Scanned')
      <4> DEFINE a == Cardinality(s.safe)
                 b == Cardinality(s.existing \ s.safe)
                 c == Cardinality(s.scanned \ s.existing)
      <4>1. a \in Nat /\ b \in Nat /\ c \in Nat /\ Cardinality(s.scanned) = a + b + c
        BY <3>1, BatchCount
      <4>2. /\ run'.deleted = run.deleted + a /\ run'.protected = run.protected + b
            /\ run'.missing = run.missing + c
        BY <3>7
      <4> HIDE DEF a, b, c
      <4>3. run'.deleted + run'.protected + run'.missing
              = (run.deleted + run.protected + run.missing) + (a + b + c)
        BY <3>6, <4>1, <4>2
      <4> QED BY <3>9, <3>10, <4>1, <4>3
    <3>13. Deleted' \subseteq Scanned'
      BY <3>1, <3>2, <3>3, <3>10
    <3> QED BY <3>11, <3>12, <3>13 DEF CountsExact, DeletedWereScanned, Deleted
  <2>3. ASSUME \A x \in Roots : (row'[x] = "deleted") <=> (row[x] = "deleted"),
               \A t \in EntityTypes : progress'[t].cursor = progress[t].cursor,
               /\ run'.deleted = run.deleted /\ run'.protected = run.protected
               /\ run'.missing = run.missing
        PROVE  CountsExact' /\ DeletedWereScanned'
    <3>1. Scanned' = Scanned /\ Deleted' = Deleted
      BY <2>3, ScannedKept DEF Deleted
    <3> QED BY <2>3, <2>d, <3>1 DEF CountsExact, DeletedWereScanned, Deleted
  <2>4. ASSUME NEW e \in Executors, CallStep(e) \/ Raise(e) \/ Crash(e), ~CommitBatch(e)
        PROVE  CountsExact' /\ DeletedWereScanned'
    <3>1. row' = row
      BY <2>4 DEF CallStep, Claim, TurnedAway, BeginBatch, CompletePhase, LoseBatch,
           LoseLease, CompleteRun, MarkFailed, Raise, Crash, RowsUnchanged
    <3>2. \A t \in EntityTypes : progress'[t].cursor = progress[t].cursor
      <4>1. CASE CompletePhase(e)
        BY <4>1 DEF CompletePhase, TypeOK
      <4>2. CASE progress' = progress
        BY <4>2
      <4> QED BY <2>4, <4>1, <4>2
              DEF CallStep, Claim, TurnedAway, BeginBatch, LoseBatch, LoseLease,
                  CompleteRun, MarkFailed, Raise, Crash
    <3>3. /\ run'.deleted = run.deleted /\ run'.protected = run.protected
          /\ run'.missing = run.missing
      <4>1. CASE Claim(e)
        BY <4>1, <2>r DEF Claim, Renewed, RunRow
      <4>2. CASE CompletePhase(e)
        BY <4>2, <2>r DEF CompletePhase, Renewed, RunRow
      <4>3. CASE CompleteRun(e)
        BY <4>3, <2>r, ClosedWrites DEF CompleteRun
      <4>4. CASE MarkFailed(e)
        BY <4>4, <2>r, ClosedWrites DEF MarkFailed
      <4>5. CASE run' = run
        BY <4>5
      <4> QED BY <2>4, <4>1, <4>2, <4>3, <4>4, <4>5
              DEF CallStep, TurnedAway, BeginBatch, LoseBatch, LoseLease, Raise, Crash
    <3> QED BY <2>3, <3>1, <3>2, <3>3
  <2>5. ASSUME LeaseExpires
        PROVE  CountsExact' /\ DeletedWereScanned'
    <3>1. /\ row' = row /\ progress' = progress
          /\ run'.deleted = run.deleted /\ run'.protected = run.protected
          /\ run'.missing = run.missing
      BY <2>5, <2>r DEF LeaseExpires, RowsUnchanged, RunRow
    <3> QED BY <2>3, <3>1
  <2>6. ASSUME NEW x \in Roots, RemoveElsewhere(x)
        PROVE  CountsExact' /\ DeletedWereScanned'
    <3>1. /\ row' = [row EXCEPT ![x] = "removed"] /\ row[x] = "present"
          /\ progress' = progress /\ run' = run
      BY <2>6 DEF RemoveElsewhere, RestUnchanged, Candidate, Present
    <3>2. \A y \in Roots : (row'[y] = "deleted") <=> (row[y] = "deleted")
      BY <3>1 DEF TypeOK
    <3> QED BY <2>3, <3>1, <3>2
  <2>7. ASSUME row' = row, progress' = progress, run' = run
        PROVE  CountsExact' /\ DeletedWereScanned'
    BY <2>3, <2>7
  <2>8. CountsExact' /\ DeletedWereScanned'
    BY <2>2, <2>4, <2>5, <2>6, <2>7
       DEF Next, PlaceHold, LiftHold, ChangeIncident, LinkAgain, RestUnchanged, vars
  <2> QED BY <2>1, <2>8 DEF Counters
<1> QED BY <1>1, <1>2, TypeCorrect, CursorsCurrent, PTL DEF Spec

\* The run's counters are the truth about its deletions.
THEOREM CountsAreExact == Spec => []CountsExact
  BY CountersExact, PTL DEF Counters

\* Nothing is deleted that no cursor has passed.
THEOREM OnlyScannedDeleted == Spec => []DeletedWereScanned
  BY CountersExact, PTL DEF Counters
=============================================================================
