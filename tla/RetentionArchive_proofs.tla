----------------------- MODULE RetentionArchive_proofs -----------------------
(***************************************************************************)
(* Proofs about RetentionArchive, for any number of verify calls.          *)
(***************************************************************************)
EXTENDS RetentionArchive, TLAPS

\* Every variable keeps its type.
THEOREM TypeCorrect == Spec => []TypeOK
<1> USE ConstantsAssumption DEF TypeOK, Callers, Statuses, Artifacts, CreatePC, VerifyPC
<1>1. Init => TypeOK
  BY DEF Init
<1>2. TypeOK /\ [Next]_vars => TypeOK'
  <2> SUFFICES ASSUME TypeOK, [Next]_vars
               PROVE  TypeOK'
    OBVIOUS
  <2>1. CASE CreateStep \/ Crash
    BY <2>1 DEF CreateStep, CreateRun, Begin, BeginRaises, Export, CheckWorkspace,
         MarkCompleted, Rename, Synced, SyncFails, Raise, Abort, Removed, MarkFailed,
         ReadToPromote, PromotionRefused, Crash, At
  <2>2. ASSUME NEW c \in Callers, Promote(c) \/ PromotionRaises(c)
        PROVE  TypeOK'
    BY <2>2 DEF Promote, PromotionRaises, At
  <2>3. ASSUME NEW v \in Verifiers, VerifyStep(v) \/ VerifyRaises(v)
        PROVE  TypeOK'
    BY <2>3 DEF VerifyStep, ReadRun, VerifyArchive, ReadToPromote, PromotionRefused,
         VerifyAgain, VerifyRaises, At
  <2>4. CASE UNCHANGED vars
    BY <2>4 DEF vars
  <2> QED BY <2>1, <2>2, <2>3, <2>4 DEF Next
<1> QED BY <1>1, <1>2, PTL DEF Spec

\* A call that may still promote has the archive in place, and create does not
\* touch it any more.
Placed ==
    /\ VerifiedExposed
    /\ \A c \in Callers : pc[c] \in {"promote", "promoting"} => artifact = "exposed"
    /\ pc[Creator] = "sync" => artifact = "exposed"
    /\ pc[Creator] \in {"new", "begin", "export", "check", "complete", "finalize"} =>
         artifact # "exposed"

\* That is kept by every step, with or without failures.
LEMMA PlacedHolds == Spec => []Placed
<1> USE DEF Placed, VerifiedExposed
<1>c. Creator \in Callers /\ Creator \notin Verifiers /\ Verifiers \subseteq Callers
  BY ConstantsAssumption DEF Callers
<1>1. Init => Placed
  BY <1>c DEF Init
<1>2. TypeOK /\ Placed /\ [Next]_vars => Placed'
  <2> SUFFICES ASSUME TypeOK, Placed, [Next]_vars
               PROVE  Placed'
    OBVIOUS
  <2>t. pc \in [Callers -> CreatePC \union VerifyPC]
    BY DEF TypeOK
  <2>1. ASSUME CreateRun \/ Begin \/ BeginRaises \/ Export
        PROVE  Placed'
    BY <1>c, <2>1, <2>t DEF CreateRun, Begin, BeginRaises, Export, At
  <2>2. ASSUME CheckWorkspace \/ MarkCompleted \/ Raise \/ Crash
        PROVE  Placed'
    BY <1>c, <2>2, <2>t DEF CheckWorkspace, MarkCompleted, Raise, Crash, At
  <2>3. ASSUME Rename \/ Synced \/ SyncFails
        PROVE  Placed'
    BY <1>c, <2>3, <2>t DEF Rename, Synced, SyncFails, At
  <2>4. ASSUME Abort \/ MarkFailed
        PROVE  Placed'
    BY <1>c, <2>4, <2>t DEF Abort, Removed, MarkFailed, At
  <2>5. ASSUME NEW c \in Callers, ReadToPromote(c) \/ PromotionRefused(c)
        PROVE  Placed'
    BY <1>c, <2>5, <2>t DEF ReadToPromote, PromotionRefused, At
  <2>6. ASSUME NEW c \in Callers, Promote(c) \/ PromotionRaises(c)
        PROVE  Placed'
    BY <1>c, <2>6, <2>t DEF Promote, PromotionRaises, At
  <2>7. ASSUME NEW v \in Verifiers, ReadRun(v) \/ VerifyArchive(v) \/ VerifyAgain(v)
                                    \/ VerifyRaises(v)
        PROVE  Placed'
    BY <1>c, <2>7, <2>t DEF ReadRun, VerifyArchive, VerifyAgain, VerifyRaises, At
  <2>8. CASE UNCHANGED vars
    BY <2>8 DEF vars
  <2> QED BY <1>c, <2>1, <2>2, <2>3, <2>4, <2>5, <2>6, <2>7, <2>8
          DEF Next, CreateStep, VerifyStep
<1> QED BY <1>1, <1>2, TypeCorrect, PTL DEF Spec

\* A run says verified only with the archive under its final name.
THEOREM VerifiedIsExposed == Spec => []VerifiedExposed
  BY PlacedHolds, PTL DEF Placed

-----------------------------------------------------------------------------
(* While finalize does not fail after the rename.                          *)

\* create gives up only before the archive is in place, and fails the run last.
FailedBefore ==
    /\ pc[Creator] \in {"abort", "fail"} => artifact # "exposed"
    /\ status = "failed" => pc[Creator] = "done" /\ artifact # "exposed"

\* That is kept by every step of create that can then happen.
LEMMA FailedBeforeHolds == ASSUME ~SyncMayFail PROVE Spec => [](Placed /\ FailedBefore)
<1> SUFFICES ASSUME ~SyncMayFail
             PROVE  Spec => [](Placed /\ FailedBefore)
  OBVIOUS
<1> USE DEF FailedBefore
<1>c. Creator \in Callers /\ Creator \notin Verifiers /\ Verifiers \subseteq Callers
  BY ConstantsAssumption DEF Callers
<1>1. Init => FailedBefore
  BY <1>c DEF Init
<1>2. TypeOK /\ Placed /\ FailedBefore /\ [Next]_vars => FailedBefore'
  <2> SUFFICES ASSUME TypeOK, Placed, FailedBefore, [Next]_vars
               PROVE  FailedBefore'
    OBVIOUS
  <2>t. pc \in [Callers -> CreatePC \union VerifyPC]
    BY DEF TypeOK
  <2>1. ASSUME CreateRun \/ Begin \/ BeginRaises \/ Export
        PROVE  FailedBefore'
    BY <1>c, <2>1, <2>t DEF CreateRun, Begin, BeginRaises, Export, At
  <2>2. ASSUME CheckWorkspace \/ MarkCompleted \/ Raise \/ Crash
        PROVE  FailedBefore'
    BY <1>c, <2>2, <2>t DEF Placed, CheckWorkspace, MarkCompleted, Raise, Crash, At
  <2>3. ASSUME Rename \/ Synced \/ SyncFails
        PROVE  FailedBefore'
    BY <1>c, <2>3, <2>t DEF Rename, Synced, SyncFails, At
  <2>4. ASSUME Abort \/ MarkFailed
        PROVE  FailedBefore'
    BY <1>c, <2>4, <2>t DEF Abort, Removed, MarkFailed, At
  <2>5. ASSUME NEW c \in Callers, ReadToPromote(c) \/ PromotionRefused(c)
        PROVE  FailedBefore'
    BY <1>c, <2>5, <2>t DEF ReadToPromote, PromotionRefused, At
  <2>6. ASSUME NEW c \in Callers, Promote(c) \/ PromotionRaises(c)
        PROVE  FailedBefore'
    BY <1>c, <2>6, <2>t DEF Promote, PromotionRaises, At
  <2>7. ASSUME NEW v \in Verifiers, ReadRun(v) \/ VerifyArchive(v) \/ VerifyAgain(v)
                                    \/ VerifyRaises(v)
        PROVE  FailedBefore'
    BY <1>c, <2>7, <2>t DEF ReadRun, VerifyArchive, VerifyAgain, VerifyRaises, At
  <2>8. CASE UNCHANGED vars
    BY <2>8 DEF vars
  <2> QED BY <1>c, <2>1, <2>2, <2>3, <2>4, <2>5, <2>6, <2>7, <2>8
          DEF Next, CreateStep, VerifyStep
<1> QED BY <1>1, <1>2, PlacedHolds, TypeCorrect, PTL DEF Spec

\* A failed run has no archive under its final name.
THEOREM FailedIsNotExposed == ASSUME ~SyncMayFail PROVE Spec => []FailedNotExposed
<1>1. FailedBefore => FailedNotExposed
  BY DEF FailedBefore, FailedNotExposed
<1> QED BY <1>1, FailedBeforeHolds, PTL

\* A verified run stays verified.
THEOREM VerifiedStays == ASSUME ~SyncMayFail PROVE Spec => VerifiedForGood
<1> SUFFICES ASSUME ~SyncMayFail
             PROVE  Spec => VerifiedForGood
  OBVIOUS
<1>1. TypeOK /\ Placed /\ FailedBefore /\ [Next]_vars =>
        (status = "verified" => status' = "verified")
  <2> SUFFICES ASSUME Placed, FailedBefore, [Next]_vars, status = "verified"
               PROVE  status' = "verified"
    OBVIOUS
  <2>1. artifact = "exposed"
    BY DEF Placed, VerifiedExposed
  <2>2. CASE CreateStep \/ Crash
    BY <2>1, <2>2 DEF Placed, FailedBefore, CreateStep, CreateRun, Begin, BeginRaises,
         Export, CheckWorkspace, MarkCompleted, Rename, Synced, SyncFails, Raise, Abort,
         MarkFailed, ReadToPromote, PromotionRefused, Crash, At
  <2>3. ASSUME NEW c \in Callers, Promote(c) \/ PromotionRaises(c)
        PROVE  status' = "verified"
    BY <2>3 DEF Promote, PromotionRaises
  <2>4. ASSUME NEW v \in Verifiers, VerifyStep(v) \/ VerifyRaises(v)
        PROVE  status' = "verified"
    BY <2>4 DEF VerifyStep, ReadRun, VerifyArchive, ReadToPromote, PromotionRefused,
         VerifyAgain, VerifyRaises
  <2> QED BY <2>2, <2>3, <2>4 DEF Next, vars
<1> QED BY <1>1, TypeCorrect, FailedBeforeHolds, PTL DEF Spec, VerifiedForGood
=============================================================================
