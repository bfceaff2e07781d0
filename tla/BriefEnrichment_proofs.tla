----------------------- MODULE BriefEnrichment_proofs -----------------------
(***************************************************************************)
(* Proofs about BriefEnrichment, for every number of threads, threshold,   *)
(* reset time and number of retries, and for every answer of the provider: *)
(* an outage is respected whatever the interleaving of the threads; what   *)
(* is told is grounded, accounts for how it was made, and loses no entry   *)
(* to another one.                                                         *)
(***************************************************************************)
EXTENDS BriefEnrichment, FiniteSetTheorems, TLAPS

(* What the breaker remembers is what happened; a thread that found the    *)
(* reset time elapsed still finds it so; and enough failures in a row mean *)
(* an open breaker, unless the reset time is over or one of the failures   *)
(* is only now being recorded.                                             *)
Remembered == breaker.failures = streak /\ breaker.idle = quiet
ElapsedHolds ==
    \A t \in Threads : pc[t] = "checking" /\ work[t].elapsed => quiet > ResetTicks
OutageOpen ==
    \/ streak < Threshold
    \/ quiet > ResetTicks
    \/ breaker.state = "open"
    \/ \E t \in Threads : pc[t] = "stamping"
BreakerInv == EnrichmentTypeOK /\ Remembered /\ ElapsedHolds /\ OutageOpen

(* The bounds the proofs need, by themselves.                              *)
LEMMA Bounds == Threshold \in Nat \ {0} /\ ResetTicks \in Nat /\ MaxRetries \in Nat
  BY BoundsAssumption

(* The records of threads, and what the actions make of them.              *)
LEMMA WorkTypes ==
    /\ NoWork \in Work
    /\ \A w \in Work, items \in Seq(Rows) : [w EXCEPT !.items = items] \in Work
    /\ \A w \in Work, b \in BOOLEAN : [w EXCEPT !.elapsed = b] \in Work
    /\ \A w \in Work, n \in 0..(MaxRetries + 1), b \in BOOLEAN :
          /\ [w EXCEPT !.attempts = n] \in Work
          /\ [w EXCEPT !.attempts = n, !.elapsed = b] \in Work
    /\ \A w \in Work, a \in Answer : [w EXCEPT !.answer = a] \in Work
    /\ \A w \in Work, e \in Errors, n \in Int : [w EXCEPT !.error = e, !.owed = n] \in Work
    /\ \A w \in Work, n \in Int : [w EXCEPT !.elapsed = FALSE, !.owed = n] \in Work
<1>1. NoAnswer \in Answer
  BY DEF NoAnswer, Answer
<1>2. 0 \in 0..(MaxRetries + 1)
  BY BoundsAssumption
<1>3. NoWork \in Work
  BY <1>1, <1>2 DEF NoWork, Work
<1>4. \A w \in Work, items \in Seq(Rows) : [w EXCEPT !.items = items] \in Work
  BY DEF Work
<1>5. \A w \in Work, b \in BOOLEAN : [w EXCEPT !.elapsed = b] \in Work
  BY DEF Work
<1>6. \A w \in Work, n \in 0..(MaxRetries + 1), b \in BOOLEAN :
        /\ [w EXCEPT !.attempts = n] \in Work
        /\ [w EXCEPT !.attempts = n, !.elapsed = b] \in Work
  BY DEF Work
<1>7. \A w \in Work, a \in Answer : [w EXCEPT !.answer = a] \in Work
  BY DEF Work
<1>8. \A w \in Work, e \in Errors, n \in Int : [w EXCEPT !.error = e, !.owed = n] \in Work
  BY DEF Work
<1>9. \A w \in Work, n \in Int : [w EXCEPT !.elapsed = FALSE, !.owed = n] \in Work
  BY DEF Work
<1> QED
  BY <1>3, <1>4, <1>5, <1>6, <1>7, <1>8, <1>9

(* The breaker, and what the actions make of it.                           *)
LEMMA BreakerTypes ==
    ASSUME NEW b \in Breaker
    PROVE  /\ \A s \in {"closed", "open", "half_open"} : [b EXCEPT !.state = s] \in Breaker
           /\ [b EXCEPT !.failures = 0, !.state = "closed"] \in Breaker
           /\ [b EXCEPT !.failures = Smaller(b.failures + 1, Threshold)] \in Breaker
           /\ [b EXCEPT !.idle = Smaller(b.idle + 1, ResetTicks + 1)] \in Breaker
           /\ \A s \in {"closed", "open", "half_open"} :
                 [b EXCEPT !.idle = 0, !.state = s] \in Breaker
<1>1. /\ Smaller(b.failures + 1, Threshold) \in 0..Threshold
      /\ Smaller(b.idle + 1, ResetTicks + 1) \in 0..(ResetTicks + 1)
      /\ 0 \in 0..Threshold /\ 0 \in 0..(ResetTicks + 1)
  BY BoundsAssumption DEF Breaker, Smaller
<1> QED
  BY <1>1 DEF Breaker

(* The initial state satisfies the invariant: EnrichmentInit.              *)
LEMMA InitBreakerInv == EnrichmentInit => BreakerInv
<1> SUFFICES ASSUME EnrichmentInit PROVE BreakerInv
  OBVIOUS
<1>1. breaker \in Breaker /\ streak \in 0..Threshold /\ quiet \in 0..(ResetTicks + 1)
  BY Bounds DEF EnrichmentInit, Breaker
<1>2. pc \in [Threads -> Places] /\ work \in [Threads -> Work]
  BY WorkTypes DEF EnrichmentInit, Places
<1>3. EnrichmentTypeOK
  BY <1>1, <1>2 DEF EnrichmentInit, EnrichmentTypeOK
<1>4. Remembered /\ OutageOpen
  BY Bounds DEF EnrichmentInit, Remembered, OutageOpen
<1>5. ElapsedHolds
  BY DEF EnrichmentInit, ElapsedHolds
<1> QED
  BY <1>3, <1>4, <1>5 DEF BreakerInv

(* Every step keeps the state well formed: one fact per action.            *)
LEMMA StepTypeOK == EnrichmentTypeOK /\ [EnrichmentNext]_vars => EnrichmentTypeOK'
<1> SUFFICES ASSUME EnrichmentTypeOK, [EnrichmentNext]_vars PROVE EnrichmentTypeOK'
  OBVIOUS
<1> USE DEF EnrichmentTypeOK
<1>1. ASSUME NEW t \in Threads, NEW items \in Selections, BeginEnrichment(t, items)
      PROVE  EnrichmentTypeOK'
  <2>1. [NoWork EXCEPT !.items = items] \in Work
    BY BoundsAssumption, WorkTypes
  <2>2. pc' \in [Threads -> Places]
    BY <1>1 DEF BeginEnrichment, Tell, Go, Places
  <2> QED
    BY <1>1, <2>1, <2>2 DEF BeginEnrichment
<1>2. ASSUME NEW t \in Threads, StartCall(t)
      PROVE  pc' \in [Threads -> Places] /\ work' \in [Threads -> Work]
  <2>1. work' = [work EXCEPT ![t] = [work[t] EXCEPT !.attempts = 1, !.elapsed = FALSE]]
    BY <1>2 DEF StartCall
  <2>2. 1 \in 0..(MaxRetries + 1)
    BY BoundsAssumption
  <2>3. [work[t] EXCEPT !.attempts = 1, !.elapsed = FALSE] \in Work
    BY <2>2, WorkTypes
  <2>4. pc' \in [Threads -> Places]
    BY <1>2 DEF StartCall, Go, Places
  <2> QED
    BY <2>1, <2>3, <2>4
<1>3. ASSUME NEW t \in Threads, CheckPasses(t) PROVE EnrichmentTypeOK'
  BY <1>2, <1>3 DEF CheckPasses
<1>4. ASSUME NEW t \in Threads, CheckReadsClock(t) PROVE EnrichmentTypeOK'
  <2>1. Elapsed \in BOOLEAN
    BY DEF Elapsed
  <2>2. [work[t] EXCEPT !.elapsed = Elapsed] \in Work
    BY <2>1, WorkTypes
  <2>3. work' = [work EXCEPT ![t] = [work[t] EXCEPT !.elapsed = Elapsed]]
    BY <1>4 DEF CheckReadsClock
  <2>4. pc' \in [Threads -> Places]
    BY <1>4 DEF CheckReadsClock, Go, Places
  <2> QED
    BY <1>4, <2>2, <2>3, <2>4 DEF CheckReadsClock
<1>5. ASSUME NEW t \in Threads, CheckHalfOpens(t) PROVE EnrichmentTypeOK'
  BY <1>2, <1>5, BreakerTypes DEF CheckHalfOpens
<1>6. ASSUME NEW t \in Threads, CheckRaises(t) PROVE EnrichmentTypeOK'
  BY <1>6 DEF CheckRaises, Tell, Go, Places
<1>7. ASSUME RecordSuccess PROVE breaker' \in Breaker /\ streak' \in 0..Threshold
  <2>1. AfterSuccess \in Breaker
    BY BreakerTypes DEF AfterSuccess
  <2>2. 0 \in 0..Threshold
    BY Bounds
  <2> QED
    BY <1>7, <2>1, <2>2 DEF RecordSuccess
<1>8. ASSUME NEW t \in Threads, NEW answer \in Answers[t], CallAnswered(t, answer)
      PROVE  EnrichmentTypeOK'
  <2>1. [work[t] EXCEPT !.answer = answer] \in Work
    BY BoundsAssumption, WorkTypes
  <2>2. work' = [work EXCEPT ![t] = [work[t] EXCEPT !.answer = answer]]
    BY <1>8 DEF CallAnswered
  <2>3. pc' \in [Threads -> Places]
    BY <1>8 DEF CallAnswered, Tell, Go, Places
  <2> QED
    BY <1>7, <1>8, <2>1, <2>2, <2>3 DEF CallAnswered
<1>9. ASSUME NEW t \in Threads, CallUnreadable(t) PROVE EnrichmentTypeOK'
  <2>1. pc' \in [Threads -> Places]
    BY <1>9 DEF CallUnreadable, Tell, Go, Places
  <2> QED
    BY <1>7, <1>9, <2>1 DEF CallUnreadable
<1>10. ASSUME NEW t \in Threads, CallRetried(t) PROVE EnrichmentTypeOK'
  <2>1. work[t].attempts + 1 \in 0..(MaxRetries + 1)
    <3>1. work[t].attempts \in 0..(MaxRetries + 1)
      BY DEF Work
    <3>2. work[t].attempts <= MaxRetries
      BY <1>10 DEF CallRetried
    <3> QED
      BY <3>1, <3>2, Bounds
  <2>2. [work[t] EXCEPT !.attempts = work[t].attempts + 1] \in Work
    BY <2>1, WorkTypes
  <2>3. work' = [work EXCEPT ![t] = [work[t] EXCEPT !.attempts = work[t].attempts + 1]]
    BY <1>10 DEF CallRetried
  <2> QED
    BY <1>10, <2>2, <2>3 DEF CallRetried
<1>11. ASSUME NEW t \in Threads, NEW error \in Errors, CallFailed(t, error)
       PROVE  EnrichmentTypeOK'
  <2>1. [work[t] EXCEPT !.error = error, !.owed = FailuresOwed(error)] \in Work
    <3>1. FailuresOwed(error) \in Int
      BY DEF FailuresOwed
    <3> QED
      BY <3>1, WorkTypes
  <2>2. work' = [work EXCEPT ![t] = [work[t] EXCEPT !.error = error,
                                                   !.owed = FailuresOwed(error)]]
    BY <1>11 DEF CallFailed
  <2>3. pc' \in [Threads -> Places]
    BY <1>11 DEF CallFailed, Go, Places
  <2> QED
    BY <1>11, <2>1, <2>2, <2>3 DEF CallFailed
<1>12. ASSUME NEW t \in Threads, CountFailure(t) PROVE EnrichmentTypeOK'
  <2>1. breaker' \in Breaker
    BY <1>12, BreakerTypes DEF CountFailure
  <2>2. streak' \in 0..Threshold
    BY <1>12, BoundsAssumption DEF CountFailure, Smaller
  <2>3. pc' \in [Threads -> Places]
    BY <1>12 DEF CountFailure, Go, Places
  <2> QED
    BY <1>12, <2>1, <2>2, <2>3 DEF CountFailure
<1>13. ASSUME NEW t \in Threads, StampFailure(t) PROVE EnrichmentTypeOK'
  <2>1. pc' \in [Threads -> Places]
    BY <1>13 DEF StampFailure, Tell, Go, Places
  <2>2. \A u \in Threads :
          (IF u = t THEN work[u].owed - 1 ELSE work[u].owed) \in Int
    <3>1. \A u \in Threads : work[u].owed \in Int
      BY DEF Work
    <3> QED
      BY <3>1
  <2>3. \A u \in Threads :
          [work[u] EXCEPT !.elapsed = FALSE,
                          !.owed = IF u = t THEN work[u].owed - 1 ELSE work[u].owed] \in Work
    BY <2>2, WorkTypes
  <2>4. work' \in [Threads -> Work]
    BY <1>13, <2>3 DEF StampFailure
  <2>5. (IF breaker.failures >= Threshold THEN "open" ELSE breaker.state)
            \in {"closed", "open", "half_open"}
    BY DEF Breaker
  <2>6. breaker' \in Breaker
    BY <1>13, <2>5, BreakerTypes DEF StampFailure, Stamped
  <2>7. quiet' \in 0..(ResetTicks + 1)
    <3>1. quiet' = 0
      BY <1>13 DEF StampFailure
    <3> QED
      BY <3>1, Bounds
  <2> QED
    BY <1>13, <2>1, <2>4, <2>6, <2>7 DEF StampFailure
<1>14. ASSUME NEW t \in Threads, EndAnalysis(t) PROVE EnrichmentTypeOK'
  BY <1>14, WorkTypes DEF EndAnalysis, Go, Places
<1>15. ASSUME Tick PROVE EnrichmentTypeOK'
  <2>1. quiet' \in 0..(ResetTicks + 1)
    BY <1>15, BoundsAssumption DEF Tick, Smaller
  <2> QED
    BY <1>15, <2>1, BreakerTypes DEF Tick
<1>16. CASE UNCHANGED vars
  BY <1>16 DEF vars
<1> QED
  BY <1>1, <1>3, <1>4, <1>5, <1>6, <1>8, <1>9, <1>10, <1>11, <1>12, <1>13, <1>14, <1>15, <1>16
  DEF EnrichmentNext, Proceed

(* Every step keeps the rest of the invariant.                             *)
LEMMA StepBreakerInv == BreakerInv /\ [EnrichmentNext]_vars => BreakerInv'
<1> SUFFICES ASSUME BreakerInv, [EnrichmentNext]_vars
             PROVE  (Remembered /\ ElapsedHolds /\ OutageOpen)'
  BY StepTypeOK DEF BreakerInv
<1> USE DEF BreakerInv, EnrichmentTypeOK, Breaker
<1>1. ASSUME NEW t \in Threads, NEW items \in Selections, BeginEnrichment(t, items)
      PROVE  (Remembered /\ ElapsedHolds /\ OutageOpen)'
  <2>1. /\ UNCHANGED <<breaker, streak, quiet>>
        /\ pc[t] = "idle"
        /\ \A u \in Threads \ {t} : pc'[u] = pc[u] /\ work'[u] = work[u]
        /\ pc'[t] # "checking"
    BY <1>1 DEF BeginEnrichment, Tell, Go
  <2> QED
    BY <2>1 DEF Remembered, ElapsedHolds, OutageOpen
<1>2. ASSUME NEW t \in Threads, CheckPasses(t)
      PROVE  (Remembered /\ ElapsedHolds /\ OutageOpen)'
  BY <1>2 DEF CheckPasses, StartCall, Go, Remembered, ElapsedHolds, OutageOpen
<1>3. ASSUME NEW t \in Threads, CheckReadsClock(t)
      PROVE  (Remembered /\ ElapsedHolds /\ OutageOpen)'
  <2>1. /\ UNCHANGED <<breaker, streak, quiet>>
        /\ pc[t] = "invoked"
        /\ \A u \in Threads \ {t} : pc'[u] = pc[u] /\ work'[u] = work[u]
        /\ work'[t].elapsed = Elapsed
    BY <1>3 DEF CheckReadsClock, Go, Work
  <2> QED
    BY <2>1 DEF Remembered, ElapsedHolds, OutageOpen, Elapsed
<1>4. ASSUME NEW t \in Threads, CheckHalfOpens(t)
      PROVE  (Remembered /\ ElapsedHolds /\ OutageOpen)'
  <2>1. /\ UNCHANGED <<streak, quiet>>
        /\ breaker' = [breaker EXCEPT !.state = "half_open"]
        /\ pc[t] = "checking" /\ pc'[t] = "calling" /\ work[t].elapsed
        /\ \A u \in Threads \ {t} : pc'[u] = pc[u] /\ work'[u] = work[u]
    BY <1>4 DEF CheckHalfOpens, StartCall, Go
  <2> QED
    BY <2>1 DEF Remembered, ElapsedHolds, OutageOpen
<1>5. ASSUME NEW t \in Threads, CheckRaises(t)
      PROVE  (Remembered /\ ElapsedHolds /\ OutageOpen)'
  BY <1>5 DEF CheckRaises, Tell, Go, Remembered, ElapsedHolds, OutageOpen
<1>6. ASSUME NEW t \in Threads, RecordSuccess, UNCHANGED quiet,
             \A u \in Threads \ {t} : pc'[u] = pc[u] /\ work'[u] = work[u],
             pc'[t] # "checking"
      PROVE  (Remembered /\ ElapsedHolds /\ OutageOpen)'
  BY <1>6, BoundsAssumption
  DEF RecordSuccess, AfterSuccess, Remembered, ElapsedHolds, OutageOpen
<1>7. ASSUME NEW t \in Threads, NEW answer \in Answers[t], CallAnswered(t, answer)
      PROVE  (Remembered /\ ElapsedHolds /\ OutageOpen)'
  <2>1. /\ \A u \in Threads \ {t} : pc'[u] = pc[u] /\ work'[u] = work[u]
        /\ pc'[t] # "checking"
    BY <1>7 DEF CallAnswered, Tell, Go
  <2> QED
    BY <1>6, <1>7, <2>1 DEF CallAnswered
<1>8. ASSUME NEW t \in Threads, CallUnreadable(t)
      PROVE  (Remembered /\ ElapsedHolds /\ OutageOpen)'
  <2>1. /\ \A u \in Threads \ {t} : pc'[u] = pc[u] /\ work'[u] = work[u]
        /\ pc'[t] # "checking"
    BY <1>8 DEF CallUnreadable, Tell, Go
  <2> QED
    BY <1>6, <1>8, <2>1 DEF CallUnreadable
<1>9. ASSUME NEW t \in Threads, CallRetried(t)
      PROVE  (Remembered /\ ElapsedHolds /\ OutageOpen)'
  BY <1>9 DEF CallRetried, Remembered, ElapsedHolds, OutageOpen
<1>10. ASSUME NEW t \in Threads, NEW error \in Errors, CallFailed(t, error)
       PROVE  (Remembered /\ ElapsedHolds /\ OutageOpen)'
  BY <1>10 DEF CallFailed, Go, Remembered, ElapsedHolds, OutageOpen
<1>11. ASSUME NEW t \in Threads, CountFailure(t)
       PROVE  (Remembered /\ ElapsedHolds /\ OutageOpen)'
  BY <1>11 DEF CountFailure, Go, Remembered, ElapsedHolds, OutageOpen
<1>12. ASSUME NEW t \in Threads, StampFailure(t)
       PROVE  (Remembered /\ ElapsedHolds /\ OutageOpen)'
  <2>1. breaker' = Stamped /\ quiet' = 0 /\ streak' = streak
    BY <1>12 DEF StampFailure
  <2>2. \A u \in Threads : ~work'[u].elapsed
    BY <1>12 DEF StampFailure, Work
  <2>3. breaker'.failures = breaker.failures /\ breaker'.idle = 0
    BY <2>1 DEF Stamped
  <2>4. Remembered'
    BY <2>1, <2>3 DEF Remembered
  <2>5. ElapsedHolds'
    BY <2>2 DEF ElapsedHolds
  <2>6. streak >= Threshold => breaker'.state = "open"
    BY <2>1, Bounds DEF Stamped, Remembered
  <2>7. OutageOpen'
    BY <2>1, <2>6, Bounds DEF OutageOpen
  <2> QED
    BY <2>4, <2>5, <2>7
<1>13. ASSUME NEW t \in Threads, EndAnalysis(t)
       PROVE  (Remembered /\ ElapsedHolds /\ OutageOpen)'
  BY <1>13 DEF EndAnalysis, Go, Remembered, ElapsedHolds, OutageOpen
<1>14. ASSUME Tick PROVE (Remembered /\ ElapsedHolds /\ OutageOpen)'
  BY <1>14, BoundsAssumption DEF Tick, Smaller, Remembered, ElapsedHolds, OutageOpen
<1>15. CASE UNCHANGED vars
  BY <1>15 DEF vars, Remembered, ElapsedHolds, OutageOpen
<1> QED
  BY <1>1, <1>2, <1>3, <1>4, <1>5, <1>7, <1>8, <1>9, <1>10, <1>11, <1>12, <1>13, <1>14, <1>15
  DEF EnrichmentNext, Proceed

(* The invariant holds throughout every behaviour of the breaker.          *)
THEOREM BreakerInvariant == EnrichmentSpec => []BreakerInv
  BY InitBreakerInv, StepBreakerInv, PTL DEF EnrichmentSpec

(* The settings, the breaker and the threads stay well formed.             *)
THEOREM EnrichmentTypes == EnrichmentSpec => []EnrichmentTypeOK
<1>1. BreakerInv => EnrichmentTypeOK
  BY DEF BreakerInv
<1> QED
  BY <1>1, BreakerInvariant, PTL

OutageStep ==
    \A t \in Threads :
        pc[t] # "calling" /\ pc'[t] = "calling" =>
            \/ streak < Threshold
            \/ quiet > ResetTicks
            \/ \E u \in Threads : pc[u] = "stamping"

(* CircuitBreaker.check and record_failure: no thread starts a call during *)
(* an outage, without a lock and for any number of threads.                *)
THEOREM OutageIsRespected == EnrichmentSpec => OutageRespected
<1>1. BreakerInv /\ [EnrichmentNext]_vars => [OutageStep]_vars
  <2> SUFFICES ASSUME BreakerInv, EnrichmentNext, NEW t \in Threads,
                      pc[t] # "calling", pc'[t] = "calling"
               PROVE  \/ streak < Threshold
                      \/ quiet > ResetTicks
                      \/ \E u \in Threads : pc[u] = "stamping"
    BY DEF OutageStep
  <2> USE DEF BreakerInv, EnrichmentTypeOK
  <2>1. CheckPasses(t) \/ CheckHalfOpens(t)
    <3>1. ASSUME NEW u \in Threads, NEW items \in Selections, BeginEnrichment(u, items)
          PROVE  FALSE
      BY <3>1 DEF BeginEnrichment, Tell, Go
    <3>2. ASSUME NEW u \in Threads, NEW answer \in Answers[u], CallAnswered(u, answer)
          PROVE  FALSE
      BY <3>2 DEF CallAnswered, Tell, Go
    <3>3. ASSUME NEW u \in Threads, StampFailure(u) PROVE FALSE
      BY <3>3 DEF StampFailure, Tell, Go
    <3>4. ASSUME NEW u \in Threads,
                 \/ CheckReadsClock(u) \/ CheckRaises(u) \/ CallUnreadable(u)
                 \/ CallRetried(u) \/ CountFailure(u) \/ EndAnalysis(u)
                 \/ \E error \in Errors : CallFailed(u, error)
          PROVE  FALSE
      BY <3>4 DEF CheckReadsClock, CheckRaises, CallUnreadable, CallRetried, CountFailure,
                  EndAnalysis, CallFailed, Tell, Go
    <3>5. ASSUME NEW u \in Threads, CheckPasses(u) \/ CheckHalfOpens(u) PROVE u = t
      BY <3>5 DEF CheckPasses, CheckHalfOpens, StartCall, Go
    <3>6. ~Tick
      BY DEF Tick
    <3> QED
      BY <3>1, <3>2, <3>3, <3>4, <3>5, <3>6 DEF EnrichmentNext, Proceed
  <2>2. CASE CheckPasses(t)
    BY <2>2 DEF CheckPasses, OutageOpen
  <2>3. CASE CheckHalfOpens(t)
    BY <2>3 DEF CheckHalfOpens, ElapsedHolds
  <2> QED
    BY <2>1, <2>2, <2>3
<1>2. EnrichmentSpec => [][OutageStep]_vars
  BY <1>1, BreakerInvariant, PTL DEF EnrichmentSpec
<1> QED
  BY <1>2 DEF OutageRespected, OutageStep

(***************************************************************************)
(* The texts                                                               *)
(***************************************************************************)
(* complete_with_fallback: deterministic text is grounded in its row.      *)
LEMMA FallbackGrounded ==
    ASSUME NEW items, NEW answer
    PROVE  Grounded(items, answer, Completed({}, items))
  BY DEF Grounded, Completed, Fallback

(* validate_enrichment_payload: an accepted entry is one of the answer and *)
(* passes every check.                                                     *)
LEMMA AcceptedSound ==
    ASSUME NEW answer \in Answer, NEW requested, NEW e \in Accepted(answer, requested)
    PROVE  /\ e \in Elements(answer.entries)
           /\ ~e.claims /\ ~e.long
           /\ e.mentions \subseteq Known[e.id]
           /\ e.actions >= MinActions
<1>1. e \in Counted(answer, requested) /\ Verdict(e) = ""
  BY DEF Accepted
<1>2. PICK k \in DOMAIN answer.entries : e = answer.entries[k]
  BY <1>1 DEF Counted
<1>3. e \in Entry
  BY <1>2 DEF Answer
<1>4. ~e.long /\ ~(Smaller(e.actions, MaxActions) < MinActions) /\ RejectionReason(e) = ""
  BY <1>1 DEF Verdict
<1>5. ~e.claims /\ e.mentions \subseteq Known[e.id]
  BY <1>4 DEF RejectionReason
<1>6. e.actions >= MinActions
  <2>1. e.actions \in Nat /\ MinActions \in Nat /\ MaxActions \in Nat
    BY <1>3, BoundsAssumption DEF Entry
  <2>2. ~(Smaller(e.actions, MaxActions) < MinActions)
    BY <1>4
  <2>3. \A a, b, c \in Nat : ~(Smaller(a, b) < c) => a >= c
    BY DEF Smaller
  <2> QED
    BY <2>1, <2>2, <2>3
<1> QED
  BY <1>2, <1>4, <1>5, <1>6 DEF Elements

LEMMA AnswerGrounded ==
    ASSUME NEW items, NEW answer \in Answer, NEW requested
    PROVE  Grounded(items, answer, Completed(Accepted(answer, requested), items))
<1> DEFINE accepted == Accepted(answer, requested)
           texts == Completed(accepted, items)
<1>1. DOMAIN texts = DOMAIN items
  BY DEF Completed
<1>2. ASSUME NEW i \in DOMAIN items
      PROVE  /\ texts[i].id = items[i]
             /\ texts[i].model => texts[i].entry \in accepted /\ texts[i].entry.id = items[i]
  <2>1. CASE \E e \in accepted : e.id = items[i]
    <3> DEFINE chosen == CHOOSE e \in accepted : e.id = items[i]
    <3>1. chosen \in accepted /\ chosen.id = items[i]
      BY <2>1
    <3>2. texts[i] = TextOf(chosen)
      BY <2>1 DEF Completed
    <3> QED
      BY <3>1, <3>2 DEF TextOf
  <2>2. CASE ~\E e \in accepted : e.id = items[i]
    BY <2>2 DEF Completed, Fallback
  <2> QED
    BY <2>1, <2>2
<1>3. ASSUME NEW e \in accepted
      PROVE  /\ e \in Elements(answer.entries)
             /\ ~e.claims /\ ~e.long /\ e.mentions \subseteq Known[e.id]
             /\ e.actions >= MinActions
  BY AcceptedSound
<1> HIDE DEF accepted, texts
<1>4. Grounded(items, answer, texts)
  BY <1>1, <1>2, <1>3 DEF Grounded
<1> QED
  BY <1>4 DEF accepted, texts

EveryThreadHasResult == DOMAIN result = Threads

LEMMA StepResults == EveryThreadHasResult /\ [EnrichmentNext]_vars => EveryThreadHasResult'
  BY DEF EveryThreadHasResult, EnrichmentNext, Proceed, BeginEnrichment, CheckPasses,
         CheckReadsClock, CheckHalfOpens, CheckRaises, CallAnswered, CallUnreadable,
         CallRetried, CallFailed, CountFailure, StampFailure, EndAnalysis, Tick, Tell, vars

(***************************************************************************)
(* How an enrichment comes to be told.  An invocation under way is one of  *)
(* a process that may use the model, for rows, and has no answer yet.      *)
(***************************************************************************)
Invoked(t) == pc[t] \in {"invoked", "checking", "calling", "failing", "stamping"}
InvocationInv == \A t \in Threads :
    /\ Invoked(t) => config.llm = "ready" /\ work[t].items # <<>> /\ work[t].answer = NoAnswer
    /\ pc[t] = "calling" => work[t].attempts >= 1

LEMMA SettingsStay == [EnrichmentNext]_vars => config' = config
  BY DEF EnrichmentNext, Proceed, BeginEnrichment, CheckPasses, CheckReadsClock,
         CheckHalfOpens, CheckRaises, CallAnswered, CallUnreadable, CallRetried, CallFailed,
         CountFailure, StampFailure, EndAnalysis, Tick, vars

LEMMA StepInvocationInv ==
    EnrichmentTypeOK /\ InvocationInv /\ [EnrichmentNext]_vars => InvocationInv'
<1> SUFFICES ASSUME EnrichmentTypeOK, InvocationInv, [EnrichmentNext]_vars
             PROVE  InvocationInv'
  OBVIOUS
<1> USE SettingsStay DEF EnrichmentTypeOK
<1>1. ASSUME NEW t \in Threads, \A u \in Threads \ {t} : pc'[u] = pc[u] /\ work'[u] = work[u],
             Invoked(t)' => /\ work'[t].items # <<>> /\ work'[t].answer = NoAnswer
                            /\ config.llm = "ready",
             pc'[t] = "calling" => work'[t].attempts >= 1
      PROVE  InvocationInv'
  BY <1>1 DEF InvocationInv, Invoked
<1>2. ASSUME NEW t \in Threads, NEW items \in Selections, BeginEnrichment(t, items)
      PROVE  InvocationInv'
  <2>1. /\ work'[t].items = items /\ work'[t].answer = NoAnswer
        /\ \A u \in Threads \ {t} : pc'[u] = pc[u] /\ work'[u] = work[u]
    BY <1>2 DEF BeginEnrichment, NoWork, Tell, Go
  <2>2. \/ pc'[t] = "told"
        \/ pc'[t] = "invoked" /\ items # <<>> /\ config.llm = "ready"
    BY <1>2 DEF BeginEnrichment, Tell, Go
  <2> QED BY <1>1, <2>1, <2>2 DEF Invoked
<1>3. ASSUME NEW t \in Threads, CheckPasses(t) \/ CheckHalfOpens(t) PROVE InvocationInv'
  <2>1. /\ \A u \in Threads \ {t} : pc'[u] = pc[u] /\ work'[u] = work[u]
        /\ work'[t].items = work[t].items /\ work'[t].answer = work[t].answer
        /\ work'[t].attempts = 1 /\ Invoked(t)
    <3>1. /\ StartCall(t) /\ pc[t] \in {"invoked", "checking"}
          /\ pc \in [Threads -> Places] /\ work \in [Threads -> Work]
      BY <1>3 DEF CheckPasses, CheckHalfOpens
    <3>2. work' = [work EXCEPT ![t] = [work[t] EXCEPT !.attempts = 1, !.elapsed = FALSE]]
      BY <3>1 DEF StartCall
    <3>3. /\ \A u \in Threads \ {t} : work'[u] = work[u]
          /\ work'[t] = [work[t] EXCEPT !.attempts = 1, !.elapsed = FALSE]
      BY <3>1, <3>2
    <3>4. \A u \in Threads \ {t} : pc'[u] = pc[u]
      BY <3>1 DEF StartCall, Go
    <3>5. Invoked(t)
      BY <3>1 DEF Invoked
    <3>6. work[t] \in Work
      BY <3>1
    <3>7. /\ work'[t].items = work[t].items /\ work'[t].answer = work[t].answer
          /\ work'[t].attempts = 1
      BY <3>3, <3>6 DEF Work
    <3> QED BY <3>3, <3>4, <3>5, <3>7
  <2> QED BY <1>1, <2>1 DEF InvocationInv
<1>4. ASSUME NEW t \in Threads,
             CheckReadsClock(t) \/ CallRetried(t) \/ \E error \in Errors : CallFailed(t, error)
      PROVE  InvocationInv'
  <2>1. /\ \A u \in Threads \ {t} : pc'[u] = pc[u] /\ work'[u] = work[u]
        /\ work'[t].items = work[t].items /\ work'[t].answer = work[t].answer
        /\ Invoked(t)
    <3>1. CASE CheckReadsClock(t)
      BY <3>1 DEF CheckReadsClock, Go, Invoked, Work
    <3>2. CASE CallRetried(t)
      BY <3>2 DEF CallRetried, Invoked, Work
    <3>3. ASSUME NEW error, CallFailed(t, error)
          PROVE  /\ \A u \in Threads \ {t} : pc'[u] = pc[u] /\ work'[u] = work[u]
                 /\ work'[t].items = work[t].items /\ work'[t].answer = work[t].answer
                 /\ Invoked(t)
      BY <3>3 DEF CallFailed, Go, Invoked, Work
    <3> QED BY <1>4, <3>1, <3>2, <3>3
  <2>2. pc'[t] = "calling" => pc[t] = "calling" /\ work'[t].attempts = work[t].attempts + 1
    BY <1>4 DEF CheckReadsClock, CallRetried, CallFailed, Go, Work
  <2>3. work[t].attempts \in 0..(MaxRetries + 1)
    BY DEF Work
  <2>4. pc'[t] = "calling" => work'[t].attempts >= 1
    BY <2>2, <2>3, Bounds
  <2> QED BY <1>1, <2>1, <2>4 DEF InvocationInv
<1>5. ASSUME NEW t \in Threads,
             \/ CheckRaises(t) \/ CallUnreadable(t) \/ EndAnalysis(t)
             \/ \E answer \in Answers[t] : CallAnswered(t, answer)
      PROVE  InvocationInv'
  <2>1. /\ \A u \in Threads \ {t} : pc'[u] = pc[u] /\ work'[u] = work[u]
        /\ pc'[t] \in {"told", "raised", "idle"}
    BY <1>5 DEF CheckRaises, CallUnreadable, EndAnalysis, CallAnswered, Tell, Go
  <2> QED BY <1>1, <2>1 DEF Invoked
<1>6. ASSUME NEW t \in Threads, CountFailure(t) PROVE InvocationInv'
  BY <1>6 DEF CountFailure, Go, InvocationInv, Invoked
<1>7. ASSUME NEW t \in Threads, StampFailure(t) PROVE InvocationInv'
  <2>1. \A u \in Threads : /\ work'[u].items = work[u].items
                           /\ work'[u].answer = work[u].answer
                           /\ work'[u].attempts = work[u].attempts
    BY <1>7 DEF StampFailure, Work
  <2>2. /\ \A u \in Threads \ {t} : pc'[u] = pc[u]
        /\ pc[t] = "stamping" /\ pc'[t] \in {"failing", "told"}
    BY <1>7 DEF StampFailure, Tell, Go
  <2> QED BY <2>1, <2>2 DEF InvocationInv, Invoked
<1>8. CASE Tick \/ UNCHANGED vars
  BY <1>8 DEF Tick, vars, InvocationInv, Invoked
<1> QED BY <1>2, <1>3, <1>4, <1>5, <1>6, <1>7, <1>8 DEF EnrichmentNext, Proceed

(* What has been told stays until the analysis ends; what is told now is   *)
(* deterministic, unless it comes from an answer.                          *)
Stays(u) == /\ Told(u) /\ result'[u] = result[u] /\ work'[u].items = work[u].items
            /\ work'[u].answer = work[u].answer /\ work'[u].attempts = work[u].attempts
ToldEmpty(u) == result'[u] = NoResult /\ work'[u].items = <<>> /\ work'[u].answer = NoAnswer
ToldWithoutModel(u) ==
    /\ work'[u].items # <<>> /\ work'[u].answer = NoAnswer
    /\ \E reason : result'[u] = Deterministic(work'[u].items,
                                     IF config.llm = "ready" THEN 1 ELSE 0, {reason})
ToldAnswer(u) ==
    /\ pc[u] = "calling"
    /\ work'[u].answer \in Answer
    /\ work'[u].items = work[u].items /\ work'[u].attempts = work[u].attempts
    /\ result'[u] = FromAnswer(work'[u].answer, work[u].items, work[u].attempts)

LEMMA HowTold ==
    ASSUME EnrichmentTypeOK, InvocationInv, EveryThreadHasResult, [EnrichmentNext]_vars,
           NEW u \in Threads, Told(u)'
    PROVE  Stays(u) \/ ToldEmpty(u) \/ ToldWithoutModel(u) \/ ToldAnswer(u)
<1> DEFINE Goal == Stays(u) \/ ToldEmpty(u) \/ ToldWithoutModel(u) \/ ToldAnswer(u)
<1> USE DEF EnrichmentTypeOK, EveryThreadHasResult
<1>1. ASSUME NEW t \in Threads, NEW items \in Selections, BeginEnrichment(t, items)
      PROVE  Goal
  <2>1. CASE t # u
    BY <1>1, <2>1 DEF BeginEnrichment, Tell, Go, Told, Stays
  <2>2. CASE t = u
    <3>1. work'[u].items = items /\ work'[u].answer = NoAnswer
      BY <1>1, <2>2 DEF BeginEnrichment, NoWork
    <3>2. CASE items = <<>>
      BY <1>1, <2>2, <3>1, <3>2 DEF BeginEnrichment, Tell, ToldEmpty
    <3>3. CASE items # <<>>
      <4>1. \/ config.llm = "disabled" /\ result'[u] = Deterministic(items, 0, {"llm_disabled"})
            \/ /\ config.llm = "misconfigured"
               /\ result'[u] = Deterministic(items, 0, {"provider_unavailable"})
        BY <1>1, <2>2, <3>3 DEF BeginEnrichment, Tell, Go, Told
      <4> QED BY <3>1, <3>3, <4>1 DEF ToldWithoutModel
    <3> QED BY <3>2, <3>3
  <2> QED BY <2>1, <2>2
<1>2. ASSUME NEW t \in Threads,
             \/ CheckPasses(t) \/ CheckHalfOpens(t) \/ CheckReadsClock(t) \/ CallRetried(t)
             \/ CountFailure(t) \/ \E error \in Errors : CallFailed(t, error)
      PROVE  Goal
  <2>1. t # u /\ work'[u] = work[u] /\ pc'[u] = pc[u] /\ result' = result
    BY <1>2 DEF CheckPasses, CheckHalfOpens, StartCall, CheckReadsClock, CallRetried,
                CountFailure, CallFailed, Go, Told
  <2> QED BY <2>1 DEF Stays, Told
<1>3. ASSUME NEW t \in Threads, CheckRaises(t) \/ CallUnreadable(t) PROVE Goal
  <2>1. CASE t # u
    BY <1>3, <2>1 DEF CheckRaises, CallUnreadable, Tell, Go, Told, Stays
  <2>2. CASE t = u
    <3>1. work' = work /\ Invoked(u) /\ \E reason : result'[u] = Deterministic(work'[u].items, 1, {reason})
      BY <1>3, <2>2 DEF CheckRaises, CallUnreadable, Tell, Invoked
    <3> QED BY <3>1 DEF ToldWithoutModel, InvocationInv
  <2> QED BY <2>1, <2>2
<1>4. ASSUME NEW t \in Threads, NEW answer \in Answers[t], CallAnswered(t, answer) PROVE Goal
  <2>1. CASE t # u
    BY <1>4, <2>1 DEF CallAnswered, Tell, Go, Told, Stays
  <2>2. CASE t = u
    <3>1. /\ work'[u].items = work[u].items /\ work'[u].answer = answer
          /\ work'[u].attempts = work[u].attempts
      BY <1>4, <2>2 DEF CallAnswered, Work
    <3>2. result'[u] = FromAnswer(answer, work[u].items, work[u].attempts) /\ pc[u] = "calling"
      BY <1>4, <2>2 DEF CallAnswered, Tell, Go, Told
    <3>3. answer \in Answer
      BY BoundsAssumption
    <3> QED BY <3>1, <3>2, <3>3 DEF ToldAnswer
  <2> QED BY <2>1, <2>2
<1>5. ASSUME NEW t \in Threads, StampFailure(t) PROVE Goal
  <2>1. /\ work'[u].items = work[u].items /\ work'[u].answer = work[u].answer
        /\ work'[u].attempts = work[u].attempts
    BY <1>5 DEF StampFailure, Work
  <2>2. CASE t # u
    BY <1>5, <2>1, <2>2 DEF StampFailure, Tell, Go, Told, Stays
  <2>3. CASE t = u
    <3>1. result'[u] = Deterministic(work[u].items, 1, {work[u].error}) /\ Invoked(u)
      BY <1>5, <2>3 DEF StampFailure, Tell, Go, Told, Invoked
    <3> QED BY <2>1, <3>1 DEF ToldWithoutModel, InvocationInv
  <2> QED BY <2>2, <2>3
<1>6. ASSUME NEW t \in Threads, EndAnalysis(t) PROVE Goal
  BY <1>6 DEF EndAnalysis, Go, Told, Stays
<1>7. CASE Tick \/ UNCHANGED vars
  BY <1>7 DEF Tick, vars, Told, Stays
<1> QED
  BY <1>1, <1>2, <1>3, <1>4, <1>5, <1>6, <1>7 DEF EnrichmentNext, Proceed

(* TextsGrounded is inductive: texts are told with the answer they come    *)
(* from, and neither changes until the analysis ends.                      *)
LEMMA StepTextsGrounded ==
    /\ EnrichmentTypeOK /\ InvocationInv /\ EveryThreadHasResult /\ TextsGrounded
    /\ [EnrichmentNext]_vars
    => TextsGrounded'
<1> SUFFICES ASSUME EnrichmentTypeOK, InvocationInv, EveryThreadHasResult, TextsGrounded,
                    [EnrichmentNext]_vars, NEW u \in Threads, Told(u)'
             PROVE  Grounded(work[u].items, work[u].answer, result[u].texts)'
  BY DEF TextsGrounded
<1>1. CASE Stays(u)
  BY <1>1 DEF Stays, TextsGrounded, Grounded
<1>2. CASE ToldEmpty(u)
  BY <1>2 DEF ToldEmpty, NoResult, Grounded
<1>3. CASE ToldWithoutModel(u)
  BY <1>3, FallbackGrounded DEF ToldWithoutModel, Deterministic
<1>4. CASE ToldAnswer(u)
  BY <1>4, AnswerGrounded DEF ToldAnswer, FromAnswer
<1> QED BY <1>1, <1>2, <1>3, <1>4, HowTold

(* A thread asks the model only when the settings allow it and for rows,   *)
(* and has a result to tell from.                                          *)
THEOREM InvocationInvariant == EnrichmentSpec => [](InvocationInv /\ EveryThreadHasResult)
<1>1. EnrichmentInit => InvocationInv /\ EveryThreadHasResult
  BY DEF EnrichmentInit, InvocationInv, Invoked, EveryThreadHasResult
<1> QED
  BY <1>1, StepInvocationInv, StepResults, EnrichmentTypes, PTL DEF EnrichmentSpec

(* enrich_brief_items: whatever the provider answers, every row is told,   *)
(* and the text of the model says nothing its row does not have.           *)
THEOREM TextsAreGrounded == EnrichmentSpec => []TextsGrounded
<1>1. EnrichmentInit => TextsGrounded
  BY DEF EnrichmentInit, TextsGrounded, Told
<1> QED
  BY <1>1, StepTextsGrounded, EnrichmentTypes, InvocationInvariant, PTL DEF EnrichmentSpec

(***************************************************************************)
(* The rows of the request                                                 *)
(***************************************************************************)
LEMMA BatchProperties ==
    ASSUME NEW items \in Seq(Rows), NEW i \in DOMAIN Batch(items)
    PROVE  /\ i \in DOMAIN items /\ Batch(items)[i] = items[i]
           /\ items[i] \in Elements(Batch(items))
<1> DEFINE n == Smaller(Len(items), MaxBatch)
<1>1. n \in 0..Len(items)
  BY BoundsAssumption DEF Smaller
<1>2. Batch(items) = SubSeq(items, 1, n)
  BY DEF Batch
<1> HIDE DEF n
<1>3. DOMAIN Batch(items) = 1..n /\ \A j \in 1..n : Batch(items)[j] = items[j]
  BY <1>1, <1>2
<1>4. i \in DOMAIN items /\ Batch(items)[i] = items[i]
  BY <1>1, <1>3
<1> QED BY <1>4 DEF Elements

(* A row of the request that gets no text of the model has a reason.       *)
LEMMA FallbackHasReason ==
    ASSUME NEW items \in Seq(Rows), NEW answer, NEW i \in DOMAIN Batch(items),
           ~Completed(Accepted(answer, Batch(items)), items)[i].model
    PROVE  Rejections(answer, Batch(items)) # {}
<1> DEFINE requested == Batch(items)
           accepted == Accepted(answer, requested)
           counted == Counted(answer, requested)
<1>1. i \in DOMAIN items /\ items[i] \in Elements(requested)
  BY BatchProperties
<1>2. ~\E e \in accepted : e.id = items[i]
  <2>1. ASSUME \E e \in accepted : e.id = items[i]
        PROVE  Completed(accepted, items)[i].model
    BY <1>1, <2>1 DEF Completed, TextOf
  <2> QED BY <2>1
<1> HIDE DEF requested
<1>3. CASE ~answer.list
  BY <1>1, <1>3 DEF Rejections, requested
<1>4. CASE answer.list
  <2>1. CASE \E e \in counted : e.id = items[i]
    <3>1. PICK e \in counted : e.id = items[i]
      BY <2>1
    <3>2. Verdict(e) # ""
      BY <1>2, <1>4, <3>1 DEF Accepted
    <3>3. Verdict(e) \in Rejections(answer, requested)
      BY <1>4, <3>1, <3>2 DEF Rejections
    <3> QED BY <3>3 DEF requested
  <2>2. CASE ~\E e \in counted : e.id = items[i]
    <3>1. items[i] \in Elements(requested) \ {e.id : e \in counted}
      BY <1>1, <2>2
    <3>2. "missing_item" \in Rejections(answer, requested)
      BY <1>4, <3>1 DEF Rejections
    <3> QED BY <3>2 DEF requested
  <2> QED BY <2>1, <2>2
<1> QED BY <1>3, <1>4

(* Deterministic text is never the model's.                                *)
LEMMA NoModel ==
    ASSUME NEW items, NEW n, NEW reasons
    PROVE  \A i \in DOMAIN items : ~Deterministic(items, n, reasons).texts[i].model
  BY DEF Deterministic, Completed, Fallback

(* What is said of the making, as one formula per thread.                  *)
Making(items, attempts, enrichment) ==
    /\ enrichment.invocations = (IF items # <<>> /\ config.llm = "ready" THEN 1 ELSE 0)
    /\ enrichment.retries \in 0..MaxRetries
    /\ (\E i \in DOMAIN items : enrichment.texts[i].model) => enrichment.retries + 1 = attempts
    /\ (\E i \in DOMAIN Batch(items) : ~enrichment.texts[i].model) => enrichment.reasons # {}

LEMMA StepInvocationsTold ==
    /\ EnrichmentTypeOK /\ InvocationInv /\ EveryThreadHasResult /\ InvocationsTold
    /\ [EnrichmentNext]_vars
    => InvocationsTold'
<1> SUFFICES ASSUME EnrichmentTypeOK, InvocationInv, EveryThreadHasResult, InvocationsTold,
                    [EnrichmentNext]_vars, NEW u \in Threads, Told(u)'
             PROVE  Making(work[u].items, work[u].attempts, result[u])'
  BY DEF InvocationsTold, Making
<1>1. config' = config
  BY SettingsStay
<1>2. /\ work[u] \in Work /\ work[u].items \in Seq(Rows)
      /\ work[u].attempts \in 0..(MaxRetries + 1)
  BY DEF EnrichmentTypeOK, Work
<1>3. 0 \in 0..MaxRetries
  BY Bounds
<1>4. CASE Stays(u)
  BY <1>1, <1>4 DEF Stays, InvocationsTold, Making
<1>5. CASE ToldEmpty(u)
  <2>1. Batch(<<>>) = <<>>
    <3>1. Smaller(Len(<<>>), MaxBatch) = 0
      BY BoundsAssumption DEF Smaller
    <3> QED BY <3>1 DEF Batch
  <2> QED BY <1>3, <1>5, <2>1 DEF ToldEmpty, NoResult, Making
<1>6. CASE ToldWithoutModel(u)
  <2>1. PICK reason : result'[u] = Deterministic(work'[u].items,
                                         IF config.llm = "ready" THEN 1 ELSE 0, {reason})
    BY <1>6 DEF ToldWithoutModel
  <2>2. /\ result'[u].invocations = (IF config.llm = "ready" THEN 1 ELSE 0)
        /\ result'[u].retries = 0 /\ result'[u].reasons = {reason}
    BY <2>1 DEF Deterministic
  <2>3. \A i \in DOMAIN work'[u].items : ~result'[u].texts[i].model
    BY <2>1, NoModel
  <2>4. work'[u].items # <<>>
    BY <1>6 DEF ToldWithoutModel
  <2> QED BY <1>1, <1>3, <2>2, <2>3, <2>4 DEF Making
<1>7. CASE ToldAnswer(u)
  <2> DEFINE items == work[u].items
             answer == work'[u].answer
  <2>1. /\ result'[u].invocations = 1 /\ result'[u].retries = work[u].attempts - 1
        /\ result'[u].reasons = Rejections(answer, Batch(items))
        /\ result'[u].texts = Completed(Accepted(answer, Batch(items)), items)
        /\ work'[u].items = items /\ work'[u].attempts = work[u].attempts
    BY <1>7 DEF ToldAnswer, FromAnswer
  <2>2. config.llm = "ready" /\ items # <<>> /\ work[u].attempts >= 1
    BY <1>7 DEF ToldAnswer, InvocationInv, Invoked
  <2>3. work[u].attempts - 1 \in 0..MaxRetries /\ (work[u].attempts - 1) + 1 = work[u].attempts
    BY <1>2, <2>2, Bounds
  <2>4. (\E i \in DOMAIN Batch(items) : ~result'[u].texts[i].model) => result'[u].reasons # {}
    BY <1>2, <2>1, FallbackHasReason
  <2> QED BY <1>1, <2>1, <2>2, <2>3, <2>4 DEF Making
<1> QED BY <1>4, <1>5, <1>6, <1>7, HowTold

(* brief_enrichment_service.py: the artifact tells one invocation at most, *)
(* its retries apart, and a reason for every row of the request without    *)
(* the model's text, whatever the provider does: InvocationsTold.          *)
THEOREM InvocationsAreTold == EnrichmentSpec => []InvocationsTold
<1>1. EnrichmentInit => InvocationsTold
  BY DEF EnrichmentInit, InvocationsTold, Told
<1> QED
  BY <1>1, StepInvocationsTold, EnrichmentTypes, InvocationInvariant, PTL DEF EnrichmentSpec

(***************************************************************************)
(* One bad entry spoils no other                                           *)
(***************************************************************************)
OwnEntries(answer, row) == {k \in DOMAIN answer.entries : answer.entries[k].id = row}

InOrder(entry) == Verdict(entry) = ""

LEMMA EntryPlaces ==
    ASSUME NEW answer \in Answer
    PROVE  DOMAIN answer.entries = 1..Len(answer.entries) /\ Len(answer.entries) \in Nat
<1>1. answer.entries \in Seq(Entry)
  BY DEF Answer
<1> QED BY <1>1

LEMMA OnlyEntry ==
    ASSUME NEW answer \in Answer, NEW row, Cardinality(OwnEntries(answer, row)) = 1
    PROVE  \E k \in 1..Len(answer.entries) :
              /\ k \in OwnEntries(answer, row) /\ answer.entries[k].id = row
              /\ \A h \in 1..(k - 1) : answer.entries[h].id # row
<1> DEFINE own == OwnEntries(answer, row)
           n == Len(answer.entries)
<1>1. own \subseteq 1..n /\ n \in Nat /\ \A k \in 1..n : k \in own <=> answer.entries[k].id = row
  BY EntryPlaces DEF OwnEntries
<1>2. Cardinality(own) = 1
  OBVIOUS
<1> HIDE DEF own, n
<1>3. IsFiniteSet(own)
  <2>1. IsFiniteSet(1..n)
    BY <1>1, FS_Interval
  <2> QED BY <1>1, <2>1, FS_Subset
<1>4. PICK k : own = {k}
  BY <1>2, <1>3, FS_Singleton
<1>5. k \in 1..n /\ k \in own /\ answer.entries[k].id = row
  BY <1>1, <1>4
<1>6. ASSUME NEW h \in 1..(k - 1) PROVE answer.entries[h].id # row
  <2>1. h \in 1..n /\ h # k
    BY <1>1, <1>5
  <2> QED BY <1>1, <1>4, <2>1
<1> QED BY <1>5, <1>6 DEF own, n

(* The only entry of a row of the request, in order, is accepted.          *)
LEMMA OnlyEntryAccepted ==
    ASSUME NEW items \in Seq(Rows), NEW answer \in Answer, answer.list,
           Len(answer.entries) <= 2 * MaxBatch, NEW i \in DOMAIN Batch(items),
           Cardinality(OwnEntries(answer, items[i])) = 1,
           \A k \in OwnEntries(answer, items[i]) : InOrder(answer.entries[k])
    PROVE  Completed(Accepted(answer, Batch(items)), items)[i].model
<1>1. PICK k \in 1..Len(answer.entries) :
          /\ k \in OwnEntries(answer, items[i]) /\ answer.entries[k].id = items[i]
          /\ \A h \in 1..(k - 1) : answer.entries[h].id # items[i]
  BY OnlyEntry
<1>2. InOrder(answer.entries[k])
  BY <1>1
<1>3. i \in DOMAIN items /\ items[i] \in Elements(Batch(items))
  BY BatchProperties
<1>4. k \in DOMAIN answer.entries /\ k <= 2 * MaxBatch
  <2>1. MaxBatch \in Nat
    BY BoundsAssumption
  <2> QED BY <2>1, EntryPlaces
<1>5. answer.entries[k] \in Counted(answer, Batch(items))
  BY <1>1, <1>3, <1>4 DEF Counted
<1>6. answer.entries[k] \in Accepted(answer, Batch(items))
  BY <1>2, <1>5 DEF Accepted, InOrder
<1>7. \E e \in Accepted(answer, Batch(items)) : e.id = items[i]
  BY <1>1, <1>6
<1> QED BY <1>3, <1>7 DEF Completed, TextOf

Alone(items, answer, texts) ==
    Len(answer.entries) <= 2 * MaxBatch =>
        \A i \in DOMAIN Batch(items) :
            /\ Cardinality(OwnEntries(answer, items[i])) = 1 /\ answer.list
            /\ \A k \in OwnEntries(answer, items[i]) : InOrder(answer.entries[k])
            => texts[i].model

LEMMA StepRejectedAlone ==
    /\ EnrichmentTypeOK /\ InvocationInv /\ EveryThreadHasResult /\ RejectedAlone
    /\ [EnrichmentNext]_vars
    => RejectedAlone'
<1> SUFFICES ASSUME EnrichmentTypeOK, InvocationInv, EveryThreadHasResult, RejectedAlone,
                    [EnrichmentNext]_vars, NEW u \in Threads, Told(u)'
             PROVE  Alone(work[u].items, work[u].answer, result[u].texts)'
  BY DEF RejectedAlone, Alone, OwnEntries, InOrder
<1>1. CASE Stays(u)
  BY <1>1 DEF Stays, RejectedAlone, Alone, OwnEntries, InOrder
<1>2. CASE ToldEmpty(u) \/ ToldWithoutModel(u)
  <2>1. work'[u].answer = NoAnswer
    BY <1>2 DEF ToldEmpty, ToldWithoutModel
  <2> QED BY <2>1 DEF NoAnswer, Alone
<1>3. CASE ToldAnswer(u)
  <2>1. work[u].items \in Seq(Rows)
    BY DEF EnrichmentTypeOK, Work
  <2>2. /\ work'[u].answer \in Answer /\ work'[u].items = work[u].items
        /\ result'[u].texts = Completed(Accepted(work'[u].answer, Batch(work[u].items)),
                                        work[u].items)
    BY <1>3 DEF ToldAnswer, FromAnswer
  <2> QED BY <2>1, <2>2, OnlyEntryAccepted DEF Alone
<1> QED BY <1>1, <1>2, <1>3, HowTold

(* validate_enrichment_payload: an item is rejected on its own, whatever   *)
(* the number and the order of the entries around it: RejectedAlone.       *)
THEOREM EntriesAreRejectedAlone == EnrichmentSpec => []RejectedAlone
<1>1. EnrichmentInit => RejectedAlone
  BY DEF EnrichmentInit, RejectedAlone, Told
<1> QED
  BY <1>1, StepRejectedAlone, EnrichmentTypes, InvocationInvariant, PTL DEF EnrichmentSpec
=============================================================================
