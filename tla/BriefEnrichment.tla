-------------------------- MODULE BriefEnrichment --------------------------
(***************************************************************************)
(* The text of the brief: every analysis asks the language model at most   *)
(* once, for all its rows, and shows deterministic text wherever the model *)
(* gave none that may be shown.  The analyses of one process run in        *)
(* threads and share one circuit breaker, which has no lock.               *)
(*                                                                         *)
(* A thread gives up the interpreter where it waits for the provider, and  *)
(* around the calls of time.monotonic(); what stands between two such      *)
(* points is one step here.  The clock advances in ticks, and never while  *)
(* a thread holds the time of a failure it has not yet recorded.           *)
(***************************************************************************)
EXTENDS Integers, Sequences, FiniteSets

CONSTANTS Threads,     \* threads of the process, each runs one analysis after another
          Rows,        \* rows a brief may have
          Selections,  \* sequences of rows the analyses select
          Facts,       \* addresses, host names and ports a text may mention
          Known,       \* Known[r]: those the row r has
          Answers,     \* Answers[t]: what the provider may answer to the thread t
          MaxBatch,    \* rows of one request (10)
          MinActions, MaxActions,
          Threshold,   \* failures that open the breaker (5)
          ResetTicks,  \* ticks it stays open (60 seconds)
          MaxRetries   \* retries within one invocation (llm_max_retries)

(* An answer is a list of entries or something else.  An entry has the row *)
(* it is for, whether an explanation is too long, whether its actions are  *)
(* a list (and not a number, say) and how many different ones they are,    *)
(* the facts its texts mention, and whether they claim what a firewall log *)
(* cannot support.                                                         *)
Entry == [id : Rows, long : BOOLEAN, iterable : BOOLEAN, actions : Nat,
          mentions : SUBSET Facts, claims : BOOLEAN]
Answer == [list : BOOLEAN, entries : Seq(Entry)]

ASSUME BoundsAssumption ==
    /\ Threshold \in Nat \ {0} /\ ResetTicks \in Nat /\ MaxRetries \in Nat
    /\ MaxBatch \in Nat \ {0} /\ MinActions \in Nat /\ MaxActions \in Nat
    /\ Known \in [Rows -> SUBSET Facts]
    /\ \A items \in Selections : items \in Seq(Rows)
    /\ \A t \in Threads : \A answer \in Answers[t] : answer \in Answer

VARIABLES
    config,    \* [llm, provider]: settings of the process, which do not change
    breaker,   \* [failures, idle, state]: the shared circuit breaker
    pc,        \* where each thread is
    work,      \* work[t]: the rows, the attempts, the answer of the call under way
    result,    \* result[t]: the enrichment the analysis of t got
    streak,    \* history: failures recorded since the last success
    quiet      \* history: ticks since the last recorded failure
vars == <<config, breaker, pc, work, result, streak, quiet>>

Smaller(a, b) == IF a < b THEN a ELSE b
NoAnswer == [list |-> FALSE, entries |-> <<>>]
NoWork == [items |-> <<>>, attempts |-> 0, owed |-> 0, error |-> "", answer |-> NoAnswer,
           elapsed |-> FALSE]
NoResult == [texts |-> <<>>, invocations |-> 0, retries |-> 0, reasons |-> {}]

(***************************************************************************)
(* The answer                                                              *)
(***************************************************************************)
Batch(items) == SubSeq(items, 1, Smaller(Len(items), MaxBatch))
Elements(s) == {s[i] : i \in DOMAIN s}

(* The entries that count: the first one of every requested row, among     *)
(* those that are read.                                                    *)
Counted(answer, requested) ==
    {answer.entries[k] : k \in {n \in DOMAIN answer.entries :
        /\ n <= 2 * MaxBatch
        /\ answer.entries[n].id \in Elements(requested)
        /\ \A h \in 1..(n - 1) : answer.entries[h].id # answer.entries[n].id}}

RejectionReasonOfClaims(entry) == IF entry.claims THEN "unsupported_claim" ELSE ""
RejectionReason(entry) ==
    IF entry.claims THEN "unsupported_claim"
    ELSE IF entry.mentions \subseteq Known[entry.id] THEN "" ELSE "unseen_fact"

Verdict(entry) ==
    IF entry.long THEN "explanation_too_long"
    ELSE IF Smaller(entry.actions, MaxActions) < MinActions
         THEN "action_count_out_of_bounds"
         ELSE RejectionReason(entry)

AcceptedAllOrNone(answer, requested) ==
    LET counted == Counted(answer, requested)
    IN  IF answer.list /\ \A e \in counted : Verdict(e) = "" THEN counted ELSE {}
Accepted(answer, requested) ==
    IF answer.list THEN {e \in Counted(answer, requested) : Verdict(e) = ""} ELSE {}

Rejections(answer, requested) ==
    LET counted == Counted(answer, requested)
    IN  IF answer.list
        THEN ({Verdict(e) : e \in counted} \ {""})
             \cup {"missing_item" : r \in Elements(requested) \ {e.id : e \in counted}}
        ELSE {"malformed_payload" : r \in Elements(requested)}

(* _clean_actions iterates over whatever the entry holds.                  *)
ValidationRaises(answer, requested) ==
    answer.list /\ \E e \in Counted(answer, requested) : ~e.iterable

Fallback(r) == [id |-> r, model |-> FALSE]
TextOf(entry) == [id |-> entry.id, model |-> TRUE, entry |-> entry]

Completed(accepted, items) ==
    [i \in DOMAIN items |->
        IF \E entry \in accepted : entry.id = items[i]
        THEN TextOf(CHOOSE entry \in accepted : entry.id = items[i])
        ELSE Fallback(items[i])]

Deterministic(items, invocations, reasons) ==
    [texts |-> Completed({}, items), invocations |-> invocations, retries |-> 0,
     reasons |-> reasons]

FromAnswerCountingAttempts(answer, items, attempts) ==
    [texts |-> Completed(Accepted(answer, Batch(items)), items),
     invocations |-> 1, retries |-> attempts,
     reasons |-> Rejections(answer, Batch(items))]
FromAnswer(answer, items, attempts) ==
    [texts |-> Completed(Accepted(answer, Batch(items)), items),
     invocations |-> 1, retries |-> attempts - 1,
     reasons |-> Rejections(answer, Batch(items))]

(***************************************************************************)
(* The threads                                                             *)
(***************************************************************************)
Config == [llm : {"ready", "disabled", "misconfigured"}, provider : {"groq", "ollama"}]

EnrichmentInit ==
    /\ config \in Config
    /\ breaker = [failures |-> 0, idle |-> ResetTicks + 1, state |-> "closed"]
    /\ pc = [t \in Threads |-> "idle"]
    /\ work = [t \in Threads |-> NoWork]
    /\ result = [t \in Threads |-> NoResult]
    /\ streak = 0
    /\ quiet = ResetTicks + 1

Go(t, place) == pc' = [pc EXCEPT ![t] = place]
Tell(t, enrichment) == Go(t, "told") /\ result' = [result EXCEPT ![t] = enrichment]

(* enrich_brief_items up to the invocation.                                *)
BeginEnrichment(t, items) ==
    /\ pc[t] = "idle"
    /\ work' = [work EXCEPT ![t] = [NoWork EXCEPT !.items = items]]
    /\ \/ /\ items = <<>>
          /\ Tell(t, NoResult)
       \/ /\ items # <<>>
          /\ config.llm = "disabled"
          /\ Tell(t, Deterministic(items, 0, {"llm_disabled"}))
       \/ /\ items # <<>>
          /\ config.llm = "misconfigured"
          /\ Tell(t, Deterministic(items, 0, {"provider_unavailable"}))
       \/ /\ items # <<>>
          /\ config.llm = "ready"
          /\ Go(t, "invoked")
          /\ UNCHANGED result
    /\ UNCHANGED <<config, breaker, streak, quiet>>

StartCall(t) ==
    /\ Go(t, "calling")
    /\ work' = [work EXCEPT ![t].attempts = 1, ![t].elapsed = FALSE]

(* CircuitBreaker.check: the clock is read only while the breaker is open, *)
(* and compared with the time of the last failure afterwards: a failure    *)
(* recorded in between is later than the time read.                        *)
Elapsed == breaker.idle > ResetTicks

CheckPasses(t) ==
    /\ pc[t] = "invoked"
    /\ breaker.state # "open"
    /\ StartCall(t)
    /\ UNCHANGED <<config, breaker, result, streak, quiet>>

CheckReadsClock(t) ==
    /\ pc[t] = "invoked"
    /\ breaker.state = "open"
    /\ Go(t, "checking")
    /\ work' = [work EXCEPT ![t].elapsed = Elapsed]
    /\ UNCHANGED <<config, breaker, result, streak, quiet>>

CheckHalfOpens(t) ==
    /\ pc[t] = "checking"
    /\ work[t].elapsed
    /\ breaker' = [breaker EXCEPT !.state = "half_open"]
    /\ StartCall(t)
    /\ UNCHANGED <<config, result, streak, quiet>>

CheckRaisesAndCounts(t) ==
    /\ pc[t] = "checking"
    /\ ~work[t].elapsed
    /\ work' = [work EXCEPT ![t].error = "circuit_open", ![t].owed = 1]
    /\ Go(t, "failing")
    /\ UNCHANGED <<config, breaker, result, streak, quiet>>
CheckRaises(t) ==
    /\ pc[t] = "checking"
    /\ ~work[t].elapsed
    /\ Tell(t, Deterministic(work[t].items, 1, {"circuit_open"}))
    /\ UNCHANGED <<config, breaker, work, streak, quiet>>

AfterSuccess == [breaker EXCEPT !.failures = 0, !.state = "closed"]
RecordSuccess == breaker' = AfterSuccess /\ streak' = 0

(* The provider answers, in JSON.                                          *)
CallAnswered(t, answer) ==
    LET items == work[t].items IN
    /\ pc[t] = "calling"
    /\ RecordSuccess
    /\ work' = [work EXCEPT ![t].answer = answer]
    /\ \/ /\ ValidationRaises(answer, Batch(items))
          /\ Go(t, "raised")
          /\ UNCHANGED result
       \/ /\ ~ValidationRaises(answer, Batch(items))
          /\ Tell(t, FromAnswer(answer, items, work[t].attempts))
    /\ UNCHANGED <<config, quiet>>

(* The provider answers something that is not JSON.                        *)
CallUnreadable(t) ==
    /\ pc[t] = "calling"
    /\ RecordSuccess
    /\ Tell(t, Deterministic(work[t].items, 1, {"invalid_response"}))
    /\ UNCHANGED <<config, work, quiet>>

(* with_retry: a rate limit, a timeout or an unavailable service.          *)
CallRetried(t) ==
    /\ pc[t] = "calling"
    /\ work[t].attempts <= MaxRetries
    /\ work' = [work EXCEPT ![t].attempts = @ + 1]
    /\ UNCHANGED <<config, breaker, pc, result, streak, quiet>>

(* Groq records a failed authentication where it happens and once more     *)
(* with every other failure of the invocation.                             *)
FailuresOwed(error) == IF error = "authentication" /\ config.provider = "groq" THEN 2 ELSE 1

CallFailed(t, error) ==
    /\ pc[t] = "calling"
    /\ error = "transient" => work[t].attempts > MaxRetries
    /\ work' = [work EXCEPT ![t].error = error, ![t].owed = FailuresOwed(error)]
    /\ Go(t, "failing")
    /\ UNCHANGED <<config, breaker, result, streak, quiet>>

(* record_failure counts, reads the clock, and then decides.  Only whether *)
(* the threshold is reached matters of the count.                          *)
CountFailure(t) ==
    /\ pc[t] = "failing"
    /\ breaker' = [breaker EXCEPT !.failures = Smaller(@ + 1, Threshold)]
    /\ streak' = Smaller(streak + 1, Threshold)
    /\ Go(t, "stamping")
    /\ UNCHANGED <<config, work, result, quiet>>

StampedAtThreshold == [breaker EXCEPT !.idle = 0,
    !.state = IF breaker.failures >= Threshold /\ @ = "closed" THEN "open" ELSE @]
Stamped == [breaker EXCEPT !.idle = 0,
                           !.state = IF breaker.failures >= Threshold THEN "open" ELSE @]

StampFailure(t) ==
    /\ pc[t] = "stamping"
    /\ breaker' = Stamped
    /\ quiet' = 0
    /\ work' = [u \in Threads |-> [work[u] EXCEPT !.elapsed = FALSE,
                                                  !.owed = IF u = t THEN @ - 1 ELSE @]]
    /\ \/ /\ work[t].owed > 1
          /\ Go(t, "failing")
          /\ UNCHANGED result
       \/ /\ work[t].owed <= 1
          /\ Tell(t, Deterministic(work[t].items, 1, {work[t].error}))
    /\ UNCHANGED <<config, streak>>

(* The analysis goes on, or fails; the thread takes another one.           *)
EndAnalysis(t) ==
    /\ pc[t] \in {"told", "raised"}
    /\ Go(t, "idle")
    /\ work' = [work EXCEPT ![t] = NoWork]
    /\ result' = [result EXCEPT ![t] = NoResult]
    /\ UNCHANGED <<config, breaker, streak, quiet>>

Tick ==
    /\ \A t \in Threads : pc[t] # "stamping"
    /\ breaker' = [breaker EXCEPT !.idle = Smaller(@ + 1, ResetTicks + 1)]
    /\ quiet' = Smaller(quiet + 1, ResetTicks + 1)
    /\ UNCHANGED <<config, pc, work, result, streak>>

Errors == {"transient", "authentication", "other"}
Proceed(t) ==
    \/ CheckPasses(t) \/ CheckReadsClock(t) \/ CheckHalfOpens(t) \/ CheckRaises(t)
    \/ \E answer \in Answers[t] : CallAnswered(t, answer)
    \/ CallUnreadable(t)
    \/ CallRetried(t)
    \/ \E error \in Errors : CallFailed(t, error)
    \/ CountFailure(t) \/ StampFailure(t) \/ EndAnalysis(t)

EnrichmentNext ==
    \/ \E t \in Threads : Proceed(t) \/ \E items \in Selections : BeginEnrichment(t, items)
    \/ Tick

(* Calls have a time limit and retries a bound; analyses with rows keep    *)
(* coming; time passes.                                                    *)
EnrichmentFairness ==
    /\ \A t \in Threads :
          /\ WF_vars(Proceed(t))
          /\ SF_vars(\E items \in Selections \ {<<>>} : BeginEnrichment(t, items))
    /\ SF_vars(Tick)
EnrichmentSpec == EnrichmentInit /\ [][EnrichmentNext]_vars
FairEnrichment == EnrichmentSpec /\ EnrichmentFairness

(***************************************************************************)
(* Properties                                                              *)
(***************************************************************************)
Work == [items : Seq(Rows), attempts : 0..(MaxRetries + 1), owed : Int, error : {""} \cup Errors,
         answer : Answer, elapsed : BOOLEAN]
Breaker == [failures : 0..Threshold, idle : 0..(ResetTicks + 1),
            state : {"closed", "open", "half_open"}]
Places == {"idle", "invoked", "checking", "calling", "failing", "stamping", "told", "raised"}

(* The settings, the breaker, the places and the work of the threads.      *)
EnrichmentTypeOK ==
    /\ config \in Config
    /\ breaker \in Breaker
    /\ pc \in [Threads -> Places]
    /\ work \in [Threads -> Work]
    /\ streak \in 0..Threshold
    /\ quiet \in 0..(ResetTicks + 1)

Told(t) == pc[t] = "told"

Grounded(items, answer, texts) ==
    /\ DOMAIN texts = DOMAIN items
    /\ \A i \in DOMAIN items :
          /\ texts[i].id = items[i]
          /\ texts[i].model =>
                LET entry == texts[i].entry
                IN  /\ entry \in Elements(answer.entries)
                    /\ entry.id = items[i]
                    /\ ~entry.claims /\ ~entry.long
                    /\ entry.mentions \subseteq Known[entry.id]
                    /\ entry.actions >= MinActions

(* Every selected row is told, once and in its place, and what a text of   *)
(* the model says about a row is grounded in that row: the entry is the    *)
(* row's own, mentions only what the row has, and makes no claim a         *)
(* firewall log cannot support (triage/enrichment.py, header and           *)
(* _rejection_reason), whatever the order, the number and the ids of the   *)
(* entries of the answer.                                                  *)
TextsGrounded ==
    \A t \in Threads : Told(t) => Grounded(work[t].items, work[t].answer, result[t].texts)

(* "Any item whose text introduces an unseen fact or an unsupported claim  *)
(* is rejected on its own without affecting the rest of the batch": a row  *)
(* of the request with one entry, itself in order, shows its text,         *)
(* whatever the others say, unless the answer is longer than what is read. *)
(* (A field that cannot be iterated raises instead: ValidationRaises.)     *)
RejectedAlone ==
    \A t \in Threads : Told(t) /\ Len(work[t].answer.entries) <= 2 * MaxBatch =>
        \A i \in DOMAIN Batch(work[t].items) :
            LET own == {k \in DOMAIN work[t].answer.entries :
                          work[t].answer.entries[k].id = work[t].items[i]}
            IN  (Cardinality(own) = 1 /\ work[t].answer.list
                 /\ \A k \in own : Verdict(work[t].answer.entries[k]) = "")
                => result[t].texts[i].model

(* What the artifact of the analysis says of its own making: one logical   *)
(* invocation at most and the retries apart (brief_enrichment_service.py,  *)
(* header), and a reason whenever a row of the request is told without     *)
(* the model.                                                              *)
InvocationsTold ==
    \A t \in Threads : Told(t) =>
        /\ result[t].invocations = (IF work[t].items # <<>> /\ config.llm = "ready" THEN 1 ELSE 0)
        /\ result[t].retries \in 0..MaxRetries
        /\ (\E i \in DOMAIN work[t].items : result[t].texts[i].model) => result[t].retries + 1 = work[t].attempts
        /\ (\E i \in DOMAIN Batch(work[t].items) : ~result[t].texts[i].model)
           => result[t].reasons # {}

(* Once as many failures as the threshold were recorded in a row, no       *)
(* invocation reaches the provider before the breaker has been quiet for   *)
(* its reset time, whichever threads record and check (circuit_breaker.py: *)
(* no lock).  A failure counts from its time stamp on.                     *)
OutageRespected ==
    [][\A t \in Threads :
          pc[t] # "calling" /\ pc'[t] = "calling" =>
             \/ streak < Threshold
             \/ quiet > ResetTicks
             \/ \E u \in Threads : pc[u] = "stamping"]_vars

(* An open breaker lets an invocation through again.                       *)
BreakerTriesAgain == breaker.state = "open" ~> breaker.state # "open"

=============================================================================
