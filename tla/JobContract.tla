----------------------------- MODULE JobContract -----------------------------
(***************************************************************************)
(* What a serialised deployment promises for one ingestion job: at most    *)
(* one worker runs its analysis at a time, a runner publishes the results  *)
(* once, and nothing runs the analysis again after that.  Runs may stop    *)
(* without publishing (failure, cancellation, crash) and start anew.       *)
(***************************************************************************)
EXTENDS Naturals

CONSTANT Workers

VARIABLES running,   \* the workers whose analysis is under way
          published  \* how often results were published

Init == running = {} /\ published = 0

Start(w) ==
    /\ running = {} /\ published = 0
    /\ running' = {w}
    /\ UNCHANGED published

Publish(w) ==
    /\ running = {w} /\ published = 0
    /\ published' = 1
    /\ UNCHANGED running

Stop(w) ==
    /\ running = {w}
    /\ running' = {}
    /\ UNCHANGED published

Next == \E w \in Workers : Start(w) \/ Publish(w) \/ Stop(w)

Spec == Init /\ [][Next]_<<running, published>>
=============================================================================
