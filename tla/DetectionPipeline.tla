------------------------- MODULE DetectionPipeline --------------------------
(***************************************************************************)
(* DetectionEngine.analyze (src/agent/detection/engine.py): one analysis,  *)
(* from the candidate events as a parser delivers them to the incidents,   *)
(* the suppressed signals and the uncorrelated events it reports.          *)
(*                                                                         *)
(* EventFilter (src/agent/filtering.py) sets context events aside before    *)
(* it; the engine sees those as candidates too.                            *)
(*                                                                         *)
(* Receive builds the candidate list: any bounded sequence of log lines of *)
(* one theme, late and repeated lines included.  The other actions are the *)
(* stages of analyze.                                                      *)
(***************************************************************************)
EXTENDS IncidentCorrelation

CONSTANTS
    Themes,     \* what a log may hold: records of
                \*   shapes  the events that occur together, without id and time
                \*   gaps    seconds between a line and the latest one (< 0: late)
                \*   size    bound of the candidate list
                \*   policies  suppression policies an operator may have set
    MayFail     \* rules that may raise an exception

\* Ids and ranks are given by the pipeline; a shape may state its own time.
\* Addresses and ports are numbers.
ASSUME ThemesAssumption ==
    \A th \in Themes : /\ th.gaps \subseteq Int
                       /\ \A shape \in th.shapes :
                            /\ "id" \notin DOMAIN shape /\ "n" \notin DOMAIN shape
                            /\ "t" \in DOMAIN shape => shape.t \in Int
                            /\ \A x \in {"src", "sport", "dst", "tdst"} :
                                    x \in DOMAIN shape /\ shape[x] \in Int

VARIABLES
    theme, policy,
    candidates,   \* the events as delivered
    stage,        \* the last stage completed
    eligible,     \* the events the rules see, ranked
    failed,       \* rules that raised
    emitted,      \* signals of the rules
    suppressed,   \* signals the policy set aside
    signals,      \* active signals after deduplication
    incidents, uncorrelated

vars == <<theme, policy, candidates, stage, eligible, failed, emitted,
          suppressed, signals, incidents, uncorrelated>>

Init ==
    /\ theme \in Themes /\ policy \in theme.policies
    /\ candidates = <<>> /\ stage = "receiving"
    /\ eligible = {} /\ failed = {} /\ emitted = {} /\ suppressed = {}
    /\ signals = {} /\ incidents = {} /\ uncorrelated = {}

\* A record with further fields; those it has are kept.
With(e, given) ==
    [x \in DOMAIN e \cup DOMAIN given |-> IF x \in DOMAIN e THEN e[x] ELSE given[x]]

\* The next line of the log: a new event, or one delivered again.
Receive ==
    /\ stage = "receiving" /\ Len(candidates) < theme.size
    /\ \/ \E shape \in theme.shapes, gap \in theme.gaps :
            LET now == IF candidates = <<>> THEN 1000
                       ELSE Max({candidates[i].t : i \in DOMAIN candidates})
            IN  candidates' = Append(candidates,
                    With(shape, [id |-> Len(candidates) + 1, t |-> now + gap]))
       \/ /\ candidates # <<>>
          /\ candidates' = Append(candidates, candidates[1])
    /\ UNCHANGED <<theme, policy, stage, eligible, failed, emitted, suppressed,
                   signals, incidents, uncorrelated>>

INVALID == {"failed", "unsupported_schema", "semantically_invalid"}

\* The first copy of each event, unless it has no usable time or meaning.
EligibleEvents(list) ==
    LET first(i) == ~\E j \in 1 .. i - 1 : /\ list[j].id = list[i].id
                                           /\ list[j].hash = list[i].hash
        kept == {list[i] : i \in {k \in DOMAIN list : first(k)}}
    IN  {e \in kept : e.t # NoTime /\ ~e.naive /\ e.status \notin INVALID}

Ranked(es) ==
    {With(e, [n |-> Cardinality({f \in es : Precedes(ByTime(f), ByTime(e))}) + 1])
        : e \in es}

\* EventFilter.filter_events: what is neither noise nor a candidate.  Events of
\* the model carry no byte count, so allowed web traffic is never noise.
ContextEvents(list) ==
    {e \in Range(list) :
        /\ e.status # "unsupported_schema"
        /\ ~(e.action \in {"pass", "allow"} /\ e.dport = 53)
        /\ ~IsNarrowBlocked(e)
        /\ e.spi \notin {"text", "reason"} /\ e.action # "blocked by spi"
        /\ e.dport \notin {22, 3389, 2022, 2222}}

\* Deduplication, eligibility and the sort.
Select ==
    /\ stage = "receiving"
    /\ eligible' = Ranked(EligibleEvents(candidates))
    /\ stage' = IF eligible' = {} THEN "done" ELSE "selected"
    /\ UNCHANGED <<theme, policy, candidates, failed, emitted, suppressed, signals,
                   incidents, uncorrelated>>

\* Every rule runs; one that raises loses its own signals only.
RunRules ==
    /\ stage = "selected"
    /\ \E broken \in SUBSET MayFail :
        /\ failed' = broken
        /\ emitted' = UNION {Evaluate(rule, eligible) : rule \in DEFAULT_RULES \ broken}
    /\ stage' = "evaluated"
    /\ UNCHANGED <<theme, policy, candidates, eligible, suppressed, signals, incidents,
                   uncorrelated>>

\* Suppression, then same-rule deduplication of what is left.
Suppress ==
    /\ stage = "evaluated"
    /\ suppressed' = {s \in emitted : IsSuppressed(s, eligible, policy)}
    /\ signals' = Deduplicated(emitted \ suppressed')
    /\ stage' = "deduplicated"
    /\ UNCHANGED <<theme, policy, candidates, eligible, failed, emitted, incidents,
                   uncorrelated>>

Correlate ==
    /\ stage = "deduplicated"
    /\ incidents' = IF signals = {} THEN {}
                    ELSE CorrelatedIncidents(signals, eligible, ContextEvents(candidates))
    /\ uncorrelated' = {e.id : e \in eligible} \ UNION {i.ids : i \in incidents'}
    /\ stage' = "done"
    /\ UNCHANGED <<theme, policy, candidates, eligible, failed, emitted, suppressed,
                   signals>>

Next == Receive \/ Select \/ RunRules \/ Suppress \/ Correlate

Spec == Init /\ [][Next]_vars

-----------------------------------------------------------------------------
(* Properties *)

Done == stage = "done"
Union(S) == UNION {x.ids : x \in S}

\* Clustering and merging lose and duplicate nothing (build_correlated_incidents,
\* merge_overlapping_incidents): every signal is told by exactly one incident,
\* and an incident is exactly its signals, their events and their interval.
SignalsToldOnce ==
    Done =>
        /\ \A s \in signals :
            Cardinality({i \in incidents : SigId(s) \in i.signals}) = 1
        /\ \A i \in incidents :
            LET own == {s \in signals : SigId(s) \in i.signals}
            IN  /\ i.ids = Union(own) /\ i.signals = {SigId(s) : s \in own}
                /\ i.first = Min({s.first : s \in own})
                /\ i.last = Max({s.last : s \in own})
                /\ i.anchor \in i.signals /\ i.absorbed = i.signals \ {i.anchor}

\* An event is reported as uncorrelated exactly when no rule that was left
\* unsuppressed saw it (_deduplicate_signals, analyze): merging the windows of
\* a rule, clustering and merging never lose an event that made a rule fire.
EventsAccounted ==
    Done => uncorrelated = {e.id : e \in eligible} \ Union(emitted \ suppressed)

\* The severity of an incident follows the events it ends up with, however it
\* was assembled (derive_incident_severity_facts, _merge_incident_pair): blocked
\* scanning is never above medium, and access that was allowed to a critical
\* management port is always critical.
SeverityFollowsEvents ==
    Done => \A i \in incidents :
        LET allowed == {e \in EventsOf(eligible, i.ids) : IsAllowed(e)}
        IN  /\ i.family \in RECON /\ allowed = {} => i.sev \in {"low", "medium"}
            /\ (i.family \in EVENT_AWARE /\ \E e \in allowed :
                    EffectivePort(e) \in CRITICAL_MANAGEMENT_PORTS) => i.sev = "critical"

=============================================================================
