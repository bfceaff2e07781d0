---------------------------- MODULE TriageBrief -----------------------------
(***************************************************************************)
(* What an analysis does with the incidents it found, when it triages      *)
(* (AnalysisService._process_events and _persist_analysis): it routes      *)
(* each incident, builds the rows of the brief and its roll-up, and files  *)
(* reports and digests.                                                    *)
(***************************************************************************)
EXTENDS DetectionPipeline, BriefRows

VARIABLES
    brief,      \* "none", "routed", "selected", "filed"; "raised", "cancelled"
    routes,     \* the anchor of each incident |-> its route
    rows,       \* every row of the brief, before the sections are cut
    filed,      \* anchors with a triage run and a report
    digests     \* anchors by incident type

briefVars == <<brief, routes, rows, filed, digests>>
allVars == <<vars, briefVars>>

BriefInit ==
    /\ Init
    /\ brief = "none" /\ routes = <<>> /\ rows = {} /\ filed = {} /\ digests = {}

\* Incidents that ended in a route; the events of one.
Routed(route) == {i \in incidents : routes[i.anchor] = route}
Own(i) == EventsOf(eligible, i.ids)
Eligible == Routed("individual_triage")

\* Context is looked up among all events of the analysis.
RouteIncidents ==
    /\ stage = "done" /\ brief = "none"
    /\ routes' = [a \in {i.anchor : i \in incidents} |->
                    LET i == CHOOSE j \in incidents : j.anchor = a
                    IN  Route(i, Own(i), {c \in Range(candidates) : c.id \in i.context})]
    /\ LET low == {i \in incidents : routes'[i.anchor] = "digest"}
       IN  digests' = {{i.anchor : i \in {j \in low : j.type = t}} : t \in {i.type : i \in low}}
    /\ brief' = "routed"
    /\ UNCHANGED <<vars, rows, filed>>

\* _build_brief_selection: an exception here fails the analysis.
SelectRows ==
    /\ brief = "routed"
    /\ IF CannotBeSorted(candidates)
       THEN brief' = "raised" /\ UNCHANGED rows
       ELSE brief' = "selected" /\ rows' = BriefRowsOf(Eligible, eligible, candidates)
    /\ UNCHANGED <<vars, routes, filed, digests>>

\* Only these two routes are reported one by one; unless the job is cancelled
\* before anything is written.
FileReports ==
    /\ brief = "selected"
    /\ \/ /\ filed' = {i.anchor : i \in Eligible \cup Routed("deterministic_report")}
          /\ brief' = "filed"
       \/ brief' = "cancelled" /\ UNCHANGED filed
    /\ UNCHANGED <<vars, routes, rows, digests>>

BriefNext ==
    \/ Next /\ UNCHANGED briefVars
    \/ RouteIncidents \/ SelectRows \/ FileReports

BriefSpec == BriefInit /\ [][BriefNext]_allVars

-----------------------------------------------------------------------------
(* Properties *)

Selected == brief \in {"selected", "filed"}

\* Grouping for display neither loses an incident nor lists it twice, and keeps
\* what is hours apart in separate groups (build_exposure_groups,
\* build_brief_selection): every incident that was routed to the brief is a
\* member of exactly one row, groups of the same source, service and action are
\* further apart than the gap, and a member of a group has a row of its own only
\* when its group lists as many members as it may.
EligibleRepresented ==
    Selected =>
        LET groups == ExposureGroups(Eligible, eligible)
        IN  /\ \A i \in Eligible : Cardinality({r \in rows : i.anchor \in r.members}) = 1
            /\ UNION {r.members : r \in rows} = {i.anchor : i \in Eligible}
            /\ \A g, h \in groups : g.key = h.key /\ g.burst < h.burst =>
                \A i \in g.members, j \in h.members : j.first - i.last > GroupGap
            /\ \A g \in groups : \A i \in g.members : \A r \in rows :
                r.id = <<"inc", i.anchor>> =>
                    Cardinality(RowOfGroup(g, eligible).members) = MaxMembers

\* However rows are grouped and cut, what deserves attention now is on top: an
\* exposure that is urgent on its own events is shown under ACT NOW, unless the
\* section is full of rows at least as severe (build_brief_selection).
UrgentShown ==
    Selected => \A i \in Eligible :
        LET d == Disposition(i, Own(i))
            shown == Truncated(ActNow(rows), MaxRows)
        IN  IsExposure(i) /\ d.sev \in {"critical", "high"} /\ d.verdict # "needs_review" =>
                \/ \E r \in Range(shown) : i.anchor \in r.members
                \/ /\ Len(shown) = MaxRows
                   /\ \A r \in Range(shown) : SeverityRank(r.sev) >= SeverityRank(d.sev)

\* The inventory of exposed assets and the incidents agree (rollup.py,
\* _build_exposed_assets): the asset an exposure incident is about is listed,
\* unless the incident is about an administrative service, which need not be a
\* sensitive one, and every listed asset has an incident that was routed to the
\* brief.
AssetsAgree ==
    Selected =>
        LET assets == ExposedAssets(incidents, eligible)
        IN  /\ \A i \in incidents :
                IsExposure(i) /\ i.type # "wan_to_dmz_administrative_service_allowed"
                  => \E a \in assets : a[1] = i.entity
            /\ \A a \in assets : \E i \in Eligible : \E e \in Own(i) :
                IsAllowed(e) /\ EffectiveDst(e) = a[1]

\* What leaves the brief without a row was blocked and is reported elsewhere
\* (decide_route, _build_recon_groups): no event of it was allowed, blocked
\* reconnaissance is in the roll-up event by event, and it has a report or is in
\* exactly one digest, except desynchronised state that is only stored.
BlockedAccounted ==
    brief = "filed" => \A i \in incidents \ Eligible :
        /\ \A e \in Own(i) : ~IsAllowed(e)
        /\ i.family \in RECON => \A e \in Own(i) : e.src # NoAddr =>
              \E g \in ReconGroups(incidents, eligible) : e \in g.events /\ g.key[2] = i.family
        /\ Cardinality({d \in digests : i.anchor \in d})
             + Cardinality({a \in filed : a = i.anchor})
             = IF routes[i.anchor] = "store_only" THEN 0 ELSE 1

\* presentation.py:481, "Everything else eligible lands in INVESTIGATE": before
\* the sections are cut, every row is in one of them.
EveryRowListed ==
    Selected => Range(ActNow(rows)) \cup Range(Investigate(rows)) = rows

\* docs/detection_engine.md:10, "DetectionEngine rejects ... missing timestamps":
\* a line that the engine rejects does not cost the analysis.
RejectedLineHarmless == brief # "raised"
=============================================================================
