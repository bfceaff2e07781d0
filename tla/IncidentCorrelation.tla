------------------------ MODULE IncidentCorrelation -------------------------
(***************************************************************************)
(* From signals to incidents: same-rule deduplication (engine.py),         *)
(* suppression (suppression.py), precedence, clustering, severity          *)
(* (scoring.py) and merging (incident_correlation.py).                     *)
(*                                                                         *)
(* Signal and incident ids are hashes in the code.  Here an id is what is  *)
(* hashed, and where the code breaks a tie by comparing hashes the model   *)
(* uses one fixed order of the signals (at, upto).                         *)
(***************************************************************************)
EXTENDS Detectors, SequencesExt

CONSTANTS
    MergeWindow,    \* INCIDENT_MERGE_WINDOW_SECONDS
    Overlap,        \* INCIDENT_EVENT_OVERLAP_THRESHOLD, a percentage
    MaxContext      \* MAX_CONTEXT_EVENTS_PER_INCIDENT

NoTime == -1
MAX_INCIDENT_EVIDENCE == 10

SigId(s) == <<s.rule, s.entity, s.key, s.first \div 60, s.ids>>

\* Lexicographic order of two sequences of integers, none a prefix of the other.
Precedes(a, b) ==
    \E i \in DOMAIN a : (\A j \in 1 .. i - 1 : a[j] = b[j]) /\ a[i] < b[i]

\* S in ascending order of key, which tells its elements apart.
InOrder(S, key) ==
    [i \in 1 .. Cardinality(S) |->
        CHOOSE x \in S : Cardinality({y \in S : Precedes(key[y], key[x])}) = i - 1]

Sorted(S, Key(_)) == InOrder(S, [x \in S |-> Key(x)])

Truncated(seq, k) == SubSeq(seq, 1, IF Len(seq) < k THEN Len(seq) ELSE k)

EventsOf(es, ids) == {e \in es : e.id \in ids}

-----------------------------------------------------------------------------
(* Suppression *)

\* Late resets of an established service that SPI blocked: one service source
\* port, one destination, distinct ephemeral ports, resets only.
IsLateReset(s, es) ==
    LET W == EventsOf(es, s.ids)
    IN  /\ s.rule = "spi_anomaly_burst" /\ Cardinality(W) >= 2
        /\ \A e \in W : /\ e.spi = "metadata" \/ e.action = "blocked by spi"
                        /\ IsBlocked(e) \/ e.action = "blocked by spi"
                        /\ e.sport \in {22, 53, 80, 443, 993, 995}
                        /\ e.dport >= 32768
                        /\ e.flags \in {{"RST"}, {"RST", "ACK"}}
        /\ Cardinality({e.sport : e \in W}) = 1
        /\ Cardinality({e.dport : e \in W}) = Cardinality(W)
        /\ Cardinality(Dsts(W)) = 1

\* policy: what an operator allowed (SuppressionPolicy).
IsSuppressed(s, es, policy) ==
    \/ IsLateReset(s, es)
    \/ s.rule \in policy.rules
    \/ s.entity \in policy.sources
    \/ s.targets \cap policy.destinations # {}
    \/ \E target \in s.targets : <<s.entity, target>> \in policy.pairs

-----------------------------------------------------------------------------
(* Deduplication of the signals of one rule about one entity *)

\* The later windows of a scan repeat the events of the earlier ones.
Repeats(s, previous) ==
    s.ids \cap previous.ids # {} /\ s.first - previous.last <= MergeWindow

MergedSignal(previous, s) ==
    LET targets == previous.targets \cup s.targets
    IN  [previous EXCEPT
            !.ids = @ \cup s.ids,
            !.last = IF @ < s.last THEN s.last ELSE @,
            !.targets = targets,
            !.evid = @ \cup s.evid,
            !.key = IF targets = {} THEN <<>> ELSE <<TARGET, Min(targets)>>]

\* Mutant: a repeated window is dropped.
AbsorbDropping(merged, s) ==
    IF merged # <<>> /\ Repeats(s, Last(merged)) THEN merged ELSE Append(merged, s)

\* Only the last merged signal is compared with the next one.
Absorb(merged, s) ==
    IF merged # <<>> /\ Repeats(s, Last(merged))
    THEN [merged EXCEPT ![Len(merged)] = MergedSignal(@, s)]
    ELSE Append(merged, s)

\* Emission order within a rule: the vertical rule reports its variant last.
EmissionKey(s) ==
    <<s.first, IF s.type = "fixed_source_port_scan" THEN 1 ELSE 0, s.at, s.upto>>

InEmission(signals) == Sorted(signals, EmissionKey)

Absorbed(seq) == FoldLeft(Absorb, <<>>, seq)

Deduplicated(signals) ==
    UNION {Range(Absorbed(InEmission({s \in signals : <<s.rule, s.entity>> = g})))
            : g \in {<<s.rule, s.entity>> : s \in signals}}

-----------------------------------------------------------------------------
(* Precedence *)

PRECEDENCE ==
    <<"scan_followed_by_allowed_connection", "blocked_then_allowed_same_service",
      "spi_followed_by_allowed_connection",
      "critical_management_service_exposed", "dnat_sensitive_service_exposure",
      "wan_to_lan_sensitive_service_allowed", "multi_source_allowed_sensitive_service",
      "wan_to_dmz_administrative_service_allowed", "inbound_sensitive_service_allowed",
      "rdp_probe", "ssh_probe", "smb_probe", "vnc_probe", "winrm_probe", "mssql_probe",
      "oracle_probe", "mysql_probe", "postgresql_probe", "redis_probe",
      "elasticsearch_probe", "mongodb_probe", "docker_daemon_probe",
      "kubernetes_api_probe", "kubelet_probe", "telnet_probe", "ftp_probe",
      "web_admin_panel_probe",
      "low_and_slow_horizontal_scan", "low_and_slow_vertical_scan",
      "internal_lateral_scan", "subnet_sweep", "distributed_scan",
      "multi_service_sweep", "horizontal_scan", "vertical_scan",
      "repeated_blocked_scanner">>

\* Types outside the levels share the last one, where the rule id decides late.
FALLBACK ==
    <<"network_flood", "fixed_source_port_scan", "repeated_tcp_reset_anomaly",
      "spi_anomaly", "tcp_ack_scan", "tcp_fin_scan", "tcp_null_scan",
      "tcp_syn_fin_anomaly", "tcp_syn_rst_anomaly", "tcp_xmas_scan">>

Position(x, seq) == IF x \in Range(seq) THEN CHOOSE i \in DOMAIN seq : seq[i] = x
                    ELSE Len(seq) + 1

SEVERITIES == <<"informational", "low", "medium", "high", "critical">>
SeverityRank(sev) == Position(sev, SEVERITIES) - 1

\* signal_precedence_key: the smallest key is the best anchor.
PrecedenceKey(s) ==
    <<Position(s.type, PRECEDENCE), -SeverityRank(s.sev), -s.conf, s.first,
      Position(s.type, FALLBACK), s.at, s.upto>>

-----------------------------------------------------------------------------
(* Which signals tell one story *)

Smaller(a, b) == IF Cardinality(a) < Cardinality(b) THEN Cardinality(a) ELSE Cardinality(b)

\* Shared events, as a share of the smaller signal: at least p percent.
Overlaps(a, b, p) == Cardinality(a.ids \cap b.ids) * 100 >= p * Smaller(a.ids, b.ids)

\* Intersecting intervals have a negative gap.
Near(a, b) == a.first - b.last <= MergeWindow /\ b.first - a.last <= MergeWindow

CROSS_PRIMARY == {"firewall_exposure", "firewall_policy"}

\* One event seen from two viewpoints: the source's and the asset's.
SameExposure(a, b) ==
    /\ a.family \in CROSS_PRIMARY /\ b.family \in CROSS_PRIMARY
    /\ a.ids = b.ids /\ a.ids # {}
    /\ (a.targets \cup {a.entity}) \cap (b.targets \cup {b.entity}) # {}

MayCorrelate(anchor, s) ==
    /\ Near(anchor, s)
    /\ IF anchor.entity = s.entity
       THEN anchor.ids \cap s.ids # {} /\ Overlaps(anchor, s, Overlap)
       ELSE SameExposure(anchor, s)

\* event_overlap_ratio as an integer, for comparisons between anchors.
OverlapOf(a, b) ==
    (Cardinality(a.ids \cap b.ids) * 1000) \div Smaller(a.ids, b.ids)

\* A cluster is a sequence, its anchor first.  A signal joins the anchor it
\* overlaps most and is never compared with another member.
Place(clusters, s) ==
    LET eligible == {i \in DOMAIN clusters : MayCorrelate(clusters[i][1], s)}
        key(i)   == <<-OverlapOf(clusters[i][1], s)>> \o PrecedenceKey(clusters[i][1])
        best     == Sorted(eligible, key)[1]
    IN  IF eligible = {} THEN Append(clusters, <<s>>)
        ELSE [clusters EXCEPT ![best] = Append(@, s)]

ByPrecedence(signals) == Sorted(signals, PrecedenceKey)

Placed(seq) == FoldLeft(Place, <<>>, seq)

Clusters(signals) == Placed(ByPrecedence(signals))

-----------------------------------------------------------------------------
(* Severity and confidence *)

RECON == {"network_scanning", "service_probing"}
EVENT_AWARE == RECON \cup CROSS_PRIMARY \cup {"network_intrusion_candidate"}

Lift(v, by) == IF v + by > 4 THEN 4 ELSE v + by

LegacySeverity(signals) ==
    LET top == Max({SeverityRank(s.sev) : s \in signals})
        volume == FoldSet(LAMBDA s, n : n + Cardinality(s.ids), 0, signals)
        reach == UNION {s.targets : s \in signals}
    IN  Lift(top, IF volume > 500 \/ Cardinality(reach) > 50 THEN 1 ELSE 0)

\* Mutant: the severity of the anchor's rule.
IncidentSeverityOfRule(family, signals, W) ==
    SEVERITIES[LegacySeverity(signals) + 1]

\* derive_incident_severity_facts and calculate_incident_severity.
IncidentSeverity(family, signals, W) ==
    LET allowed == {e \in W : IsAllowed(e)}
        ports   == Ports({EffectivePort(e) : e \in allowed})
        dsts    == Addrs(EffectiveDsts(W))
        asset   == IF ports \cap CRITICAL_MANAGEMENT_PORTS # {} THEN 4
                   ELSE IF ports \cap SENSITIVE_SERVICE_PORTS # {} THEN 3 ELSE 2
        reached(d) == {EffectivePort(e) : e \in {f \in allowed : EffectiveDst(f) = d}}
                        \cap SENSITIVE_SERVICE_PORTS
        targeted == /\ Cardinality(dsts) <= 2
                    /\ \E d \in dsts : Cardinality(reached(d)) >= 2
        large    == Cardinality(W) > 500 \/ Cardinality(dsts) > 50
        value    == IF family \notin EVENT_AWARE THEN LegacySeverity(signals)
                    ELSE IF allowed # {}
                    THEN Lift(Lift(asset, IF targeted THEN 1 ELSE 0), IF large THEN 1 ELSE 0)
                    ELSE IF family \in RECON /\ Cardinality(dsts) >= 25 THEN 2 ELSE 1
    IN  SEVERITIES[value + 1]

Summed(seq) == FoldLeft(LAMBDA sum, s : sum + s.conf, 0, seq)

ByConfidence(signals) == Sorted(signals, LAMBDA s : <<-s.conf>> \o PrecedenceKey(s))

\* The mean of the three highest confidences.
IncidentConfidence(signals) ==
    LET top == Truncated(ByConfidence(signals), 3) IN Summed(top) \div Len(top)

-----------------------------------------------------------------------------
(* Building and merging incidents *)

\* Exposure and policy incidents belong to the asset.
PrimaryEntity(anchor, es) ==
    LET dsts == Addrs(EffectiveDsts(EventsOf(es, anchor.ids)))
    IN  IF anchor.family \in CROSS_PRIMARY /\ dsts # {} THEN Min(dsts) ELSE anchor.entity

ByTime(e) == <<e.t, e.id>>

\* Related events near the incident that are not part of it, the oldest first.
ContextIds(ids, es, context, first, last) ==
    LET near == {c \in context : /\ c.t # NoTime /\ c.id \notin ids
                                 /\ c.t >= first - MergeWindow /\ c.t <= last + MergeWindow
                                 /\ \E e \in EventsOf(es, ids) : Related(e, c)}
        once == {c \in near : ~\E d \in near : d.id = c.id /\ d.t < c.t}
    IN  {c.id : c \in Range(Truncated(Sorted(once, ByTime), MaxContext))}

\* Anchor first, then the members in order, one item per event.
CollectEvidence(cluster) ==
    LET items(s) == [i \in 1 .. Cardinality(s.evid) |->
                        <<Sorted(s.evid, LAMBDA id : <<id>>)[i], s.rule>>]
        add(acc, item) == IF \E i \in DOMAIN acc : acc[i][1] = item[1] THEN acc
                          ELSE Append(acc, item)
        all == FoldLeft(LAMBDA acc, s : acc \o items(s), <<>>, cluster)
    IN  Truncated(FoldLeft(add, <<>>, all), MAX_INCIDENT_EVIDENCE)

BuildIncident(cluster, es, context) ==
    LET anchor  == cluster[1]
        signals == Range(cluster)
        ids     == UNION {s.ids : s \in signals}
        first   == Min({s.first : s \in signals})
        last    == Max({s.last : s \in signals})
    IN  [anchor |-> SigId(anchor), type |-> anchor.type, family |-> anchor.family,
         sev |-> IncidentSeverity(anchor.family, signals, EventsOf(es, ids)),
         conf |-> IncidentConfidence(signals),
         first |-> first, last |-> last,
         entity |-> PrimaryEntity(anchor, es),
         targets |-> UNION {s.targets : s \in signals},
         signals |-> {SigId(s) : s \in signals},
         absorbed |-> {SigId(s) : s \in signals} \ {SigId(anchor)},
         ids |-> ids, context |-> ContextIds(ids, es, context, first, last),
         evidence |-> CollectEvidence(cluster),
         order |-> PrecedenceKey(anchor)]

Nested(a, b) ==
    \/ a \subseteq b \/ b \subseteq a
    \/ 2 * Cardinality(a \cap b) >= Cardinality(a \cup b)

Mergeable(i, j) ==
    /\ i.type = j.type /\ i.entity = j.entity
    /\ i.first <= j.last /\ j.first <= i.last
    /\ Nested(i.ids, j.ids)

\* The largest event set keeps its identity.
KeeperKey(i) == <<-Cardinality(i.ids), i.first>> \o i.order

\* Mutant: the severity and the signals of the keeper are left as they were.
MergedIncidentStale(keeper, other, signals, es) ==
    [keeper EXCEPT !.ids = @ \cup other.ids, !.targets = @ \cup other.targets]

MergedIncident(keeper, other, signals, es) ==
    LET ids == keeper.ids \cup other.ids
        all == keeper.signals \cup other.signals
        own == {s \in signals : SigId(s) \in all}
        items == keeper.evidence \o SelectSeq(other.evidence,
                    LAMBDA item : item \notin Range(keeper.evidence))
        contexts == (keeper.context \cup other.context) \ ids
    IN  [keeper EXCEPT
            !.sev = IncidentSeverity(keeper.family, own, EventsOf(es, ids)),
            !.conf = IncidentConfidence(own),
            !.first = IF other.first < @ THEN other.first ELSE @,
            !.last = IF other.last > @ THEN other.last ELSE @,
            !.targets = @ \cup other.targets,
            !.signals = all,
            !.absorbed = (@ \cup other.signals) \ {keeper.anchor},
            !.ids = ids,
            !.context = Range(Truncated(Sorted(contexts, LAMBDA id : <<id>>), MaxContext)),
            !.evidence = Truncated(items, MAX_INCIDENT_EVIDENCE)]

BySize(incidents) == Sorted(incidents, KeeperKey)

\* A candidate is merged into the largest incident that takes it.
Combine(merged, candidate, signals, es) ==
    LET eligible == {k \in DOMAIN merged : Mergeable(merged[k], candidate)}
        keeper == Sorted(eligible, LAMBDA k : KeeperKey(merged[k]))[1]
    IN  IF eligible = {} THEN Append(merged, candidate)
        ELSE [merged EXCEPT ![keeper] = MergedIncident(@, candidate, signals, es)]

Combined(seq, signals, es) ==
    FoldLeft(LAMBDA merged, i : Combine(merged, i, signals, es), <<>>, seq)

\* merge_overlapping_incidents: one pass, largest first.
MergeOverlapping(incidents, signals, es) ==
    Range(Combined(BySize(incidents), signals, es))

CorrelatedIncidents(signals, es, context) ==
    LET clusters == Clusters(signals)
    IN  MergeOverlapping({BuildIncident(clusters[i], es, context) : i \in DOMAIN clusters},
                         signals, es)
=============================================================================
