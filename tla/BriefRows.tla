----------------------------- MODULE BriefRows ------------------------------
(***************************************************************************)
(* What the deterministic part of triage derives from the incidents of an  *)
(* analysis: the route of each (triage/routing.py), the disposition of     *)
(* exposures (triage/disposition.py), the rows of the brief                *)
(* (detection/presentation.py, fixed_source_port_cluster.py) and its       *)
(* roll-up (detection/rollup.py).                                          *)
(*                                                                         *)
(* W stands for the canonical events of an incident.  The lists that are   *)
(* cut for display only (addresses, ports, event and evidence ids of a     *)
(* row) are left out; the list of the members of a group is cut as well,   *)
(* and decides which incidents get a row of their own.                     *)
(***************************************************************************)
EXTENDS IncidentCorrelation

CONSTANTS
    MaxRows,    \* MAX_ACTION_ITEMS_PER_SECTION
    MaxMembers, \* MAX_ITEM_MEMBERS
    GroupGap,   \* DEFAULT_GROUP_TIME_COMPATIBILITY_SECONDS
    Cluster     \* [sources, each, total, window]: FIXED_SOURCE_PORT_CLUSTER_*

ASSUME BriefAssumption == MaxRows \in Nat /\ MaxMembers \in Nat /\ GroupGap \in Int

-----------------------------------------------------------------------------
(* Evidence strength and the disposition of an exposure *)

APPLICATION_PROTOCOLS ==
    {"HTTP", "HTTPS", "DNS", "SMTP", "SSH", "RDP", "LDAP", "SMB", "FTP"}

Answered(e) == "SYN" \in e.flags /\ e.flags \cap {"ACK", "RST", "FIN"} # {}

\* Two records that context matching relates, whatever their directions.
HasBidirectionalEvidence(W) ==
    \/ \E e \in W : Answered(e)
    \/ \E e, f \in W : e.id < f.id /\ Related(e, f)

Lead(W) == CHOOSE e \in W : \A f \in W : e.id <= f.id

Packets(W) == FoldSet(LAMBDA e, n : n + e.load, 0, W)

\* A record without a packet count is one packet.
EvidenceStrength(W) ==
    LET packets == IF Packets(W) = 0 THEN Cardinality(W) ELSE Packets(W)
    IN  IF W = {} THEN 0
        ELSE IF \E e \in W : e.proto \in APPLICATION_PROTOCOLS THEN 5
        ELSE IF HasBidirectionalEvidence(W) THEN 4
        ELSE IF \E e \in W : e.flags \cap {"PSH", "URG"} # {} THEN 3
        ELSE IF packets > 1 THEN 2
        ELSE IF Lead(W).flags = {"SYN"} THEN 0 ELSE 1

ExposureSeverity(port, strength, published) ==
    IF port \in CRITICAL_MANAGEMENT_PORTS /\ strength >= 4 THEN "critical"
    ELSE IF port \in CRITICAL_MANAGEMENT_PORTS \/ strength >= 2 \/ published THEN "high"
    ELSE "medium"

IsExposure(i) == i.family \in {"firewall_exposure", "firewall_policy"}

\* Measured on the allowed events when there are any; a held policy keeps the
\* severity of the detection, and without events an analyst has to look.
Disposition(i, W) ==
    LET allowed  == {e \in W : IsAllowed(e)}
        measured == IF allowed # {} THEN allowed ELSE W
        strength == EvidenceStrength(measured)
    IN  [verdict  |-> IF W = {} THEN "needs_review" ELSE "suspicious_activity",
         strength |-> strength,
         sev |-> IF allowed = {} THEN i.sev
                 ELSE ExposureSeverity(EffectivePort(Lead(measured)), strength,
                                       \E e \in measured : PrivatelyTranslated(e))]

-----------------------------------------------------------------------------
(* Routing *)

HIGH_VALUE_RULES ==
    {"inbound_sensitive_service_allowed", "critical_management_service_exposed",
     "dnat_sensitive_service_exposure", "wan_to_lan_sensitive_service_allowed",
     "wan_to_dmz_administrative_service_allowed", "blocked_then_allowed_same_service",
     "multi_source_allowed_sensitive_service", "scan_followed_by_allowed_connection",
     "spi_followed_by_allowed_connection"}

\* Resets and acknowledgements that SPI blocked, related to an allowed flow.
IsSpiDesync(i, W, related) ==
    /\ i.family = "network_anomaly"
    /\ \E e \in W, c \in related :
        /\ IsSpi(e, SpiFallback)
        /\ "SYN" \notin e.flags /\ e.flags \cap {"ACK", "RST", "FIN"} # {}
        /\ IsAllowed(c) /\ Related(e, c)

Route(i, W, related) ==
    IF \/ {s[1] : s \in i.signals} \cap HIGH_VALUE_RULES # {}
       \/ \E e \in W : IsAllowed(e)                  THEN "individual_triage"
    ELSE IF IsSpiDesync(i, W, related)               THEN "store_only"
    ELSE IF W = {} \/ \E e \in W : ~IsBlocked(e)     THEN "individual_triage"
    ELSE IF i.family = "network_scanning" /\ i.sev = "low" THEN "digest"
    ELSE "deterministic_report"

-----------------------------------------------------------------------------
(* Rows of the brief *)

Strongest(sevs) == SEVERITIES[Max({SeverityRank(s) : s \in sevs}) + 1]

\* id is what the code spells out as item_id; tie orders rows of equal id too.
Row(id, members, sev, conf, first, verdict, tie) ==
    [id |-> id, members |-> members, sev |-> sev, conf |-> conf, first |-> first,
     verdict |-> verdict, tie |-> tie]

RowOfIncident(i, W) ==
    LET d == Disposition(i, W)
    IN  Row(<<"inc", i.anchor>>, {i.anchor},
            IF IsExposure(i) THEN d.sev ELSE i.sev, i.conf, i.first,
            IF IsExposure(i) THEN d.verdict ELSE "suspicious_activity",
            <<2>> \o KeeperKey(i))

\* Exact source, service, action and translation; <<>> when they are not one.
GroupKey(W) ==
    LET sources  == Srcs(W)
        services == {SensitiveService(EffectivePort(e)) : e \in W}
        state    == IF \A e \in W : IsAllowed(e) THEN "allowed"
                    ELSE IF \A e \in W : IsBlocked(e) THEN "blocked" ELSE "mixed"
    IN  IF /\ W # {} /\ Cardinality(sources) = 1 /\ Cardinality(services) = 1
           /\ "none" \notin services /\ state # "mixed"
        THEN <<CHOOSE a \in sources : TRUE, CHOOSE s \in services : TRUE, state,
               \E e \in W : Translated(e)>>
        ELSE <<>>

\* Mutant: members of a burst have to overlap.
JoinBurstWithoutGap(bursts, i) ==
    IF bursts # <<>> /\ i.first <= Max({j.last : j \in Range(Last(bursts))})
    THEN [bursts EXCEPT ![Len(bursts)] = Append(@, i)]
    ELSE Append(bursts, <<i>>)

\* One burst after the other, in order of first_seen.
JoinBurst(bursts, i) ==
    IF bursts # <<>> /\ i.first <= Max({j.last : j \in Range(Last(bursts))}) + GroupGap
    THEN [bursts EXCEPT ![Len(bursts)] = Append(@, i)]
    ELSE Append(bursts, <<i>>)

InBursts(seq) == FoldLeft(JoinBurst, <<>>, seq)

Bursts(members) == InBursts(Sorted(members, LAMBDA i : <<i.first>> \o KeeperKey(i)))

ExposureGroups(incidents, es) ==
    LET exposures == {i \in incidents : IsExposure(i) /\ GroupKey(EventsOf(es, i.ids)) # <<>>}
        key(i)    == GroupKey(EventsOf(es, i.ids))
        bursts(k) == Bursts({i \in exposures : key(i) = k})
    IN  UNION {{[key |-> k, burst |-> b, members |-> Range(bursts(k)[b])]
                    : b \in DOMAIN bursts(k)} : k \in {key(i) : i \in exposures}}

SERVICES == <<"database", "docker", "elasticsearch", "ftp", "ftp_data", "ipmi",
              "kubernetes", "ldap", "memcached", "mongodb", "msrpc", "rdp", "redis",
              "smb", "snmp", "ssh", "telnet", "vnc", "winrm">>

\* The members of a group that its row lists: as many as fit, and the hashes of
\* their ids decide which.
Listed(members) ==
    CHOOSE S \in SUBSET members :
        Cardinality(S) = IF Cardinality(members) < MaxMembers THEN Cardinality(members)
                         ELSE MaxMembers

\* Severity, confidence and times are those of all members, listed or not.
\* The id does not tell a translated group from an untranslated one.
RowOfGroup(g, es) ==
    LET disposed == {Disposition(i, EventsOf(es, i.ids)) : i \in g.members}
        service  == Position(g.key[2], SERVICES)
        nat      == IF g.key[4] THEN 1 ELSE 0
    IN  Row(<<"exp", g.key[1], g.key[2], g.key[3], g.burst>>,
            {i.anchor : i \in Listed(g.members)},
            Strongest({d.sev : d \in disposed}),
            Max({i.conf : i \in g.members}), Min({i.first : i \in g.members}),
            IF \E d \in disposed : d.verdict = "needs_review"
            THEN "needs_review" ELSE "suspicious_activity",
            <<0, g.key[1], service, IF g.key[3] = "allowed" THEN 0 ELSE 1, g.burst, nat>>
              \o KeeperKey(CHOOSE i \in g.members : TRUE))

-----------------------------------------------------------------------------
(* Clusters of fixed-source-port scanners *)

Probes(list) ==
    {e \in Range(list) :
        /\ e.src # NoAddr /\ e.dst # NoAddr /\ e.dport # NoPort
        /\ e.sport \in FixedPorts /\ IsInitialProbe(e) /\ "wan" \in e.inz}

SameSource(e, f) == e.src = f.src /\ e.sport = f.sport

\* The probes of a source are sorted by time, and a time does not compare with
\* the stand-in for a missing one: the sort raises.  (Parsers give every time a
\* zone, so a missing one is the only case.)
CannotBeSorted(list) ==
    \E e, f \in Probes(list) : SameSource(e, f) /\ e.t # NoTime /\ f.t = NoTime

\* find_fixed_source_port_groups sees every event of the analysis, also those
\* the engine does not accept.
FixedPortGroups(list) ==
    LET t == Threshold["fixed_source_port_scan"]
        groups == {{f \in Probes(list) : SameSource(e, f)} : e \in Probes(list)}
    IN  {g \in groups : /\ NoTime \notin Times(g) /\ Span(g) <= t.window
                        /\ Cardinality(g) >= Cluster.each
                        /\ AtMost(t.ports, DPorts(g))}

\* A source joins the run as long as the whole run fits in the window.
JoinRun(runs, g) ==
    IF runs # <<>> /\ Max(Times(g) \cup UNION {Times(h) : h \in Range(Last(runs))})
                      - Min(UNION {Times(h) : h \in Range(Last(runs))}) <= Cluster.window
    THEN [runs EXCEPT ![Len(runs)] = Append(@, g)]
    ELSE Append(runs, <<g>>)

RunsOf(seq) == FoldLeft(JoinRun, <<>>, seq)

ScanClusters(list) ==
    LET groups == FixedPortGroups(list)
        key(g) == <<Network(Lead(g).src), Lead(g).sport>>
        runs(k) == RunsOf(Sorted({g \in groups : key(g) = k},
                                LAMBDA g : <<Min(Times(g)), Lead(g).src>>))
        large(run) == /\ Len(run) >= Cluster.sources
                      /\ Cardinality(UNION Range(run)) >= Cluster.total
    IN  UNION {{[key |-> k, burst |-> b, events |-> UNION Range(runs(k)[b])]
                    : b \in {n \in DOMAIN runs(k) : large(runs(k)[n])}}
                : k \in {key(g) : g \in groups}}

RowOfCluster(c) ==
    LET allowed == \E e \in c.events : IsAllowed(e)
        sev == CASE ~allowed /\ Cardinality(c.events) < 10 -> "low"
                 [] allowed /\ DPorts(c.events) \cap SENSITIVE_SERVICE_PORTS # {} -> "high"
                 [] OTHER -> "medium"
    IN  Row(<<"fsp", c.key[1], c.key[2], c.burst>>, {}, sev, 800,
            Min(Times(c.events)), "suspicious_activity",
            <<1, c.key[1], c.key[2], c.burst>>)

-----------------------------------------------------------------------------
(* Selection (build_brief_selection) and roll-up *)

\* An incident that its group does not list has a row of its own too.
BriefRowsOf(incidents, es, list) ==
    LET groups  == ExposureGroups(incidents, es)
        grouped == UNION {Listed(g.members) : g \in groups}
    IN  {RowOfGroup(g, es) : g \in groups}
          \cup {RowOfIncident(i, EventsOf(es, i.ids)) : i \in incidents \ grouped}
          \cup {RowOfCluster(c) : c \in ScanClusters(list)}

RowOrder(r) == <<-SeverityRank(r.sev), -r.conf, r.first>> \o r.tie

\* Mutant: rows in the order they were built.
OrderedAsBuilt(rows) == Sorted(rows, LAMBDA r : r.tie)

Ordered(rows) == Sorted(rows, RowOrder)

Urgent(r) == r.sev \in {"critical", "high"} /\ r.verdict # "needs_review"

\* Selecting rows and sorting them commute.
ActNow(rows) == Ordered({r \in rows : Urgent(r)})

\* Everything whose id is not the id of an urgent row.
Investigate(rows) ==
    LET urgent == {u.id : u \in {x \in rows : Urgent(x)}}
    IN  Ordered({r \in rows : r.id \notin urgent})

\* Mutant: the address before translation.
ExposedAddresses(incidents, es) ==
    LET seen == {e \in EventsOf(es, UNION {i.ids : i \in {j \in incidents : IsExposure(j)}}) :
                    /\ IsAllowed(e) /\ ExternalInbound(e) /\ e.dst # NoAddr
                    /\ SensitiveService(EffectivePort(e)) # "none"}
    IN  {<<e.dst, SensitiveService(EffectivePort(e))>> : e \in seen}

\* What an allowed exposure shows of an asset, from the events of the incidents.
ExposedAssets(incidents, es) ==
    LET seen == {e \in EventsOf(es, UNION {i.ids : i \in {j \in incidents : IsExposure(j)}}) :
                    /\ IsAllowed(e) /\ ExternalInbound(e) /\ EffectiveDst(e) # NoAddr
                    /\ SensitiveService(EffectivePort(e)) # "none"}
    IN  {<<EffectiveDst(e), SensitiveService(EffectivePort(e))>> : e \in seen}

\* Mutant: only the usual spellings of a block.
IsNarrowBlockedRecon(i, W) ==
    i.family \in RECON /\ W # {} /\ \A e \in W : IsNarrowBlocked(e)

IsBlockedRecon(i, W) == i.family \in RECON /\ W # {} /\ \A e \in W : IsBlocked(e)

\* Blocked reconnaissance by network, family and services, in bursts.
ReconGroups(incidents, es) ==
    LET scope(W) == LET known == {ServiceOf(p) : p \in DPorts(W)} \ {"none"}
                    IN  IF known # {} THEN <<known, {}>>
                        ELSE <<{}, IF Cardinality(DPorts(W)) <= 5 THEN DPorts(W) ELSE {}>>
        recon == {i \in incidents : IsBlockedRecon(i, EventsOf(es, i.ids))}
        part(i, n) == LET W == {e \in EventsOf(es, i.ids) : Network(e.src) = n}
                      IN  [net |-> n, family |-> i.family, scope |-> scope(W), events |-> W,
                           first |-> Min(Times(W)), last |-> Max(Times(W)),
                           order |-> KeeperKey(i)]
        told == UNION {{part(i, Network(a)) : a \in Srcs(EventsOf(es, i.ids))} : i \in recon}
        key(c) == <<c.net, c.family, c.scope>>
        bursts(k) == InBursts(Sorted({c \in told : key(c) = k},
                                   LAMBDA c : <<c.first>> \o c.order))
    IN  UNION {{[key |-> k, events |-> UNION {c.events : c \in Range(bursts(k)[b])}]
                    : b \in DOMAIN bursts(k)} : k \in {key(c) : c \in told}}
=============================================================================
