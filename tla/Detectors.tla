----------------------------- MODULE Detectors ------------------------------
(***************************************************************************)
(* The default detection rules (src/agent/detection/detectors): which      *)
(* signals each of them emits for a set of eligible events.                *)
(*                                                                         *)
(* A rule groups the events by a key, slides a window over each group in   *)
(* (timestamp, event_id) order and emits a signal for every window that    *)
(* meets its thresholds.  Addresses always parse here: an absent one is    *)
(* NoAddr.  Ratios are percentages, confidences are in thousandths.        *)
(***************************************************************************)
EXTENDS FirewallEvents

CONSTANTS
    Threshold,      \* rule |-> its settings, the defaults below or an operator's
    SpiFallback,    \* SPI_ANOMALY_FALLBACK_RAW_MATCH
    LateralPorts,   \* INTERNAL_LATERAL_SCAN_PORTS
    FixedPorts      \* FIXED_SOURCE_PORT_SCAN_PORTS, {} when it is disabled

MAX_TARGETS == 20

\* Tags of the correlation keys that do not start with an address.
FIXED_SOURCE_PORT == -2
TARGET == -1

\* The thresholds of a rule.  targets counts the distinct hosts on the far side
\* (sources for the rules about one destination), ports the distinct ports
\* (services for the multi-service sweep).
Settings(events, targets, ports, block, syn, window, span) ==
    [events |-> events, targets |-> targets, ports |-> ports, block |-> block,
     syn |-> syn, window |-> window, span |-> span]

ProbeDefaults ==
    [network_scan_horizontal |-> Settings(10, 8, 0, 60, 50, 300, 0),
     network_scan_vertical   |-> Settings(10, 0, 8, 60, 50, 300, 0),
     remote_service_probe    |-> Settings(5, 3, 0, 60, 50, 300, 0),
     extended_service_probe  |-> Settings(5, 3, 0, 60, 50, 300, 0),
     web_admin_panel_probe   |-> Settings(8, 5, 0, 80, 60, 300, 0),
     tcp_flag_scan           |-> Settings(5, 3, 3, 60, 0, 300, 0),
     tcp_ack_scan            |-> Settings(10, 3, 3, 85, 0, 300, 0),
     tcp_invalid             |-> Settings(5, 3, 3, 80, 0, 300, 0),
     tcp_reset               |-> Settings(10, 3, 3, 60, 0, 300, 0)]

ExposureDefaults ==
    [spi_followed_by_allowed_connection      |-> Settings(3, 0, 0, 0, 0, 600, 0),
     inbound_sensitive_service_allowed       |-> Settings(1, 1, 0, 0, 0, 300, 0),
     critical_management_service_exposed     |-> Settings(1, 0, 0, 0, 0, 300, 0),
     dnat_sensitive_service_exposure         |-> Settings(1, 0, 0, 0, 0, 300, 0),
     wan_to_lan_sensitive_service_allowed    |-> Settings(2, 0, 0, 0, 0, 300, 0),
     wan_to_dmz_administrative_service_allowed |-> Settings(3, 0, 0, 0, 0, 300, 0),
     blocked_then_allowed_same_service       |-> Settings(3, 0, 0, 0, 0, 600, 0),
     multi_source_allowed_sensitive_service  |-> Settings(5, 3, 0, 0, 0, 300, 0),
     spi_anomaly_burst                       |-> Settings(5, 1, 0, 0, 0, 300, 0)]

ScanDefaults ==
    [network_flood_dos            |-> Settings(100, 0, 0, 80, 0, 60, 0),
     low_and_slow_horizontal_scan |-> Settings(12, 8, 0, 60, 50, 3600, 900),
     low_and_slow_vertical_scan   |-> Settings(12, 0, 8, 60, 50, 3600, 900),
     repeated_blocked_scanner     |-> Settings(6, 2, 2, 80, 0, 300, 0),
     internal_lateral_scan        |-> Settings(5, 3, 0, 60, 50, 300, 0),
     subnet_sweep                 |-> Settings(8, 6, 0, 60, 50, 300, 0),
     distributed_scan             |-> Settings(12, 6, 0, 80, 60, 300, 0),
     multi_service_sweep          |-> Settings(8, 3, 3, 60, 50, 300, 0),
     scan_followed_by_allowed_connection |-> Settings(5, 2, 2, 0, 0, 600, 0),
     fixed_source_port_scan       |-> Settings(5, 0, 3, 0, 0, 300, 0)]

\* A window holds at least the event that closes it.
ASSUME ThresholdAssumption ==
    \A rule \in DOMAIN ProbeDefaults \cup DOMAIN ExposureDefaults \cup DOMAIN ScanDefaults :
        Threshold[rule].window \in Nat /\ Threshold[rule].events \in Int

\* calculate_signal_confidence: from lo towards hi as events exceed the minimum.
Confidence(n, minimum, lo, hi) ==
    CASE minimum <= 0 -> lo
      [] n < minimum  -> (lo * n) \div minimum
      [] OTHER        -> lo + ((n - minimum) * (hi - lo)) \div (n + minimum)

\* The first k events of W in (timestamp, event_id) order.
FirstOf(W, k) == {e \in W : Cardinality({f \in W : f.n < e.n}) < k}

Bounded(A) == {a \in A : Cardinality({b \in A : b < a}) < MAX_TARGETS}

Times(W)  == {e.t : e \in W}
Span(W)   == Max(Times(W)) - Min(Times(W))
Dsts(W)   == Addrs({e.dst : e \in W})
Srcs(W)   == Addrs({e.src : e \in W})
DPorts(W) == Ports({e.dport : e \in W})
AtMost(n, S) == n <= Cardinality(S)

Blocked(W, t) == AtLeast(W, t.block, IsBlocked)
Syns(W, t)    == AtLeast(W, t.syn, IsSyn)
TcpSyns(W, t) == (\A e \in W : e.proto = "TCP") => Syns(W, t)

Meta(rule, type, family, sev, lo, hi) ==
    [rule |-> rule, type |-> type, family |-> family, sev |-> sev,
     lo |-> lo, hi |-> hi]

\* A signal: identity, events, interval, evidence.  at and upto order the
\* signals of one rule as it emits them.
Signal(meta, counted, minimum, W, entity, targets, key, evidence, at) ==
    [rule |-> meta.rule, type |-> meta.type, family |-> meta.family,
     sev |-> meta.sev,
     conf |-> Confidence(counted, minimum, meta.lo, meta.hi),
     first |-> Min(Times(W)), last |-> Max(Times(W)),
     ids |-> {e.id : e \in W}, entity |-> entity, targets |-> targets,
     key |-> key, evid |-> {e.id : e \in evidence},
     at |-> at, upto |-> Max({e.n : e \in W})]

\* Every state of the sliding window over every group of equal key.
Windows(es, key, seconds) ==
    {[last |-> e, at |-> Min({f.n : f \in {g \in es : key[g] = key[e]}}),
      events |-> {f \in es : key[f] = key[e] /\ f.n <= e.n /\ e.t - f.t <= seconds}]
        : e \in es}

Scan(MetaOf(_), t, es, Key(_), Ok(_), Who(_), Whom(_)) ==
    {Signal(MetaOf(w.events), Cardinality(w.events), t.events, w.events,
            Who(w.last), Whom(w.events), Key(w.last), FirstOf(w.events, 3), w.at)
        : w \in {v \in Windows(es, [e \in es |-> Key(e)], t.window) :
                    Cardinality(v.events) >= t.events /\ Ok(v.events)}}

Source(e) == e.src
BySource(e) == <<e.src>>
BoundedDsts(W) == Bounded(Dsts(W))

-----------------------------------------------------------------------------
(* Scans of many hosts or many ports *)

HorizontalScan(es) ==
    LET t == Threshold["network_scan_horizontal"]
        meta(W) == Meta("network_scan_horizontal", "horizontal_scan", "network_scanning",
                        IF Cardinality(Dsts(W)) > 2 * t.targets THEN "high" ELSE "medium",
                        600, 900)
        ok(W) == /\ AtMost(t.targets, Dsts(W))
                 /\ AtLeast(W, t.block, IsNarrowBlocked) /\ TcpSyns(W, t)
    IN  Scan(meta, t, {e \in es : e.src # NoAddr /\ e.dport > 0},
             LAMBDA e : <<e.src, e.dport, e.proto>>, ok, Source, Dsts)

VerticalScan(es) ==
    LET t == Threshold["network_scan_vertical"]
        open(W) == DPorts(W) \ {0}
        meta(W) == Meta("network_scan_vertical", "vertical_scan", "network_scanning",
                        IF Cardinality(open(W)) > 2 * t.ports THEN "high" ELSE "medium",
                        600, 900)
        ok(W) == /\ AtMost(t.ports, open(W))
                 /\ AtLeast(W, t.block, IsNarrowBlocked) /\ TcpSyns(W, t)
    IN  Scan(meta, t, {e \in es : e.src # NoAddr /\ e.dst # NoAddr},
             LAMBDA e : <<e.src, e.dst, e.proto>>, ok, Source, Dsts)

\* A sweep from a constant, service-looking source port.  The whole group must
\* fit in the window: there is no sliding here.
FixedSourcePortScan(es) ==
    LET t == Threshold["fixed_source_port_scan"]
        probes == {e \in es : /\ e.src # NoAddr /\ e.dst # NoAddr /\ e.dport # NoPort
                              /\ e.sport \in FixedPorts
                              /\ IsInitialProbe(e) /\ "wan" \in e.inz}
        group(e) == {f \in probes : f.src = e.src /\ f.sport = e.sport}
        severity(W) ==
            IF ~\E e \in W : IsAllowed(e)
            THEN IF Cardinality(W) < 10 THEN "low" ELSE "medium"
            ELSE IF \E p \in DPorts(W) : SensitiveService(p) # "none" THEN "high"
                 ELSE "medium"
    IN  {Signal(Meta("network_scan_vertical", "fixed_source_port_scan",
                     "network_scanning", severity(group(e)), 600, 900),
                Cardinality(group(e)), t.events, group(e), e.src, Dsts(group(e)),
                <<FIXED_SOURCE_PORT, e.sport>>, FirstOf(group(e), 3),
                Min({f.n : f \in group(e)}))
            : e \in {f \in probes : /\ Span(group(f)) <= t.window
                                    /\ Cardinality(group(f)) >= t.events
                                    /\ AtMost(t.ports, DPorts(group(f)))}}

SubnetSweep(es) ==
    LET t == Threshold["subnet_sweep"]
        ok(W) == AtMost(t.targets, Dsts(W)) /\ Blocked(W, t) /\ TcpSyns(W, t)
    IN  Scan(LAMBDA W : Meta("subnet_sweep", "subnet_sweep", "network_scanning",
                             "medium", 650, 900),
             t, {e \in es : e.src # NoAddr /\ e.dst # NoAddr /\ e.dport # NoPort},
             LAMBDA e : <<e.src, Network(e.dst), e.dport, e.proto>>,
             ok, Source, BoundedDsts)

InternalLateralScan(es) ==
    LET t == Threshold["internal_lateral_scan"]
        ok(W) == AtMost(t.targets, Dsts(W)) /\ Blocked(W, t) /\ Syns(W, t)
    IN  Scan(LAMBDA W : Meta("internal_lateral_scan", "internal_lateral_scan",
                             "lateral_movement_candidate", "high", 750, 950),
             t, {e \in es : /\ e.src \in Private /\ e.dst \in Private /\ e.src # e.dst
                            /\ e.dport \in LateralPorts /\ e.proto = "TCP"},
             BySource, ok, Source, BoundedDsts)

MultiServiceSweep(es) ==
    LET t == Threshold["multi_service_sweep"]
        services(W) == {ServiceOf(e.dport) : e \in W}
        ok(W) == /\ AtMost(t.ports, services(W)) /\ AtMost(t.targets, Dsts(W))
                 /\ Blocked(W, t) /\ Syns(W, t)
    IN  Scan(LAMBDA W : Meta("multi_service_sweep", "multi_service_sweep",
                             "service_probing", "high", 750, 950),
             t, {e \in es : /\ e.src # NoAddr /\ e.dst # NoAddr
                            /\ e.proto = "TCP" /\ ServiceOf(e.dport) # "none"},
             BySource, ok, Source, BoundedDsts)

\* SPI blocks are left to the SPI rules, and TCP counts opening probes only.
RepeatedBlockedScanner(es) ==
    LET t == Threshold["repeated_blocked_scanner"]
        ok(W) == /\ Blocked(W, t)
                 /\ AtMost(t.targets, Dsts(W)) \/ AtMost(t.ports, DPorts(W))
    IN  Scan(LAMBDA W : Meta("repeated_blocked_scanner", "repeated_blocked_scanner",
                             "network_scanning", "low", 550, 800),
             t, {e \in es : /\ e.src # NoAddr /\ ~IsSpi(e, SpiFallback)
                            /\ e.proto = "TCP" => IsInitialProbe(e)},
             LAMBDA e : <<e.src, e.proto>>, ok, Source, BoundedDsts)

\* Web ports need a stricter share of blocks and SYNs.
DistributedScan(es) ==
    LET t == Threshold["distributed_scan"]
        atLeast(a, b) == IF a < b THEN b ELSE a
        strict(W) == IF \E e \in W : e.dport \in {80, 443}
                     THEN [block |-> atLeast(t.block, 90), syn |-> atLeast(t.syn, 80)]
                     ELSE [block |-> t.block, syn |-> t.syn]
        ok(W) == /\ AtMost(t.targets, Srcs(W))
                 /\ Blocked(W, strict(W)) /\ TcpSyns(W, strict(W))
    IN  Scan(LAMBDA W : Meta("distributed_scan", "distributed_scan",
                             "network_scanning", "medium", 700, 900),
             t, {e \in es : e.src # NoAddr /\ e.dst # NoAddr /\ e.dport # NoPort},
             LAMBDA e : <<e.dst, e.dport, e.proto>>, ok,
             LAMBDA e : e.dst, LAMBDA W : Bounded(Srcs(W)))

LowAndSlowHorizontalScan(es) ==
    LET t == Threshold["low_and_slow_horizontal_scan"]
        ok(W) == /\ AtMost(t.targets, Dsts(W)) /\ Span(W) >= t.span
                 /\ Blocked(W, t) /\ TcpSyns(W, t)
    IN  Scan(LAMBDA W : Meta("low_and_slow_horizontal_scan",
                             "low_and_slow_horizontal_scan", "network_scanning",
                             "medium", 650, 900),
             t, {e \in es : e.src # NoAddr /\ e.dst # NoAddr /\ e.dport # NoPort},
             LAMBDA e : <<e.src, e.dport, e.proto>>, ok, Source, BoundedDsts)

LowAndSlowVerticalScan(es) ==
    LET t == Threshold["low_and_slow_vertical_scan"]
        ok(W) == /\ AtMost(t.ports, DPorts(W)) /\ Span(W) >= t.span
                 /\ Blocked(W, t) /\ TcpSyns(W, t)
    IN  Scan(LAMBDA W : Meta("low_and_slow_vertical_scan",
                             "low_and_slow_vertical_scan", "network_scanning",
                             "medium", 650, 900),
             t, {e \in es : e.src # NoAddr /\ e.dst # NoAddr /\ e.dport # NoPort},
             LAMBDA e : <<e.src, e.dst, e.proto>>, ok, Source, Dsts)

NetworkFlood(es) ==
    LET t == Threshold["network_flood_dos"]
        port(e) == IF e.dport = NoPort THEN 0 ELSE e.dport
    IN  Scan(LAMBDA W : Meta("network_flood_dos", "network_flood", "network_dos",
                             "high", 700, 900),
             t, {e \in es : e.src # NoAddr /\ e.dst # NoAddr},
             LAMBDA e : <<e.src, e.dst, port(e), e.proto>>,
             LAMBDA W : AtLeast(W, t.block, IsNarrowBlocked), Source, Dsts)

-----------------------------------------------------------------------------
(* Probes of one service *)

RemoteServiceProbe(es) ==
    LET t == Threshold["remote_service_probe"]
        service(e) == IF e.dport = 3389 THEN "rdp_probe" ELSE "ssh_probe"
        meta(W) == LET name == service(CHOOSE e \in W : TRUE)
                   IN  Meta(name, name, "service_probing", "high", 700, 950)
        ok(W) == /\ AtMost(t.targets, Dsts(W))
                 /\ AtLeast(W, t.block, IsNarrowBlocked) /\ Syns(W, t)
    IN  Scan(meta, t, {e \in es : /\ e.src # NoAddr /\ e.proto = "TCP"
                                  /\ e.dport \in {22, 3389}},
             LAMBDA e : <<e.src, service(e)>>, ok, Source, Dsts)

\* The profiles of the extended pack: emitted identity |-> ports.
PROFILES ==
    [smb_probe |-> {139, 445}, vnc_probe |-> 5900 .. 5905,
     winrm_probe |-> {5985, 5986}, mssql_probe |-> {1433}, oracle_probe |-> {1521},
     mysql_probe |-> {3306}, postgresql_probe |-> {5432}, redis_probe |-> {6379},
     elasticsearch_probe |-> {9200}, mongodb_probe |-> {27017},
     kubernetes_api_probe |-> {6443}, kubelet_probe |-> {10250},
     docker_daemon_probe |-> {2375, 2376},
     web_admin_panel_probe |-> DMZ_ADMINISTRATIVE_PORTS,
     telnet_probe |-> {23}, ftp_probe |-> {20, 21}]

WEB_ADMIN == {"web_admin_panel_probe"}
CLEARTEXT == {"telnet_probe", "ftp_probe"}
DATABASES == {"mssql_probe", "oracle_probe", "mysql_probe", "postgresql_probe",
              "redis_probe", "elasticsearch_probe", "mongodb_probe"}

ProfiledProbes(es, profiles) ==
    UNION {
      LET web == p \in WEB_ADMIN
          t == Threshold[IF web THEN "web_admin_panel_probe" ELSE "extended_service_probe"]
          severity == IF p \in WEB_ADMIN \cup CLEARTEXT THEN "medium" ELSE "high"
          meta(W) == IF web THEN Meta(p, p, "service_probing", severity, 650, 900)
                     ELSE Meta(p, p, "service_probing", severity, 700, 950)
          ok(W) == AtMost(t.targets, Dsts(W)) /\ Blocked(W, t) /\ Syns(W, t)
      IN  Scan(meta, t, {e \in es : /\ e.src # NoAddr /\ e.dst # NoAddr
                                    /\ e.proto = "TCP" /\ e.dport \in PROFILES[p]},
               BySource, ok, Source, BoundedDsts)
        : p \in profiles}

-----------------------------------------------------------------------------
(* Abnormal TCP flags and stateful inspection *)

\* One rule of abnormal flags, over the events that have them.
FlagPattern(es, rule, family, sev, t) ==
    LET ok(W) == /\ AtMost(t.targets, Dsts(W)) \/ AtMost(t.ports, DPorts(W))
                 /\ Blocked(W, t)
    IN  Scan(LAMBDA W : IF sev = "high" THEN Meta(rule, rule, family, sev, 750, 950)
                        ELSE Meta(rule, rule, family, sev, 650, 900),
             t, {e \in es : e.src # NoAddr /\ e.dst # NoAddr /\ e.proto = "TCP"},
             BySource, ok, Source, BoundedDsts)

TcpNullScan(es) ==
    FlagPattern({e \in es : e.null}, "tcp_null_scan", "network_scanning",
                "medium", Threshold["tcp_flag_scan"])
TcpXmasScan(es) ==
    FlagPattern({e \in es : e.flags = {"FIN", "PSH", "URG"}}, "tcp_xmas_scan",
                "network_scanning", "medium", Threshold["tcp_flag_scan"])
TcpFinScan(es) ==
    FlagPattern({e \in es : e.flags = {"FIN"}}, "tcp_fin_scan",
                "network_scanning", "medium", Threshold["tcp_flag_scan"])
TcpAckScan(es) ==
    FlagPattern({e \in es : e.flags = {"ACK"}}, "tcp_ack_scan",
                "network_scanning", "medium", Threshold["tcp_ack_scan"])
TcpSynFinAnomaly(es) ==
    FlagPattern({e \in es : {"SYN", "FIN"} \subseteq e.flags}, "tcp_syn_fin_anomaly",
                "network_anomaly", "high", Threshold["tcp_invalid"])
TcpSynRstAnomaly(es) ==
    FlagPattern({e \in es : {"SYN", "RST"} \subseteq e.flags}, "tcp_syn_rst_anomaly",
                "network_anomaly", "medium", Threshold["tcp_invalid"])
RepeatedTcpResetAnomaly(es) ==
    FlagPattern({e \in es : "RST" \in e.flags /\ "SYN" \notin e.flags},
                "repeated_tcp_reset_anomaly", "network_anomaly", "medium",
                Threshold["tcp_reset"])

SpiAnomalyBurst(es) ==
    LET t == Threshold["spi_anomaly_burst"]
    IN  Scan(LAMBDA W : Meta("spi_anomaly_burst", "spi_anomaly", "network_anomaly",
                             "medium", 500, 850),
             t, {e \in es : e.src # NoAddr /\ IsSpi(e, SpiFallback)},
             BySource, LAMBDA W : AtMost(t.targets, Dsts(W)), Source, Dsts)

-----------------------------------------------------------------------------
(* Sequences: blocks that precede an allowed connection *)

SameService(e, f) ==
    \/ e.dport = f.dport
    \/ ServiceOf(f.dport) # "none" /\ ServiceOf(e.dport) = ServiceOf(f.dport)

\* Before(a): the blocked events of the sequence that ends in the allowed a.
Sequence(meta, t, allowed, Before(_), Ok(_, _), targets(_, _), Key(_)) ==
    {Signal(meta, Cardinality(Before(a)), t.events, Before(a) \cup {a}, a.src,
            targets(Before(a), a), Key(a), FirstOf(Before(a), 2) \cup {a}, a.n)
        : a \in {b \in allowed : /\ Cardinality(Before(b)) >= t.events
                                 /\ Before(b) # {} /\ Ok(Before(b), b)}}

Preceding(es, a, seconds) ==
    {f \in es : f.src = a.src /\ f.n < a.n /\ a.t - f.t <= seconds}

ScanThenAllowed(es) ==
    LET t == Threshold["scan_followed_by_allowed_connection"]
        seen == {e \in es : /\ e.src # NoAddr /\ e.dst # NoAddr
                            /\ e.dport # NoPort /\ e.action # "none"}
        before(a) == {f \in Preceding(seen, a, t.window) : IsBlocked(f)}
        ok(B, a) == /\ AtMost(t.targets, Dsts(B)) \/ AtMost(t.ports, DPorts(B))
                    /\ \E f \in B : f.dst = a.dst /\ SameService(f, a)
    IN  Sequence(Meta("scan_followed_by_allowed_connection",
                      "scan_followed_by_allowed_connection",
                      "network_intrusion_candidate", "high", 800, 950),
                 t, {e \in seen : IsAllowed(e)}, before, ok,
                 LAMBDA B, a : Bounded(Dsts(B \cup {a})), LAMBDA a : <<a.dst, a.dport>>)

SpiThenAllowed(es) ==
    LET t == Threshold["spi_followed_by_allowed_connection"]
        seen == {e \in es : /\ e.src # NoAddr /\ e.dst # NoAddr /\ e.dport # NoPort
                            /\ e.proto = "TCP" /\ e.action # "none"}
        before(a) == {f \in Preceding(seen, a, t.window) : IsSpiBlock(f, SpiFallback)}
        ok(B, a) == \E f \in B : f.dst = a.dst /\ SameService(f, a)
    IN  Sequence(Meta("spi_followed_by_allowed_connection",
                      "spi_followed_by_allowed_connection",
                      "network_intrusion_candidate", "high", 800, 950),
                 t, {e \in seen : IsAllowed(e)}, before, ok,
                 LAMBDA B, a : Bounded(Dsts(B \cup {a})), LAMBDA a : <<a.dst, a.dport>>)

-----------------------------------------------------------------------------
(* Allowed inbound access *)

\* _exposure_event: TCP between usable addresses; which services count is left
\* to the rule.
Exposure(e) ==
    /\ IsUsable(e.src) /\ IsUsable(EffectiveDst(e))
    /\ EffectivePort(e) # NoPort /\ e.proto = "TCP"

EffectiveService(e) == SensitiveService(EffectivePort(e))
Exposed(es) == {e \in es : Exposure(e) /\ EffectiveService(e) # "none" /\ IsAllowed(e)}

EffectiveDsts(W) == {EffectiveDst(e) : e \in W}
SourcesOf(W) == Bounded(Srcs(W))

ExposureMeta(rule, family, sev) ==
    IF sev = "high" THEN Meta(rule, rule, family, sev, 800, 950)
    ELSE Meta(rule, rule, family, sev, 650, 900)

InboundSensitive(es) ==
    LET t == Threshold["inbound_sensitive_service_allowed"]
    IN  Scan(LAMBDA W : ExposureMeta("inbound_sensitive_service_allowed",
                                     "firewall_exposure", "medium"),
             t, {e \in Exposed(es) : ExternalInbound(e)},
             LAMBDA e : <<e.src, EffectiveDst(e), EffectiveService(e)>>,
             LAMBDA W : AtMost(t.targets, EffectiveDsts(W)), Source, EffectiveDsts)

CriticalManagementExposed(es) ==
    LET t == Threshold["critical_management_service_exposed"]
    IN  Scan(LAMBDA W : ExposureMeta("critical_management_service_exposed",
                                     "firewall_exposure", "high"),
             t, {e \in Exposed(es) : /\ EffectivePort(e) \in CRITICAL_MANAGEMENT_PORTS
                                     /\ "wan" \in e.inz \/ PrivatelyTranslated(e)
                                     /\ ~Internal(e)},
             LAMBDA e : <<e.src, EffectiveDst(e), EffectivePort(e)>>,
             LAMBDA W : TRUE, Source, EffectiveDsts)

DnatSensitiveExposure(es) ==
    LET t == Threshold["dnat_sensitive_service_exposure"]
    IN  Scan(LAMBDA W : ExposureMeta("dnat_sensitive_service_exposure",
                                     "firewall_exposure", "high"),
             t, {e \in Exposed(es) : /\ PrivatelyTranslated(e) /\ ~Internal(e)
                                     /\ e.src \in Public \/ "wan" \in e.inz},
             LAMBDA e : <<EffectiveDst(e), EffectivePort(e)>>,
             LAMBDA W : TRUE, EffectiveDst, SourcesOf)

WanToLanAllowed(es) ==
    LET t == Threshold["wan_to_lan_sensitive_service_allowed"]
    IN  Scan(LAMBDA W : ExposureMeta("wan_to_lan_sensitive_service_allowed",
                                     "firewall_policy", "high"),
             t, {e \in Exposed(es) : /\ "wan" \in e.inz /\ ~Internal(e)
                                     /\ \/ "lan" \in e.outz
                                        \/ e.outz = {} /\ FlowsInbound(e)},
             LAMBDA e : <<EffectiveDst(e), EffectiveService(e)>>,
             LAMBDA W : TRUE, EffectiveDst, SourcesOf)

Administered(e) == AdministrativeService(EffectivePort(e))

WanToDmzAllowed(es) ==
    LET t == Threshold["wan_to_dmz_administrative_service_allowed"]
    IN  Scan(LAMBDA W : ExposureMeta("wan_to_dmz_administrative_service_allowed",
                                     "firewall_policy", "medium"),
             t, {e \in es : /\ Exposure(e) /\ Administered(e) # "none"
                            /\ IsAllowed(e) /\ ~Internal(e)
                            /\ "wan" \in e.inz /\ "dmz" \in e.outz},
             LAMBDA e : <<EffectiveDst(e), Administered(e)>>,
             LAMBDA W : TRUE, EffectiveDst, SourcesOf)

MultiSourceAllowed(es) ==
    LET t == Threshold["multi_source_allowed_sensitive_service"]
    IN  Scan(LAMBDA W : ExposureMeta("multi_source_allowed_sensitive_service",
                                     "firewall_exposure", "high"),
             t, {e \in Exposed(es) : e.src \in Public /\ EffectiveDst(e) \in Private},
             LAMBDA e : <<EffectiveDst(e), EffectiveService(e)>>,
             LAMBDA W : AtMost(t.targets, Srcs(W)), EffectiveDst, SourcesOf)

\* Same source, effective destination and service: blocks, then an allow.
BlockedThenAllowed(es) ==
    LET t == Threshold["blocked_then_allowed_same_service"]
        service(e) == ServiceOrExactPort(EffectivePort(e))
        seen == {e \in es : /\ Exposure(e) /\ service(e) # <<"none", 0>>
                            /\ IsAllowed(e) \/ IsBlocked(e)}
        before(a) == {f \in Preceding(seen, a, t.window) :
                        /\ EffectiveDst(f) = EffectiveDst(a) /\ service(f) = service(a)
                        /\ IsBlocked(f) /\ ~IsSpi(f, SpiFallback)}
        meta == ExposureMeta("blocked_then_allowed_same_service",
                             "network_intrusion_candidate", "high")
    IN  {[s EXCEPT !.conf = Confidence(Cardinality(s.ids), t.events, meta.lo, meta.hi)]
            : s \in Sequence(meta, t, {e \in seen : IsAllowed(e)}, before,
                             LAMBDA B, a : TRUE, LAMBDA B, a : {EffectiveDst(a)},
                             LAMBDA a : <<EffectiveDst(a), service(a), EffectivePort(a)>>)}

-----------------------------------------------------------------------------
(* The default registry.  Priorities only order the warnings and the list of *)
(* signals: no later stage depends on them.                                  *)

DEFAULT_RULES ==
    {"scan_followed_by_allowed_connection", "critical_management_service_exposed",
     "spi_followed_by_allowed_connection", "blocked_then_allowed_same_service",
     "dnat_sensitive_service_exposure", "wan_to_lan_sensitive_service_allowed",
     "multi_source_allowed_sensitive_service",
     "wan_to_dmz_administrative_service_allowed", "inbound_sensitive_service_allowed",
     "remote_service_probe", "smb_probe", "vnc_probe", "winrm_probe",
     "database_service_probe", "kubernetes_service_probe", "docker_daemon_probe",
     "web_admin_panel_probe", "legacy_cleartext_service_probe",
     "internal_lateral_scan", "distributed_scan", "multi_service_sweep",
     "tcp_syn_fin_anomaly", "tcp_syn_rst_anomaly", "tcp_null_scan", "tcp_xmas_scan",
     "tcp_fin_scan", "tcp_ack_scan", "repeated_tcp_reset_anomaly", "subnet_sweep",
     "network_scan_horizontal", "network_scan_vertical", "network_flood_dos",
     "spi_anomaly_burst", "repeated_blocked_scanner",
     "low_and_slow_horizontal_scan", "low_and_slow_vertical_scan"}

\* rule.evaluate(select_rule_events(...)): what one registered rule emits.
Evaluate(rule, es) ==
    CASE rule = "scan_followed_by_allowed_connection" -> ScanThenAllowed(es)
      [] rule = "critical_management_service_exposed" -> CriticalManagementExposed(es)
      [] rule = "spi_followed_by_allowed_connection" -> SpiThenAllowed(es)
      [] rule = "blocked_then_allowed_same_service" -> BlockedThenAllowed(es)
      [] rule = "dnat_sensitive_service_exposure" -> DnatSensitiveExposure(es)
      [] rule = "wan_to_lan_sensitive_service_allowed" -> WanToLanAllowed(es)
      [] rule = "multi_source_allowed_sensitive_service" -> MultiSourceAllowed(es)
      [] rule = "wan_to_dmz_administrative_service_allowed" -> WanToDmzAllowed(es)
      [] rule = "inbound_sensitive_service_allowed" -> InboundSensitive(es)
      [] rule = "remote_service_probe" -> RemoteServiceProbe(es)
      [] rule = "database_service_probe" -> ProfiledProbes(es, DATABASES)
      [] rule = "kubernetes_service_probe" ->
            ProfiledProbes(es, {"kubernetes_api_probe", "kubelet_probe"})
      [] rule = "legacy_cleartext_service_probe" -> ProfiledProbes(es, CLEARTEXT)
      [] rule \in {"smb_probe", "vnc_probe", "winrm_probe", "docker_daemon_probe",
                   "web_admin_panel_probe"} -> ProfiledProbes(es, {rule})
      [] rule = "internal_lateral_scan" -> InternalLateralScan(es)
      [] rule = "distributed_scan" -> DistributedScan(es)
      [] rule = "multi_service_sweep" -> MultiServiceSweep(es)
      [] rule = "tcp_syn_fin_anomaly" -> TcpSynFinAnomaly(es)
      [] rule = "tcp_syn_rst_anomaly" -> TcpSynRstAnomaly(es)
      [] rule = "tcp_null_scan" -> TcpNullScan(es)
      [] rule = "tcp_xmas_scan" -> TcpXmasScan(es)
      [] rule = "tcp_fin_scan" -> TcpFinScan(es)
      [] rule = "tcp_ack_scan" -> TcpAckScan(es)
      [] rule = "repeated_tcp_reset_anomaly" -> RepeatedTcpResetAnomaly(es)
      [] rule = "subnet_sweep" -> SubnetSweep(es)
      [] rule = "network_scan_horizontal" -> HorizontalScan(es)
      [] rule = "network_scan_vertical" -> VerticalScan(es) \cup FixedSourcePortScan(es)
      [] rule = "network_flood_dos" -> NetworkFlood(es)
      [] rule = "spi_anomaly_burst" -> SpiAnomalyBurst(es)
      [] rule = "repeated_blocked_scanner" -> RepeatedBlockedScanner(es)
      [] rule = "low_and_slow_horizontal_scan" -> LowAndSlowHorizontalScan(es)
      [] rule = "low_and_slow_vertical_scan" -> LowAndSlowVerticalScan(es)
=============================================================================
