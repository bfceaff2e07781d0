--------------------------- MODULE MCTriageBrief ----------------------------
(***************************************************************************)
(* Small instances of TriageBrief.        The rules keep their default     *)
(* windows, spans and ratios; minimum counts are cut to two.               *)
(***************************************************************************)
EXTENDS TriageBrief

h1 == 2561  h2 == 2562  h3 == 2817      \* private, two networks
p1 == 5121  p2 == 5122  gw == 5377      \* public

MCPrivate == {h1, h2, h3}
MCPublic  == {p1, p2, gw}
MCFixedPorts == {53, 80, 443}
MCLateralPorts == {22, 445, 3389}

Cut(n) == IF n > 2 THEN 2 ELSE n
Small(t) == [t EXCEPT !.events = Cut(@), !.targets = Cut(@), !.ports = Cut(@)]
Defaults == ProbeDefaults @@ ExposureDefaults @@ ScanDefaults
MCThreshold == [r \in DOMAIN Defaults |-> Small(Defaults[r])]

Tcp(src, dst, dport, flags, action) ==
    [hash |-> 1, naive |-> FALSE, status |-> "parsed",
     src |-> src, sport |-> 50000, dst |-> dst, dport |-> dport,
     tsrc |-> NoAddr, tdst |-> NoAddr, tdport |-> NoPort,
     proto |-> "TCP", flags |-> flags, null |-> FALSE, action |-> action,
     spi |-> "none", inz |-> {}, outz |-> {}, load |-> 0]
Syn(src, dst, dport, action) == Tcp(src, dst, dport, {"SYN"}, action)
Null(src, dst, dport) == [Tcp(src, dst, dport, {}, "block") EXCEPT !.null = TRUE]
FromWan(e, zone) == [e EXCEPT !.inz = {"wan"}, !.outz = zone]
Dnat(e, dst) == [e EXCEPT !.tdst = dst]
From(e, port) == [e EXCEPT !.sport = port]
Spi(e) == [e EXCEPT !.spi = "metadata"]
Udp(e) == [e EXCEPT !.proto = "UDP", !.flags = {}]

Anyone == [rules |-> {}, sources |-> {}, destinations |-> {}, pairs |-> {}]
Trusting == [Anyone EXCEPT !.sources = {p2}, !.pairs = {<<p1, h2>>},
                           !.rules = {"network_flood_dos"}]

Theme(shapes, gaps, size) ==
    [shapes |-> shapes, gaps |-> gaps, size |-> size, policies |-> {Anyone}]
Trusted(t) == [t EXCEPT !.policies = {Anyone, Trusting}]

Knock(port, action) == FromWan(From(Syn(p1, h1, port, action), 53), {"lan"})
Login(src, zone) == FromWan(Dnat(Syn(src, gw, 2375, "allow"), h1), zone)

Scans == Theme({Syn(p1, h1, 22, "block"), Syn(p1, h2, 22, "deny"),
                Syn(p1, h1, 3389, "drop"), Syn(p2, h1, 22, "reject")}, {10, 1000}, 4)
Knocks == Theme({Knock(22, "block"), Knock(445, "block"), Knock(22, "allow"),
                 Knock(80, "pass")}, {10}, 4)
\* The answers of h1 to a scan, and a connection to another service of it.
Answers == Theme({Syn(p1, h1, 21, "block"), Syn(p1, h2, 21, "block"),
                  From(Tcp(h1, p1, 50000, {"RST"}, "allow"), 21),
                  Syn(p1, h1, 8080, "accept")}, {10}, 4)
Exposures == Theme({Login(p1, {"lan"}), Login(p2, {}),
                    [Login(p1, {"lan"}) EXCEPT !.action = "block"],
                    FromWan(Syn(p1, h1, 22, "allow"), {"lan"})}, {10, 400}, 4)
Admin == Theme({FromWan(Syn(p1, h3, 8080, "allow"), {"dmz"}),
                FromWan(Syn(p2, h3, 22, "allow"), {"dmz"}),
                FromWan(Syn(p1, h3, 22, "accept"), {"other"})}, {10, -400}, 3)
Resets == Theme({Spi(From(Tcp(p1, h1, 40000, {"RST"}, "block"), 443)),
                 Spi(From(Tcp(p1, h1, 40001, {"RST", "ACK"}, "blocked by spi"), 443)),
                 Spi(Syn(p1, h1, 22, "block")), Syn(p1, h1, 22, "allow")}, {10}, 4)
Flags == Theme({Null(p1, h1, 80), Null(p1, h2, 81),
                Tcp(p1, h1, 80, {"FIN", "PSH", "URG"}, "block"),
                Tcp(p1, h1, 81, {"FIN", "PSH", "URG"}, "block")}, {10}, 4)
Odd == Theme({Tcp(p1, h1, 80, {"FIN"}, "block"), Tcp(p1, h1, 81, {"FIN"}, "block"),
              Tcp(p1, h1, 80, {"ACK"}, "block"), Tcp(p1, h1, 81, {"ACK"}, "block")},
             {10}, 4)
Broken == Theme({Tcp(p1, h1, 80, {"SYN", "FIN", "RST"}, "block"),
                 Tcp(p1, h2, 80, {"SYN", "FIN"}, "block"),
                 Tcp(p1, h1, 80, {"RST"}, "block"), Tcp(p1, h2, 81, {"RST"}, "block")},
                {10}, 4)
Lateral == Theme({Syn(h1, h2, 445, "block"), Syn(h1, h3, 445, "block"),
                  Syn(h1, h2, 9200, "allow"), Syn(h1, h3, 1433, "block")}, {10}, 4)
Floods == Theme({Udp(Syn(p1, h1, 53, "drop")), Udp(Syn(p2, h1, 53, "drop")),
                 [Syn(p1, h1, 22, "block") EXCEPT !.status = "failed"],
                 [Syn(p1, h1, 22, "block") EXCEPT !.naive = TRUE]}, {10, -5}, 3)
\* Two scanners of one network that pin their source port.
Sweep(src, port, action) == FromWan(From(Syn(src, h1, port, action), 443), {"lan"})
Sweeps == Theme({Sweep(p1, 22, "allow"), Sweep(p1, 9001, "block"),
                 Sweep(p2, 22, "block"), Sweep(p2, 9002, "block")}, {10}, 4)
\* One source at one service of several hosts, published and not, in bursts.
Reached(dst, flags) == FromWan(Tcp(p1, dst, 2375, flags, "allow"), {"lan"})
Bursty == Theme({Reached(h1, {"SYN"}), Reached(h2, {"SYN"}), Reached(h3, {"SYN", "ACK"})},
                {10, 290, 310}, 3)

\* One host reached directly and through translation.
Published == Theme({FromWan(Syn(p1, h1, 22, "allow"), {"lan"}),
                    Dnat(FromWan(Syn(p1, gw, 22, "allow"), {"lan"}), h2)}, {10}, 2)

MCThemes == {Trusted(Scans), Knocks, Answers, Trusted(Exposures), Admin, Resets, Flags,
             Odd, Broken, Lateral, Trusted(Floods), Sweeps, Bursty,
             Published}

\* A probe without a timestamp among others of its source.
Undated == Theme({Sweep(p1, 22, "block"), Sweep(p1, 9001, "block") @@ [t |-> NoTime]},
                 {10}, 2)
MCUndated == {Undated}

MCPublished == {Published}

MCMayFail == {"network_scan_vertical"}

MCCluster == [sources |-> 2, each |-> 2, total |-> 4, window |-> 60]
=============================================================================
