--------------------------- MODULE FirewallEvents ---------------------------
(***************************************************************************)
(* The canonical firewall event and the predicates every detector shares   *)
(* (src/agent/detection/detectors/scan_helpers.py, exposure_helpers.py,    *)
(* context_matching.py).                                                   *)
(*                                                                         *)
(* An address is a positive integer, NoAddr when the field is absent; 256  *)
(* consecutive integers are one /24.  Ports are the real port numbers,     *)
(* NoPort when absent.  A zone is the set of its recognised tokens, {} when *)
(* the field is absent and {"other"} for text with no recognised token.    *)
(* TCP flags are the set of tokens of agent.tcp_flags.                     *)
(*                                                                         *)
(* An event is a record                                                    *)
(*   id, hash, t, naive, status   identity, time, zone-less time, parsing  *)
(*   n                            rank in the (timestamp, event_id) order  *)
(*   src, sport, dst, dport       original flow                            *)
(*   tsrc, tdst, tdport           translated flow                          *)
(*   proto, flags, null           protocol, TCP flags, explicit NULL flags *)
(*   action, spi                  device action, where SPI is mentioned    *)
(*   inz, outz, load              zones, packets counted (0: none recorded)*)
(***************************************************************************)
EXTENDS Integers, FiniteSets, FiniteSetsExt

CONSTANTS Private, Public   \* usable private and usable global addresses

ASSUME AddressAssumption ==
    /\ Private \subseteq Nat \ {0} /\ Public \subseteq Nat \ {0}
    /\ Private \cap Public = {}

NoAddr == 0
NoPort == -1

BLOCKED_ACTIONS == {"block", "blocked", "deny", "denied", "drop", "dropped",
                    "reject", "rejected"}
ALLOWED_ACTIONS == {"allow", "allowed", "accept", "accepted", "pass", "passed"}

\* The service taxonomy: one name per recognised destination port.
ServiceOf(p) ==
    CASE p \in {1433, 1521, 3306, 5432} -> "database"
      [] p \in {2375, 2376}  -> "docker"
      [] p = 9200            -> "elasticsearch"
      [] p = 21              -> "ftp"
      [] p = 20              -> "ftp_data"
      [] p = 623             -> "ipmi"
      [] p \in {6443, 10250} -> "kubernetes"
      [] p = 389             -> "ldap"
      [] p = 11211           -> "memcached"
      [] p = 27017           -> "mongodb"
      [] p = 135             -> "msrpc"
      [] p = 3389            -> "rdp"
      [] p = 6379            -> "redis"
      [] p \in {139, 445}    -> "smb"
      [] p = 161             -> "snmp"
      [] p \in {22, 2022, 2222} -> "ssh"
      [] p = 23              -> "telnet"
      [] p \in 5900 .. 5905  -> "vnc"
      [] p \in {5985, 5986}  -> "winrm"
      [] OTHER               -> "none"

SENSITIVE_SERVICE_PORTS == {20, 21, 22, 23, 135, 139, 389, 445, 1433, 3306,
                            3389, 5432, 5900}
DMZ_ADMINISTRATIVE_PORTS == {8000, 8080, 8443, 8888, 9000, 9443, 10000}
CRITICAL_MANAGEMENT_PORTS == {161, 623, 2375, 5985, 6379, 9200, 10250, 11211,
                              27017}
EXPOSURE_SERVICE_PORTS == SENSITIVE_SERVICE_PORTS \cup CRITICAL_MANAGEMENT_PORTS

SensitiveService(p) == IF p \in EXPOSURE_SERVICE_PORTS THEN ServiceOf(p) ELSE "none"

AdministrativeService(p) ==
    IF SensitiveService(p) = "none" /\ p \in DMZ_ADMINISTRATIVE_PORTS
    THEN "web_admin" ELSE SensitiveService(p)

ServiceOrExactPort(p) ==
    IF ServiceOf(p) # "none" THEN <<ServiceOf(p), 0>>
    ELSE IF p \in 1 .. 65535 THEN <<"tcp", p>> ELSE <<"none", 0>>

-----------------------------------------------------------------------------
(* Actions, flags and SPI markers *)

IsBlocked(e) == e.action \in BLOCKED_ACTIONS
IsAllowed(e) == e.action \in ALLOWED_ACTIONS

\* The first detectors count three spellings of a block only.
IsNarrowBlocked(e) == e.action \in {"block", "deny", "drop"}

IsSyn(e) == e.proto = "TCP" /\ "SYN" \in e.flags /\ "ACK" \notin e.flags

IsInitialProbe(e) ==
    e.proto = "TCP" /\ "SYN" \in e.flags /\ e.flags \cap {"ACK", "RST", "FIN"} = {}

\* spi says which field mentions SPI: the parser metadata, another canonical
\* field, or the free text of the message only.
IsSpi(e, fallback) ==
    \/ e.spi \in {"metadata", "reason"}
    \/ e.action = "blocked by spi"
    \/ fallback /\ e.spi = "text"

IsSpiBlock(e, fallback) ==
    /\ IsSpi(e, fallback)
    /\ \/ IsBlocked(e)
       \/ e.action = "blocked by spi"
       \/ fallback /\ e.spi = "text"

\* Share of the events that satisfy P, compared with a percentage.
AtLeast(es, percent, P(_)) ==
    Cardinality({e \in es : P(e)}) * 100 >= percent * Cardinality(es)

-----------------------------------------------------------------------------
(* Addresses, translation, zones and direction *)

Network(a) == a \div 256

EffectiveDst(e)  == IF e.tdst # NoAddr THEN e.tdst ELSE e.dst
EffectivePort(e) == IF e.tdport # NoPort THEN e.tdport ELSE e.dport

IsUsable(a) == a \in Private \cup Public

Translated(e) == e.tdst # NoAddr \/ e.tdport # NoPort

PrivatelyTranslated(e) == e.tdst \in Private

\* Private to private traffic is never inbound from outside.
Internal(e) == e.src \in Private /\ EffectiveDst(e) \in Private

ExternalInbound(e) ==
    /\ ~Internal(e)
    /\ \/ "wan" \in e.inz
       \/ e.src \in Public /\ EffectiveDst(e) \in Private
       \/ e.dst \in Public /\ PrivatelyTranslated(e)

\* derive_flow_direction(event) = "inbound".
FlowsInbound(e) ==
    LET inner(z) == z \cap {"lan", "dmz"} # {}
    IN  \/ "wan" \in e.inz /\ inner(e.outz)
        \/ "wan" \in e.inz /\ ~("wan" \in e.outz /\ inner(e.inz))
        \/ /\ "wan" \notin e.inz \cup e.outz
           /\ e.src # NoAddr /\ e.src \notin Private /\ EffectiveDst(e) \in Private

-----------------------------------------------------------------------------
(* Relatedness of a context event to an incident event *)

Addrs(S) == S \ {NoAddr}
Ports(S) == S \ {NoPort}

LikelyServicePort(p) == p < 1024 \/ ServiceOf(p) # "none"

Related(ref, cand) ==
    LET rs == Addrs({ref.src, ref.tsrc})    rd == Addrs({ref.dst, ref.tdst})
        cs == Addrs({cand.src, cand.tsrc})  cd == Addrs({cand.dst, cand.tdst})
        rsp == Ports({ref.sport})   rdp == Ports({ref.dport, ref.tdport})
        csp == Ports({cand.sport})  cdp == Ports({cand.dport, cand.tdport})
        meet(A, B) == A \cap B # {}
        forward == meet(rs, cs) /\ meet(rd, cd)
        reverse == meet(rs, cd) /\ meet(rd, cs)
        serving(P) == {p \in P : LikelyServicePort(p)}
        services(P) == {ServiceOf(p) : p \in P} \ {"none"}
    IN  /\ ref.proto = "UNKNOWN" \/ cand.proto = "UNKNOWN" \/ ref.proto = cand.proto
        /\ forward \/ reverse
        /\ \/ rsp \cup rdp \cup csp \cup cdp = {}
           \/ meet(rsp, csp) /\ meet(rdp, cdp)
           \/ meet(rsp, cdp) /\ meet(rdp, csp)
           \/ meet(services(rsp \cup rdp), services(csp \cup cdp))
           \/ reverse /\ (meet(serving(rdp), csp) \/ meet(serving(rsp), cdp))
=============================================================================
