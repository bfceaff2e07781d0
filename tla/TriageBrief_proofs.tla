------------------------- MODULE TriageBrief_proofs --------------------------
(***************************************************************************)
(* For every analysis, every gap and every length of the sections: the     *)
(* brief represents what was routed to it, shows what is urgent, lists     *)
(* the assets that were exposed, and what is left out of it was blocked    *)
(* and is accounted for.                                                   *)
(*                                                                         *)
(* The rows, the digests and the reports are functions of the incidents    *)
(* once these are known; the invariant says so.  What the functions give   *)
(* follows from what is known of the incidents, above all that a signal,   *)
(* and so the key it is ordered by, belongs to one of them.                *)
(***************************************************************************)
EXTENDS TriageBrief, DetectionPipeline_proofs

-----------------------------------------------------------------------------
(***************************************************************************)
(* The brief between two steps.                                            *)
(***************************************************************************)

\* What is known of the incidents of an analysis.
Analysed == Done /\ EventsOK(eligible) /\ Active(signals, eligible)
                 /\ Correlated(incidents, signals, eligible)

\* An incident is known by its anchor, and by the key it is ordered by.
LEMMA IncidentsApart ==
  ASSUME Analysed, NEW i \in incidents, NEW j \in incidents
  PROVE  /\ i.anchor = j.anchor => i = j
         /\ KeeperKey(i) = KeeperKey(j) => i = j
<1>1. PICK s \in SignalsOf(signals, i.signals) : i.anchor = SigId(s) /\ i.order = PrecedenceKey(s)
  <2>1. TellsOf(i, SignalsOf(signals, i.signals), eligible)
    BY DEF Analysed, Correlated, Told
  <2> QED
    BY <2>1 DEF TellsOf
<1>2. PICK r \in SignalsOf(signals, j.signals) : j.anchor = SigId(r) /\ j.order = PrecedenceKey(r)
  <2>1. TellsOf(j, SignalsOf(signals, j.signals), eligible)
    BY DEF Analysed, Correlated, Told
  <2> QED
    BY <2>1 DEF TellsOf
<1>3. s \in signals /\ r \in signals /\ i.anchor \in i.signals /\ j.anchor \in j.signals
  BY <1>1, <1>2 DEF SignalsOf
<1>4. i.anchor = j.anchor => i = j
  BY <1>3 DEF Analysed, Correlated
<1>5. ASSUME KeeperKey(i) = KeeperKey(j) PROVE i = j
  <2>1. /\ \A k \in 1 .. 7 : KeeperKey(i)[k + 2] = i.order[k]
        /\ \A k \in 1 .. 7 : KeeperKey(j)[k + 2] = j.order[k]
        /\ i.order \in [1 .. 7 -> Int] /\ j.order \in [1 .. 7 -> Int]
    BY KeeperKeyType DEF Analysed, Correlated
  <2>2. i.order = j.order
    <3>1. \A k \in 1 .. 7 : i.order[k] = j.order[k]
      BY <1>5, <2>1
    <3> QED
      BY <2>1, <3>1
  <2>3. s = r
    BY <1>1, <1>2, <1>3, <2>2 DEF Analysed, Active
  <2> QED
    BY <1>1, <1>2, <1>4, <2>3
<1> QED
  BY <1>4, <1>5

\* The events and the numbers of an incident.
LEMMA IncidentFacts ==
  ASSUME Analysed, NEW i \in incidents
  PROVE  /\ KeeperKey(i) \in [1 .. 9 -> Int]
         /\ i.first \in Int /\ i.last \in Int /\ i.conf \in Int
         /\ Own(i) \in SUBSET eligible /\ Own(i) # {} /\ IsFiniteSet(Own(i))
         /\ i.ids = {e.id : e \in Own(i)}
<1>1. TellsOf(i, SignalsOf(signals, i.signals), eligible)
  BY DEF Analysed, Correlated, Told
<1> DEFINE R == SignalsOf(signals, i.signals)
<1>2. R \in SUBSET signals /\ R # {}
  BY <1>1 DEF SignalsOf, TellsOf
<1> HIDE DEF R
<1>3. i.first \in Int /\ i.last \in Int /\ i.conf \in Int /\ i.ids = Union(R)
  <2>1. Min(Firsts(R)) \in Int /\ Max(Lasts(R)) \in Int
    BY <1>2, SignalNumbers DEF Analysed
  <2> QED
    BY <1>1, <2>1 DEF TellsOf, R
<1>4. KeeperKey(i) \in [1 .. 9 -> Int]
  BY KeeperKeyType DEF Analysed, Correlated
<1>5. i.ids \in SUBSET Ids(eligible) /\ i.ids # {}
  BY <1>2, <1>3 DEF Analysed, Active, Union
<1>6. Own(i) \in SUBSET eligible /\ i.ids = {e.id : e \in Own(i)}
  BY <1>5 DEF Own, EventsOf, Ids
<1>7. Own(i) # {}
  BY <1>5, <1>6
<1>8. IsFiniteSet(Own(i))
  BY <1>6, FS_Subset DEF Analysed, EventsOK
<1> QED
  BY <1>3, <1>4, <1>6, <1>7, <1>8

\* The route of an incident.
RouteOf(i) == Route(i, Own(i), {c \in Range(candidates) : c.id \in i.context})

\* The digests, by type.
Digested ==
    {{i.anchor : i \in {j \in Routed("digest") : j.type = t}}
        : t \in {i.type : i \in Routed("digest")}}

\* What has a report, once the reports are filed.
Reported == {i.anchor : i \in Eligible \cup Routed("deterministic_report")}

\* What holds between two steps of triage: the routes, the digests, the rows and
\* the reports are those of the incidents, and the incidents do not change.
BriefInvariant ==
    /\ PipelineInvariant
    /\ brief # "none" =>
        /\ Done /\ \A i \in incidents : routes[i.anchor] = RouteOf(i)
        /\ digests = Digested
    /\ Selected => rows = BriefRowsOf(Eligible, eligible, candidates)
    /\ brief = "filed" => filed = Reported

\* Triage begins when the incidents are known.
LEMMA InvariantAnalysed == BriefInvariant /\ brief # "none" => Analysed
BY DEF BriefInvariant, PipelineInvariant, Analysed

\* Routing decides for each incident by itself.
LEMMA RouteKeeps == BriefInvariant /\ RouteIncidents => BriefInvariant'
<1> SUFFICES ASSUME BriefInvariant, RouteIncidents PROVE BriefInvariant'
  OBVIOUS
<1>1. Analysed
  BY DEF BriefInvariant, PipelineInvariant, Analysed, RouteIncidents, Done
<1>2. /\ brief' = "routed" /\ Done /\ UNCHANGED vars
      /\ UNCHANGED <<rows, filed>>
  BY DEF RouteIncidents, Done
<1>3. UNCHANGED <<stage, incidents, eligible, candidates>>
  BY <1>2 DEF vars
<1>4. ASSUME NEW i \in incidents PROVE routes'[i.anchor] = RouteOf(i)
  <2> DEFINE A == {j.anchor : j \in incidents}
             found(a) == CHOOSE j \in incidents : j.anchor = a
             route(j) == Route(j, Own(j), {c \in Range(candidates) : c.id \in j.context})
  <2>1. routes' = [a \in A |-> route(found(a))]
    BY DEF RouteIncidents
  <2>2. found(i.anchor) = i
    BY <1>1, IncidentsApart
  <2>3. i.anchor \in A
    OBVIOUS
  <2>4. route(i) = RouteOf(i)
    BY DEF RouteOf
  <2> HIDE DEF route, found, A
  <2> QED
    BY <2>1, <2>2, <2>3, <2>4
<1>5. \A i : RouteOf(i)' = RouteOf(i)
  BY <1>3 DEF RouteOf, Own
<1>6. Done' /\ \A i \in incidents' : routes'[i.anchor] = RouteOf(i)'
  BY <1>2, <1>3, <1>4, <1>5 DEF Done
<1>7. digests' = Digested'
  <2>1. Routed("digest")' = {i \in incidents : routes'[i.anchor] = "digest"}
    BY <1>3 DEF Routed
  <2> DEFINE low == {i \in incidents : routes'[i.anchor] = "digest"}
  <2>2. digests' = {{i.anchor : i \in {j \in low : j.type = t}} : t \in {i.type : i \in low}}
    BY DEF RouteIncidents
  <2> HIDE DEF low
  <2> QED
    BY <2>1, <2>2 DEF low, Digested
<1>8. PipelineInvariant'
  BY <1>2 DEF BriefInvariant, vars, PipelineInvariant, Unknown, Done
<1>9. ~Selected' /\ brief' # "filed"
  BY <1>2 DEF Selected
<1> QED
  BY <1>6, <1>7, <1>8, <1>9 DEF BriefInvariant

\* The invariant of _process_events and _persist_analysis: it holds throughout.
THEOREM BriefInvariance == BriefSpec => []BriefInvariant
<1>1. BriefInit => BriefInvariant
  BY PipelineInit DEF BriefInit, BriefInvariant, Selected
<1>2. BriefInvariant /\ [BriefNext]_allVars => BriefInvariant'
  <2> SUFFICES ASSUME BriefInvariant, [BriefNext]_allVars PROVE BriefInvariant'
    OBVIOUS
  <2>1. CASE Next /\ UNCHANGED briefVars
    <3>1. stage # "done" /\ brief = "none"
      BY <2>1 DEF Next, Receive, Select, RunRules, Suppress, Correlate, BriefInvariant, Done
    <3>2. PipelineInvariant'
      BY <2>1, ReceiveKeeps, SelectKeeps, RunRulesKeeps, SuppressKeeps, CorrelateKeeps
         DEF Next, BriefInvariant
    <3>3. brief' = "none"
      BY <2>1, <3>1 DEF briefVars
    <3> QED
      BY <3>2, <3>3 DEF BriefInvariant, Selected
  <2>2. CASE RouteIncidents
    BY <2>2, RouteKeeps
  <2>3. ASSUME UNCHANGED vars
        PROVE  /\ PipelineInvariant' /\ (Done' <=> Done) /\ incidents' = incidents
               /\ eligible' = eligible /\ candidates' = candidates
               /\ \A i : RouteOf(i)' = RouteOf(i)
    BY <2>3 DEF BriefInvariant, vars, PipelineInvariant, Unknown, Done, RouteOf, Own
  <2>4. ASSUME UNCHANGED vars, routes' = routes
        PROVE  Eligible' = Eligible /\ Digested' = Digested /\ Reported' = Reported
    BY <2>3, <2>4 DEF Eligible, Routed, Digested, Reported
  <2>5. CASE SelectRows
    <3>1. UNCHANGED vars /\ UNCHANGED <<routes, filed, digests>> /\ brief = "routed"
      BY <2>5 DEF SelectRows
    <3>2. \/ brief' = "raised"
          \/ brief' = "selected" /\ rows' = BriefRowsOf(Eligible, eligible, candidates)
      BY <2>5 DEF SelectRows
    <3> QED
      BY <2>3, <2>4, <3>1, <3>2 DEF BriefInvariant, Selected
  <2>6. CASE FileReports
    <3>1. UNCHANGED vars /\ UNCHANGED <<routes, rows, digests>> /\ brief = "selected"
      BY <2>6 DEF FileReports
    <3>2. \/ brief' = "cancelled"
          \/ brief' = "filed" /\ filed' = Reported
      BY <2>6 DEF FileReports, Reported
    <3> QED
      BY <2>3, <2>4, <3>1, <3>2 DEF BriefInvariant, Selected
  <2>7. CASE UNCHANGED allVars
    <3>1. UNCHANGED vars /\ UNCHANGED <<brief, routes, rows, filed, digests>>
      BY <2>7 DEF allVars, briefVars
    <3> QED
      BY <2>3, <2>4, <3>1 DEF BriefInvariant, Selected
  <2> QED
    BY <2>1, <2>2, <2>5, <2>6, <2>7 DEF BriefNext
<1> QED
  BY <1>1, <1>2, PTL DEF BriefSpec

-----------------------------------------------------------------------------
(***************************************************************************)
(* Bursts.                                                                 *)
(***************************************************************************)

\* b are the bursts of the first k of seq: each element is in one, and what is
\* in a later burst begins after the gap.
Bursted(b, seq, k, T) ==
    /\ b \in Seq(Seq(T))
    /\ \A j \in DOMAIN b : b[j] # <<>> /\ \A x \in Range(b[j]) : \E m \in 1 .. k : x = seq[m]
    /\ \A m \in 1 .. k : \E j \in DOMAIN b : seq[m] \in Range(b[j])
    /\ \A j, l \in DOMAIN b : j # l => Range(b[j]) \cap Range(b[l]) = {}
    /\ \A j, l \in DOMAIN b : j < l =>
         \A x \in Range(b[j]), y \in Range(b[l]) : y.first - x.last > GroupGap

\* One more element joins the last burst, or begins another one.
LEMMA BurstStep ==
  ASSUME NEW T, \A x \in T : x.first \in Int /\ x.last \in Int,
         NEW seq, NEW k \in Nat, \A m \in 1 .. k + 1 : seq[m] \in T,
         \A m \in 1 .. k : seq[m] # seq[k + 1] /\ seq[m].first <= seq[k + 1].first,
         NEW b, Bursted(b, seq, k, T),
         NEW d, d = JoinBurst(b, seq[k + 1])
  PROVE  Bursted(d, seq, k + 1, T)
<1> DEFINE x == seq[k + 1]
           n == Len(b)
           lasts == {j.last : j \in Range(Last(b))}
           joins == b # <<>> /\ x.first <= Max(lasts) + GroupGap
<1> USE BriefAssumption
<1>1. /\ b \in Seq(Seq(T)) /\ DOMAIN b = 1 .. n /\ n \in Nat
      /\ \A j \in DOMAIN b : b[j] \in Seq(T) /\ Range(b[j]) \in SUBSET T
  BY DEF Bursted, Range
<1>2. x \in T /\ x.first \in Int /\ k + 1 \in 1 .. k + 1
  OBVIOUS
<1>3. /\ joins => d = [b EXCEPT ![n] = Append(b[n], x)]
      /\ ~joins => d = Append(b, <<x>>)
  BY DEF JoinBurst
<1>4. \A j \in DOMAIN b : \A y \in Range(b[j]) : y # x /\ y.first <= x.first
  <2> SUFFICES ASSUME NEW j \in DOMAIN b, NEW y \in Range(b[j])
               PROVE  y # x /\ y.first <= x.first
    OBVIOUS
  <2>1. PICK m \in 1 .. k : y = seq[m]
    BY DEF Bursted
  <2> QED
    BY <2>1
\* What was there ends before x, but for the last burst.
<1>5. ASSUME NEW j \in DOMAIN b, j # n, NEW y \in Range(b[j])
      PROVE  x.first - y.last > GroupGap
  <2>1. n \in DOMAIN b /\ j < n
    BY <1>1, <1>5
  <2>2. PICK z : z \in Range(b[n])
    <3> DEFINE B == b[n]
    <3>1. B \in Seq(T) /\ B # <<>>
      BY <2>1, <1>1 DEF Bursted
    <3> HIDE DEF B
    <3>2. B[1] \in Range(B)
      BY <3>1 DEF Range
    <3> QED
      BY <3>2 DEF B
  <2>3. z.first - y.last > GroupGap /\ z.first <= x.first
    BY <2>1, <2>2, <1>4 DEF Bursted
  <2>4. z.first \in Int /\ y.last \in Int
    BY <2>1, <2>2, <1>1
  <2> QED
    BY <2>3, <2>4, <1>2
<1>6. ASSUME b # <<>>, ~joins, NEW y \in Range(b[n])
      PROVE  x.first - y.last > GroupGap
  <2>1. n \in DOMAIN b /\ Last(b) = b[n]
    BY <1>1, <1>6 DEF Last
  <2>2. lasts \in SUBSET Int /\ y.last \in lasts
    BY <2>1, <1>1, <1>6
  <2>3. IsFiniteSet(lasts)
    <3>1. b[n] \in Seq(T)
      BY <2>1, <1>1
    <3> DEFINE B == b[n]
    <3>2. DOMAIN B = 1 .. Len(B) /\ Len(B) \in Nat
      BY <3>1
    <3>3. lasts = {B[m].last : m \in DOMAIN B}
      BY <2>1 DEF Range
    <3> HIDE DEF B
    <3> DEFINE f == [m \in DOMAIN B |-> B[m].last]
    <3>4. {f[m] : m \in DOMAIN B} = {B[m].last : m \in DOMAIN B}
      OBVIOUS
    <3> HIDE DEF f
    <3> DEFINE D == DOMAIN B
    <3>5. IsFiniteSet(D)
      BY <3>2, FS_Interval
    <3> HIDE DEF D
    <3>6. IsFiniteSet({f[m] : m \in D})
      BY <3>5, FiniteImage
    <3> QED
      BY <3>3, <3>4, <3>6 DEF D
  <2> HIDE DEF lasts
  <2>4. Max(lasts) \in lasts /\ y.last <= Max(lasts)
    BY <2>2, <2>3, MinMax
  <2>5. Max(lasts) \in Int /\ y.last \in Int
    BY <2>2, <2>4
  <2>6. ~(x.first <= Max(lasts) + GroupGap)
    BY <1>6
  <2> HIDE DEF joins
  <2> QED
    BY <2>4, <2>5, <2>6, <1>2
<1> HIDE DEF joins, lasts
<1>7. CASE ~joins
  <2>1. /\ d \in Seq(Seq(T)) /\ DOMAIN d = 1 .. n + 1
        /\ \A j \in DOMAIN b : d[j] = b[j]
        /\ d[n + 1] = <<x>>
    <3> DEFINE X == <<x>>
    <3>1. X \in Seq(T) /\ d = Append(b, X)
      BY <1>2, <1>3, <1>7
    <3> HIDE DEF X
    <3>2. /\ Append(b, X) \in Seq(Seq(T)) /\ DOMAIN Append(b, X) = 1 .. n + 1
          /\ \A j \in DOMAIN b : Append(b, X)[j] = b[j]
          /\ Append(b, X)[n + 1] = X
      BY <3>1, <1>1, Appended
    <3> QED
      BY <3>1, <3>2 DEF X
  <2>2. Range(d[n + 1]) = {x} /\ d[n + 1] # <<>>
    BY <2>1 DEF Range
  <2>3. \A j \in DOMAIN d : j \in DOMAIN b \/ j = n + 1
    BY <2>1, <1>1
  <2>4. \A j \in DOMAIN b : j \in DOMAIN d /\ d[j] = b[j] /\ j < n + 1
    BY <2>1, <1>1
  <2>5. n + 1 \in DOMAIN d
    BY <2>1, <1>1
  <2>6. \A j \in DOMAIN b : \A y \in Range(b[j]) : x.first - y.last > GroupGap
    <3> TAKE j \in DOMAIN b
    <3>1. b # <<>>
      OBVIOUS
    <3> QED
      BY <3>1, <1>5, <1>6, <1>7
  <2>7. ASSUME NEW j \in DOMAIN d
        PROVE  d[j] # <<>> /\ \A y \in Range(d[j]) : \E m \in 1 .. k + 1 : y = seq[m]
    <3>1. CASE j \in DOMAIN b
      <4>1. d[j] = b[j]
        BY <3>1, <2>1
      <4>2. \A m \in 1 .. k : m \in 1 .. k + 1
        OBVIOUS
      <4> QED
        BY <3>1, <4>1, <4>2 DEF Bursted
    <3>2. CASE j = n + 1
      BY <3>2, <2>2, <1>2
    <3> QED
      BY <3>1, <3>2, <2>3
  <2>8. ASSUME NEW m \in 1 .. k + 1 PROVE \E j \in DOMAIN d : seq[m] \in Range(d[j])
    <3>1. CASE m = k + 1
      BY <3>1, <2>2, <2>5
    <3>2. CASE m # k + 1
      <4>1. m \in 1 .. k
        BY <3>2
      <4>2. PICK j \in DOMAIN b : seq[m] \in Range(b[j])
        BY <4>1 DEF Bursted
      <4> QED
        BY <4>2, <2>4
    <3> QED
      BY <3>1, <3>2
  <2>9. ASSUME NEW j \in DOMAIN d, NEW l \in DOMAIN d, j # l
        PROVE  Range(d[j]) \cap Range(d[l]) = {}
    <3>1. CASE j \in DOMAIN b /\ l \in DOMAIN b
      BY <3>1, <2>4, <2>9 DEF Bursted
    <3>2. CASE j = n + 1 \/ l = n + 1
      BY <3>2, <2>2, <2>3, <2>4, <2>9, <1>4
    <3> QED
      BY <3>1, <3>2, <2>3
  <2>10. ASSUME NEW j \in DOMAIN d, NEW l \in DOMAIN d, j < l,
                NEW y \in Range(d[j]), NEW z \in Range(d[l])
         PROVE  z.first - y.last > GroupGap
    <3>1. j \in DOMAIN b
      BY <2>1, <2>10, <1>1
    <3>2. CASE l \in DOMAIN b
      BY <3>1, <3>2, <2>4, <2>10 DEF Bursted
    <3>3. CASE l = n + 1
      BY <3>1, <3>3, <2>2, <2>4, <2>6, <2>10
    <3> QED
      BY <3>2, <3>3, <2>3
  <2> QED
    BY <2>1, <2>7, <2>8, <2>9, <2>10 DEF Bursted
<1>8. CASE joins
  <2>1. n \in DOMAIN b
    BY <1>1, <1>8 DEF joins
  <2>2. b[n] \in Seq(T)
    BY <1>1, <2>1
  <2> DEFINE B == b[n]
             A == Append(B, x)
  <2>3. B \in Seq(T)
    BY <2>2
  <2> HIDE DEF B
  <2>4. A \in Seq(T) /\ A # <<>> /\ Range(A) = Range(B) \cup {x}
    BY <2>3, <1>2, Appended
  <2> HIDE DEF A
  <2>5. d = [b EXCEPT ![n] = A]
    BY <1>3, <1>8 DEF A, B
  <2>6. /\ d \in Seq(Seq(T)) /\ DOMAIN d = DOMAIN b
        /\ \A j \in DOMAIN b : j # n => d[j] = b[j]
        /\ d[n] = A
    BY <2>1, <2>4, <2>5, <1>1, Replaced
  <2>7. \A j \in DOMAIN d : Range(d[j]) = IF j = n THEN Range(b[j]) \cup {x} ELSE Range(b[j])
    BY <2>4, <2>6 DEF B
  <2>8. ASSUME NEW j \in DOMAIN d
        PROVE  d[j] # <<>> /\ \A y \in Range(d[j]) : \E m \in 1 .. k + 1 : y = seq[m]
    <3>1. d[j] # <<>>
      BY <2>4, <2>6 DEF Bursted
    <3>2. ASSUME NEW y \in Range(d[j]) PROVE \E m \in 1 .. k + 1 : y = seq[m]
      <4>1. y = x \/ y \in Range(b[j])
        BY <2>7, <3>2
      <4>2. CASE y = x
        BY <4>2, <1>2
      <4>3. CASE y \in Range(b[j])
        <5>1. PICK m \in 1 .. k : y = seq[m]
          BY <4>3, <2>6 DEF Bursted
        <5>2. m \in 1 .. k + 1
          OBVIOUS
        <5> QED
          BY <5>1, <5>2
      <4> QED
        BY <4>1, <4>2, <4>3
    <3> QED
      BY <3>1, <3>2
  <2>9. ASSUME NEW m \in 1 .. k + 1 PROVE \E j \in DOMAIN d : seq[m] \in Range(d[j])
    <3>1. CASE m = k + 1
      BY <3>1, <2>1, <2>6, <2>7
    <3>2. CASE m # k + 1
      <4>1. m \in 1 .. k
        BY <3>2
      <4>2. PICK j \in DOMAIN b : seq[m] \in Range(b[j])
        BY <4>1 DEF Bursted
      <4> QED
        BY <4>2, <2>6, <2>7
    <3> QED
      BY <3>1, <3>2
  <2>10. ASSUME NEW j \in DOMAIN d, NEW l \in DOMAIN d, j # l
         PROVE  Range(d[j]) \cap Range(d[l]) = {}
    <3>1. Range(b[j]) \cap Range(b[l]) = {} /\ x \notin Range(b[j]) /\ x \notin Range(b[l])
      BY <2>6, <2>10, <1>4 DEF Bursted
    <3>2. CASE j = n
      BY <3>1, <3>2, <2>7, <2>10
    <3>3. CASE l = n
      BY <3>1, <3>3, <2>7, <2>10
    <3>4. CASE j # n /\ l # n
      BY <3>1, <3>4, <2>7
    <3> QED
      BY <3>2, <3>3, <3>4
  <2>11. ASSUME NEW j \in DOMAIN d, NEW l \in DOMAIN d, j < l,
                NEW y \in Range(d[j]), NEW z \in Range(d[l])
         PROVE  z.first - y.last > GroupGap
    <3>1. j \in DOMAIN b /\ l \in DOMAIN b /\ j # n
      BY <2>6, <2>11, <1>1
    <3>2. y \in Range(b[j]) /\ (z = x \/ z \in Range(b[l]))
      BY <3>1, <2>7, <2>11
    <3>3. CASE z = x
      BY <3>1, <3>2, <3>3, <1>5
    <3>4. CASE z \in Range(b[l])
      BY <3>1, <3>2, <3>4, <2>11 DEF Bursted
    <3> QED
      BY <3>2, <3>3, <3>4
  <2> QED
    BY <2>6, <2>8, <2>9, <2>10, <2>11 DEF Bursted
<1> QED
  BY <1>7, <1>8

\* S is finite, and key orders it by the time its elements begin.
OrderedByTime(S, n, key) ==
    /\ IsFiniteSet(S) /\ n \in Nat /\ key \in [S -> [1 .. n + 1 -> Int]]
    /\ \A x \in S : x.first \in Int /\ x.last \in Int /\ key[x][1] = x.first
    /\ \A x, y \in S : key[x] = key[y] => x = y

\* b divides S into bursts.
DividedInBursts(b, S) ==
    /\ b \in Seq(Seq(S))
    /\ \A j \in DOMAIN b : Range(b[j]) # {} /\ Range(b[j]) \in SUBSET S
    /\ \A x \in S : \E j \in DOMAIN b : x \in Range(b[j])
    /\ \A j, l \in DOMAIN b : j # l => Range(b[j]) \cap Range(b[l]) = {}
    /\ \A j, l \in DOMAIN b : j < l =>
         \A x \in Range(b[j]), y \in Range(b[l]) : y.first - x.last > GroupGap

\* The bursts of a set that is sorted by the time its elements begin.
LEMMA BurstShape ==
  ASSUME NEW S, NEW n, NEW key, OrderedByTime(S, n, key)
  PROVE  DividedInBursts(InBursts(InOrder(S, key)), S)
<1> DEFINE q == InOrder(S, key)
           N == n + 1
           c == Len(q)
           b == InBursts(q)
<1>1. N \in Nat /\ key \in [S -> [1 .. N -> Int]] /\ n \in Nat /\ IsFiniteSet(S)
  BY DEF OrderedByTime
<1>a. /\ \A x \in S : x.first \in Int /\ x.last \in Int /\ key[x][1] = x.first
      /\ \A x, y \in S : key[x] = key[y] => x = y
  BY DEF OrderedByTime
<1> HIDE DEF N, q, c, b
<1>2. /\ q \in Seq(S)
      /\ \A x \in S : \E i \in DOMAIN q : q[i] = x
      /\ \A i, j \in DOMAIN q : i < j => Precedes(key[q[i]], key[q[j]])
  BY <1>1, <1>a, InOrderLists DEF q
<1>3. c \in Nat /\ DOMAIN q = 1 .. c /\ \A i \in 1 .. c : q[i] \in S
  BY <1>2 DEF c
<1>4. ASSUME NEW i \in 1 .. c, NEW j \in 1 .. c, i < j
      PROVE  q[i] # q[j] /\ q[i].first <= q[j].first
  <2>1. /\ Precedes(key[q[i]], key[q[j]])
        /\ key[q[i]] \in [1 .. N -> Int] /\ key[q[j]] \in [1 .. N -> Int]
    BY <1>1, <1>2, <1>3, <1>4
  <2>2. q[i] # q[j]
    BY <2>1, <1>1, PrecedesOrders
  <2>3. PICK m \in DOMAIN key[q[i]] : /\ \A l \in 1 .. m - 1 : key[q[i]][l] = key[q[j]][l]
                                      /\ key[q[i]][m] < key[q[j]][m]
    BY <2>1 DEF Precedes
  <2>4. m \in 1 .. N
    BY <2>1, <2>3
  <2>5. key[q[i]][1] <= key[q[j]][1]
    <3>1. CASE m = 1
      <4>1. key[q[i]][1] \in Int /\ key[q[j]][1] \in Int
        BY <2>1, <2>4, <3>1
      <4> QED
        BY <4>1, <2>3, <3>1
    <3>2. CASE m # 1
      <4>1. 1 \in 1 .. m - 1 /\ 1 \in 1 .. N
        BY <2>4, <3>2, <1>1
      <4>2. key[q[i]][1] = key[q[j]][1] /\ key[q[i]][1] \in Int
        BY <4>1, <2>1, <2>3
      <4> QED
        BY <4>2
    <3> QED
      BY <3>1, <3>2
  <2> QED
    BY <2>2, <2>5, <1>3, <1>a
<1>5. PICK f : /\ f[0] = <<>> /\ f[c] = InBursts(q)
               /\ \A k \in 1 .. c : f[k] = JoinBurst(f[k - 1], q[k])
  BY <1>3, BurstFold
<1> DEFINE P == {k \in Nat : k <= c => Bursted(f[k], q, k, S)}
<1>6. 0 \in P
  <2>1. <<>> \in Seq(Seq(S)) /\ DOMAIN <<>> = {} /\ 1 .. 0 = {}
    OBVIOUS
  <2>2. Bursted(<<>>, q, 0, S)
    BY <2>1 DEF Bursted
  <2> QED
    BY <2>2, <1>5
<1>7. ASSUME NEW k \in Nat, k \in P PROVE k + 1 \in P
  <2> SUFFICES ASSUME k + 1 <= c PROVE Bursted(f[k + 1], q, k + 1, S)
    OBVIOUS
  <2>1. Bursted(f[k], q, k, S) /\ k + 1 \in 1 .. c /\ (k + 1) - 1 = k
    BY <1>7, <1>3
  <2>2. f[k + 1] = JoinBurst(f[k], q[k + 1])
    BY <2>1, <1>5
  <2>3. \A m \in 1 .. k + 1 : m \in 1 .. c /\ q[m] \in S
    BY <2>1, <1>3
  <2>4. \A m \in 1 .. k : q[m] # q[k + 1] /\ q[m].first <= q[k + 1].first
    <3>1. \A m \in 1 .. k : m \in 1 .. c /\ m < k + 1
      BY <2>1, <1>3
    <3> QED
      BY <3>1, <2>1, <1>4
  <2> QED
    BY <2>1, <2>2, <2>3, <2>4, <1>a, BurstStep
<1>8. c \in P
  <2> HIDE DEF P
  <2> QED
    BY <1>3, <1>6, <1>7, Inductive
<1>9. Bursted(b, q, c, S)
  BY <1>3, <1>5, <1>8 DEF b
<1>10. \A j \in DOMAIN b : b[j] \in Seq(S)
  BY <1>9 DEF Bursted
<1>11. \A j \in DOMAIN b : Range(b[j]) # {} /\ Range(b[j]) \in SUBSET S
  <2> TAKE j \in DOMAIN b
  <2>1. b[j] # <<>> /\ b[j] \in Seq(S)
    BY <1>9 DEF Bursted
  <2> DEFINE B == b[j]
  <2>2. B \in Seq(S) /\ B # <<>>
    BY <2>1
  <2> HIDE DEF B
  <2>3. Range(B) \in SUBSET S /\ B[1] \in Range(B)
    BY <2>2 DEF Range
  <2> QED
    BY <2>3 DEF B
<1>12. \A x \in S : \E j \in DOMAIN b : x \in Range(b[j])
  <2> TAKE x \in S
  <2>1. PICK m \in 1 .. c : x = q[m]
    BY <1>2, <1>3
  <2> QED
    BY <2>1, <1>9 DEF Bursted
<1> QED
  BY <1>9, <1>11, <1>12 DEF Bursted, DividedInBursts, b, q

-----------------------------------------------------------------------------
(***************************************************************************)
(* What leaves the brief.                                                  *)
(***************************************************************************)

\* What a route says of the events of an incident: what is not triaged one by one
\* was not allowed, and what is reported or digested was blocked.
LEMMA RouteFacts ==
  ASSUME NEW i, NEW W, NEW related
  PROVE  /\ Route(i, W, related) \in {"individual_triage", "store_only", "digest",
                                     "deterministic_report"}
         /\ Route(i, W, related) # "individual_triage" =>
              /\ \A e \in W : ~IsAllowed(e)
              /\ {s[1] : s \in i.signals} \cap HIGH_VALUE_RULES = {}
         /\ Route(i, W, related) = "store_only" => i.family = "network_anomaly"
         /\ Route(i, W, related) \in {"digest", "deterministic_report"} =>
              W # {} /\ \A e \in W : IsBlocked(e)
<1> DEFINE H == {s[1] : s \in i.signals} \cap HIGH_VALUE_RULES
           D == IsSpiDesync(i, W, related)
<1>1. Route(i, W, related) =
        IF H # {} \/ \E e \in W : IsAllowed(e) THEN "individual_triage"
        ELSE IF D THEN "store_only"
        ELSE IF W = {} \/ \E e \in W : ~IsBlocked(e) THEN "individual_triage"
        ELSE IF i.family = "network_scanning" /\ i.sev = "low" THEN "digest"
        ELSE "deterministic_report"
  BY DEF Route
<1>2. D => i.family = "network_anomaly"
  BY DEF IsSpiDesync
<1> HIDE DEF H, D
<1>3. CASE H # {} \/ \E e \in W : IsAllowed(e)
  BY <1>1, <1>3
<1>4. CASE ~(H # {} \/ \E e \in W : IsAllowed(e)) /\ D
  BY <1>1, <1>2, <1>4 DEF H
<1>5. CASE ~(H # {} \/ \E e \in W : IsAllowed(e)) /\ ~D
  BY <1>1, <1>5 DEF H
<1> QED
  BY <1>3, <1>4, <1>5

-----------------------------------------------------------------------------
(***************************************************************************)
(* The roll-up of blocked reconnaissance.                                  *)
(***************************************************************************)

\* The parts of _build_recon_groups, by name: the scope of some events,
ReconScope(W) ==
    LET known == {ServiceOf(p) : p \in DPorts(W)} \ {"none"}
    IN  IF known # {} THEN <<known, {}>>
        ELSE <<{}, IF Cardinality(DPorts(W)) <= 5 THEN DPorts(W) ELSE {}>>

\* what one incident tells of a network,
ReconPart(es, i, n) ==
    LET W == {e \in EventsOf(es, i.ids) : Network(e.src) = n}
    IN  [net |-> n, family |-> i.family, scope |-> ReconScope(W), events |-> W,
         first |-> Min(Times(W)), last |-> Max(Times(W)), order |-> KeeperKey(i)]

\* the incidents it is about,
BlockedRecon(I, es) == {i \in I : IsBlockedRecon(i, EventsOf(es, i.ids))}

\* what they tell,
ReconTold(I, es) ==
    UNION {{ReconPart(es, i, Network(a)) : a \in Srcs(EventsOf(es, i.ids))}
              : i \in BlockedRecon(I, es)}

\* by which it is grouped,
ReconKey(c) == <<c.net, c.family, c.scope>>

\* and the bursts of a key.
ReconBursts(I, es, k) ==
    InBursts(Sorted({c \in ReconTold(I, es) : ReconKey(c) = k}, LAMBDA c : <<c.first>> \o c.order))

\* Reconnaissance is the bursts of all keys.
LEMMA ReconGroupsAre ==
  ASSUME NEW I, NEW es
  PROVE  ReconGroups(I, es) =
           UNION {{[key |-> k, events |-> UNION {c.events : c \in Range(ReconBursts(I, es, k)[b])}]
                     : b \in DOMAIN ReconBursts(I, es, k)}
                   : k \in {ReconKey(c) : c \in ReconTold(I, es)}}
BY DEF ReconGroups, ReconBursts, ReconKey, ReconTold, BlockedRecon, ReconPart, ReconScope

\* What is told of an incident begins and ends, and there is finitely much.
LEMMA ToldParts ==
  ASSUME Analysed
  PROVE  /\ IsFiniteSet(ReconTold(incidents, eligible))
         /\ \A c \in ReconTold(incidents, eligible) :
              \E i \in incidents : /\ c = ReconPart(eligible, i, c.net)
                                   /\ c.first \in Int /\ c.last \in Int
<1> DEFINE P == incidents \X eligible
           f == [p \in P |-> ReconPart(eligible, p[1], Network(p[2].src))]
           F == {f[p] : p \in P}
<1>1. ASSUME NEW c \in ReconTold(incidents, eligible)
      PROVE  \E i \in incidents : \E e \in Own(i) : c = ReconPart(eligible, i, Network(e.src))
  <2>1. PICK i \in BlockedRecon(incidents, eligible) :
          c \in {ReconPart(eligible, i, Network(a)) : a \in Srcs(EventsOf(eligible, i.ids))}
    BY <1>1 DEF ReconTold
  <2>2. PICK a \in Srcs(EventsOf(eligible, i.ids)) : c = ReconPart(eligible, i, Network(a))
    BY <2>1
  <2>3. PICK e \in Own(i) : a = e.src
    BY <2>2 DEF Srcs, Addrs, Own
  <2> QED
    BY <2>1, <2>2, <2>3 DEF BlockedRecon
<1>2. IsFiniteSet(ReconTold(incidents, eligible))
  <2>1. IsFiniteSet(P)
    BY FS_Product DEF Analysed, EventsOK, Correlated
  <2>2. ASSUME NEW c \in ReconTold(incidents, eligible) PROVE c \in F
    <3>1. PICK i \in incidents : \E e \in Own(i) : c = ReconPart(eligible, i, Network(e.src))
      BY <1>1
    <3>3. PICK e \in Own(i) : c = ReconPart(eligible, i, Network(e.src))
      BY <3>1
    <3>2. <<i, e>> \in P /\ f[<<i, e>>] = c
      BY <3>3 DEF Own, EventsOf
    <3> HIDE DEF f, P
    <3> QED
      BY <3>2
  <2> HIDE DEF f, P
  <2>3. IsFiniteSet(F)
    BY <2>1, FiniteImage
  <2> HIDE DEF F
  <2> QED
    BY <2>2, <2>3, FS_Subset
<1>3. ASSUME NEW c \in ReconTold(incidents, eligible)
      PROVE  \E i \in incidents : /\ c = ReconPart(eligible, i, c.net)
                                  /\ c.first \in Int /\ c.last \in Int
  <2>0. PICK i \in incidents : \E e \in Own(i) : c = ReconPart(eligible, i, Network(e.src))
    BY <1>1
  <2>1. PICK e \in Own(i) : c = ReconPart(eligible, i, Network(e.src))
    BY <2>0
  <2> DEFINE n == Network(e.src)
             W == {g \in EventsOf(eligible, i.ids) : Network(g.src) = n}
  <2>2. e \in W /\ W \in SUBSET Own(i)
    BY <2>1 DEF Own
  <2>3. c.net = n /\ c.first = Min(Times(W)) /\ c.last = Max(Times(W))
    BY <2>1 DEF ReconPart
  <2> HIDE DEF W, n
  <2>4. /\ IsFiniteSet(W) /\ W # {} /\ \A g \in W : g.t \in Int /\ g.n \in Int
    BY <2>2, IncidentFacts, FS_Subset DEF Analysed, EventsOK
  <2>5. Min(Times(W)) \in Int /\ Max(Times(W)) \in Int
    BY <2>4, FieldsFinite, MinMax
  <2> QED
    BY <2>1, <2>3, <2>5 DEF n
<1> QED
  BY <1>2, <1>3

\* The parts with one key fall into bursts.
LEMMA ReconBurstShape ==
  ASSUME Analysed, NEW k, NEW S, S = {c \in ReconTold(incidents, eligible) : ReconKey(c) = k},
         NEW c \in S
  PROVE  \E b \in DOMAIN ReconBursts(incidents, eligible, k) :
            c \in Range(ReconBursts(incidents, eligible, k)[b])
<1> DEFINE key == [x \in S |-> <<x.first>> \o x.order]
           n == 9
<1>1. IsFiniteSet(S)
  BY ToldParts, FS_Subset
<1>2. ASSUME NEW x \in S
      PROVE  \E i \in incidents : /\ x = ReconPart(eligible, i, k[1])
                                 /\ x.first \in Int /\ x.last \in Int
  <2>1. x.net = k[1]
    BY <1>2 DEF ReconKey
  <2> QED
    BY <2>1, ToldParts
<1>3. ASSUME NEW x \in S
      PROVE  /\ key[x] \in [1 .. n + 1 -> Int] /\ key[x][1] = x.first
             /\ \A m \in 1 .. n : key[x][m + 1] = x.order[m]
             /\ x.order \in [1 .. n -> Int]
  <2>1. PICK i \in incidents : x = ReconPart(eligible, i, k[1]) /\ x.first \in Int
    BY <1>2
  <2>2. x.order \in [1 .. n -> Int]
    BY <2>1, IncidentFacts DEF ReconPart
  <2> DEFINE a == x.first
             o == x.order
             q == key[x]
  <2>3. a \in Int /\ n \in Nat /\ o \in [1 .. n -> Int] /\ q = <<a>> \o o
    BY <2>1, <2>2
  <2>h. 1 \in 1 .. n + 1
    OBVIOUS
  <2> HIDE DEF key, a, o, q, n
  <2>4. q \in [1 .. n + 1 -> Int]
    BY <2>3, Joined
  <2>6. \A m \in 1 .. n : q[m + 1] = o[m]
    BY <2>3, Joined
  <2>5. q[1] = a
    BY <2>3
  <2> QED
    BY <2>2, <2>4, <2>5, <2>6 DEF a, o, q
<1>4. ASSUME NEW x \in S, NEW y \in S, key[x] = key[y] PROVE x = y
  <2>1. x.order = y.order
    <3> HIDE DEF key, n
    <3>1. \A m \in 1 .. n : x.order[m] = y.order[m]
      BY <1>3, <1>4
    <3> DEFINE a == x.order
               d == y.order
    <3>2. a \in [1 .. n -> Int] /\ d \in [1 .. n -> Int]
      BY <1>3
    <3>3. \A m \in 1 .. n : a[m] = d[m]
      BY <3>1
    <3> HIDE DEF a, d
    <3>4. a = d
      <4>1. a = [m \in 1 .. n |-> a[m]] /\ d = [m \in 1 .. n |-> d[m]]
        BY <3>2
      <4> QED
        BY <4>1, <3>3
    <3> QED
      BY <3>4 DEF a, d
  <2>2. PICK i \in incidents : x = ReconPart(eligible, i, k[1])
    BY <1>2
  <2>3. PICK j \in incidents : y = ReconPart(eligible, j, k[1])
    BY <1>2
  <2>4. KeeperKey(i) = KeeperKey(j)
    BY <2>1, <2>2, <2>3 DEF ReconPart
  <2>5. i = j
    BY <2>4, IncidentsApart
  <2> QED
    BY <2>2, <2>3, <2>5
<1>5. key \in [S -> [1 .. n + 1 -> Int]]
  <2>1. key = [x \in S |-> key[x]]
    OBVIOUS
  <2> HIDE DEF key, n
  <2> QED
    BY <2>1, <1>3
<1>6. OrderedByTime(S, n, key)
  <2>1. n \in Nat /\ \A x \in S : x.first \in Int /\ x.last \in Int
    BY <1>2
  <2> HIDE DEF key, n
  <2> QED
    BY <2>1, <1>1, <1>3, <1>4, <1>5 DEF OrderedByTime
<1>7. ReconBursts(incidents, eligible, k) = InBursts(InOrder(S, key))
  BY DEF ReconBursts, Sorted
<1> HIDE DEF key, n
<1>8. DividedInBursts(ReconBursts(incidents, eligible, k), S)
  BY <1>6, <1>7, BurstShape
<1> QED
  BY <1>8 DEF DividedInBursts

\* Every event of blocked reconnaissance that has a source is in a group of its
\* family.
LEMMA ReconTells ==
  ASSUME Analysed, NEW i \in incidents, i.family \in RECON, \A e \in Own(i) : IsBlocked(e),
         NEW e \in Own(i), e.src # NoAddr
  PROVE  \E g \in ReconGroups(incidents, eligible) :
                              e \in g.events /\ g.key[2] = i.family
<1> DEFINE c == ReconPart(eligible, i, Network(e.src))
           k == ReconKey(c)
           B == ReconBursts(incidents, eligible, k)
<1>1. i \in BlockedRecon(incidents, eligible)
  BY DEF BlockedRecon, IsBlockedRecon, Own
<1>2. c \in ReconTold(incidents, eligible)
  <2>1. e.src \in Srcs(EventsOf(eligible, i.ids))
    BY DEF Srcs, Addrs, Own
  <2> HIDE DEF c
  <2> QED
    BY <1>1, <2>1 DEF ReconTold, c
<1>3. e \in c.events /\ c.family = i.family
  BY DEF ReconPart, Own
<1>4. k[2] = i.family
  BY <1>3 DEF ReconKey
<1> HIDE DEF c
<1>5. PICK b \in DOMAIN B : c \in Range(B[b])
  <2> DEFINE S == {x \in ReconTold(incidents, eligible) : ReconKey(x) = k}
  <2>1. c \in S
    BY <1>2
  <2> HIDE DEF k
  <2> QED
    BY <2>1, ReconBurstShape
<1> DEFINE g == [key |-> k, events |-> UNION {x.events : x \in Range(B[b])}]
<1>6. g \in ReconGroups(incidents, eligible)
  <2>1. k \in {ReconKey(x) : x \in ReconTold(incidents, eligible)}
    BY <1>2
  <2> HIDE DEF k
  <2> QED
    BY <2>1, <1>5, ReconGroupsAre
<1>7. e \in g.events /\ g.key[2] = i.family
  BY <1>3, <1>4, <1>5
<1> QED
  BY <1>6, <1>7

-----------------------------------------------------------------------------

\* An incident without individual triage has a report or is in one digest.
LEMMA Filing ==
  ASSUME BriefInvariant, brief = "filed", NEW i \in incidents \ Eligible
  PROVE  Cardinality({d \in digests : i.anchor \in d}) + Cardinality({a \in filed : a = i.anchor})
           = IF routes[i.anchor] = "store_only" THEN 0 ELSE 1
<1> DEFINE r == routes[i.anchor]
           D(t) == {j.anchor : j \in {x \in Routed("digest") : x.type = t}}
           G == {d \in digests : i.anchor \in d}
           F == {a \in filed : a = i.anchor}
<1>1. Analysed
  BY InvariantAnalysed
<1>2. /\ r = RouteOf(i) /\ r # "individual_triage"
      /\ digests = Digested /\ filed = Reported
  BY DEF BriefInvariant, Eligible, Routed
<1>3. r \in {"store_only", "digest", "deterministic_report"}
  BY <1>2, RouteFacts DEF RouteOf
<1>4. \A j \in incidents : j.anchor = i.anchor => j = i
  BY <1>1, IncidentsApart
<1>5. \A d \in G : r = "digest" /\ d = D(i.type)
  <2> TAKE d \in G
  <2>1. PICK t \in {j.type : j \in Routed("digest")} : d = D(t)
    BY <1>2 DEF Digested
  <2>2. PICK j \in {x \in Routed("digest") : x.type = t} : j.anchor = i.anchor
    BY <2>1
  <2>3. j = i
    BY <2>2, <1>4 DEF Routed
  <2> QED
    BY <2>1, <2>2, <2>3 DEF Routed
<1>6. r = "digest" => G = {D(i.type)}
  <2> SUFFICES ASSUME r = "digest" PROVE D(i.type) \in G
    BY <1>5
  <2>1. i \in Routed("digest")
    BY DEF Routed
  <2>2. D(i.type) \in digests /\ i.anchor \in D(i.type)
    BY <2>1, <1>2 DEF Digested
  <2> QED
    BY <2>2
<1>7. r # "digest" => G = {}
  BY <1>5
<1>8. F = IF r = "deterministic_report" THEN {i.anchor} ELSE {}
  <2>1. i.anchor \in Reported <=> i \in Eligible \cup Routed("deterministic_report")
    BY <1>4 DEF Reported, Eligible, Routed
  <2>2. i \in Eligible \cup Routed("deterministic_report") <=> r = "deterministic_report"
    BY <1>2 DEF Eligible, Routed
  <2> QED
    BY <2>1, <2>2, <1>2
<1> HIDE DEF r, D, G, F
<1>9. CASE r = "store_only"
  <2>1. Cardinality(G) = 0 /\ Cardinality(F) = 0
    BY <1>9, <1>7, <1>8, FS_EmptySet
  <2> QED
    BY <2>1, <1>9 DEF r, G, F
<1>10. CASE r = "digest"
  <2>1. Cardinality(G) = 1 /\ Cardinality(F) = 0
    BY <1>10, <1>6, <1>8, FS_EmptySet, FS_Singleton
  <2> QED
    BY <2>1, <1>10 DEF r, G, F
<1>11. CASE r = "deterministic_report"
  <2>1. Cardinality(G) = 0 /\ Cardinality(F) = 1
    BY <1>11, <1>7, <1>8, FS_EmptySet, FS_Singleton
  <2> QED
    BY <2>1, <1>11 DEF r, G, F
<1> QED
  BY <1>3, <1>9, <1>10, <1>11

\* What is not triaged one by one is accounted for.
LEMMA AccountedInvariant == BriefInvariant => BlockedAccounted
<1> SUFFICES ASSUME BriefInvariant, brief = "filed", NEW i \in incidents \ Eligible
             PROVE  /\ \A e \in Own(i) : ~IsAllowed(e)
                    /\ i.family \in RECON => \A e \in Own(i) : e.src # NoAddr =>
                          \E g \in ReconGroups(incidents, eligible) :
                              e \in g.events /\ g.key[2] = i.family
                    /\ Cardinality({d \in digests : i.anchor \in d})
                         + Cardinality({a \in filed : a = i.anchor})
                         = IF routes[i.anchor] = "store_only" THEN 0 ELSE 1
  BY DEF BlockedAccounted
<1>1. Analysed
  BY InvariantAnalysed
<1>2. RouteOf(i) # "individual_triage"
  BY DEF BriefInvariant, Eligible, Routed
<1>3. \A e \in Own(i) : ~IsAllowed(e)
  BY <1>2, RouteFacts DEF RouteOf
<1>4. ASSUME i.family \in RECON PROVE \A e \in Own(i) : IsBlocked(e)
  <2>1. RouteOf(i) \in {"digest", "deterministic_report"}
    BY <1>2, <1>4, RouteFacts DEF RouteOf, RECON
  <2> QED
    BY <2>1, RouteFacts DEF RouteOf
<1>5. i.family \in RECON => \A e \in Own(i) : e.src # NoAddr =>
        \E g \in ReconGroups(incidents, eligible) :
                              e \in g.events /\ g.key[2] = i.family
  BY <1>1, <1>4, ReconTells
<1> QED
  BY <1>3, <1>5, Filing

\* For every analysis: what leaves the brief without a row was not allowed, is in
\* the roll-up event by event when it is blocked reconnaissance, and has a report
\* or is in exactly one digest, but for desynchronised state that is only stored
\* (decide_route, _build_recon_groups, the filing of _persist_analysis).
THEOREM Accounted == BriefSpec => []BlockedAccounted
BY BriefInvariance, AccountedInvariant, PTL

-----------------------------------------------------------------------------
(***************************************************************************)
(* The inventory of exposed assets.                                        *)
(***************************************************************************)

\* The entity of an exposure is an address its events reached.
LEMMA ExposedEntity ==
  ASSUME Analysed, NEW i \in incidents, IsExposure(i),
         i.type # "wan_to_dmz_administrative_service_allowed"
  PROVE  \E e \in Own(i) : Reaches(e) /\ EffectiveDst(e) = i.entity
<1>1. PICK s \in SignalsOf(signals, i.signals) :
        i.type = s.type /\ i.family = s.family /\ i.entity = PrimaryEntity(s, eligible)
  <2>1. TellsOf(i, SignalsOf(signals, i.signals), eligible)
    BY DEF Analysed, Correlated, Told
  <2> QED
    BY <2>1 DEF TellsOf
<1>2. s \in signals
  BY <1>1 DEF SignalsOf
<1>3. Shown(s, eligible) /\ s.ids \in SUBSET Ids(eligible) /\ s.ids # {}
  BY <1>2 DEF Analysed, Active
<1> DEFINE W == EventsOf(eligible, s.ids)
           dsts == Addrs(EffectiveDsts(W))
<1>4. s.family \in CROSS_PRIMARY /\ \A e \in W : Reaches(e)
  BY <1>1, <1>3 DEF IsExposure, CROSS_PRIMARY, Shown, SENSITIVE_TYPES
<1>5. W # {} /\ W \in SUBSET eligible
  BY <1>3 DEF EventsOf, Ids
<1>6. W \in SUBSET Own(i)
  <2>1. i.ids = Union(SignalsOf(signals, i.signals))
    BY DEF Analysed, Correlated, Told, TellsOf
  <2>2. s.ids \in SUBSET i.ids
    BY <1>1, <2>1 DEF Union
  <2> QED
    BY <2>2 DEF Own, EventsOf
<1> HIDE DEF W
<1>7. dsts = {EffectiveDst(e) : e \in W}
  BY <1>4 DEF Reaches, Addrs, EffectiveDsts
<1>8. IsFiniteSet(dsts) /\ dsts # {} /\ dsts \in SUBSET Int
  <2>1. IsFiniteSet(W)
    BY <1>5, FS_Subset DEF Analysed, EventsOK
  <2> DEFINE f == [e \in W |-> EffectiveDst(e)]
  <2>2. dsts = {f[e] : e \in W}
    BY <1>7
  <2> HIDE DEF f
  <2>3. IsFiniteSet({f[e] : e \in W})
    BY <2>1, FiniteImage
  <2>4. \A e \in W : EffectiveDst(e) \in Int
    BY <1>5 DEF Analysed, EventsOK, EffectiveDst
  <2> QED
    BY <1>5, <1>7, <2>2, <2>3, <2>4
<1>9. i.entity = Min(dsts)
  BY <1>1, <1>4, <1>8 DEF PrimaryEntity, W
<1> HIDE DEF dsts
<1>10. i.entity \in dsts
  BY <1>8, <1>9, MinMax
<1> QED
  BY <1>4, <1>6, <1>7, <1>10

\* The inventory tells what the incidents are about.
LEMMA AssetsInvariant == BriefInvariant => AssetsAgree
<1> SUFFICES ASSUME BriefInvariant, Selected PROVE AssetsAgree
  BY DEF AssetsAgree
<1>1. Analysed
  BY InvariantAnalysed DEF Selected
<1> DEFINE E == UNION {i.ids : i \in {j \in incidents : IsExposure(j)}}
           seen == {e \in EventsOf(eligible, E) : Reaches(e)}
           assets == ExposedAssets(incidents, eligible)
<1>2. assets = {<<EffectiveDst(e), SensitiveService(EffectivePort(e))>> : e \in seen}
  BY DEF ExposedAssets, Reaches
<1>3. ASSUME NEW i \in incidents, IsExposure(i), i.type # "wan_to_dmz_administrative_service_allowed"
      PROVE  \E a \in assets : a[1] = i.entity
  <2>1. PICK e \in Own(i) : Reaches(e) /\ EffectiveDst(e) = i.entity
    BY <1>1, <1>3, ExposedEntity
  <2>2. e \in seen
    BY <2>1, <1>3 DEF Own, EventsOf
  <2> DEFINE a == <<EffectiveDst(e), SensitiveService(EffectivePort(e))>>
  <2>3. a \in assets /\ a[1] = i.entity
    BY <1>2, <2>1, <2>2
  <2> QED
    BY <2>3
<1>4. ASSUME NEW a \in assets
      PROVE  \E i \in Eligible : \E e \in Own(i) : IsAllowed(e) /\ EffectiveDst(e) = a[1]
  <2>1. PICK e \in seen : a = <<EffectiveDst(e), SensitiveService(EffectivePort(e))>>
    BY <1>2
  <2>2. PICK i \in incidents : e.id \in i.ids
    BY <2>1 DEF EventsOf
  <2>3. e \in Own(i) /\ IsAllowed(e)
    BY <2>1, <2>2 DEF Own, EventsOf, Reaches
  <2>4. RouteOf(i) = "individual_triage"
    BY <2>3, RouteFacts DEF RouteOf
  <2>5. i \in Eligible
    BY <2>4 DEF BriefInvariant, Selected, Eligible, Routed
  <2> QED
    BY <2>1, <2>3, <2>5
<1> HIDE DEF assets
<1> QED
  BY <1>3, <1>4 DEF AssetsAgree, assets

\* For every analysis: the inventory of exposed assets and the incidents agree
\* (_build_exposed_assets, IncidentBuilder._primary_entity).
THEOREM AssetsTold == BriefSpec => []AssetsAgree
BY BriefInvariance, AssetsInvariant, PTL

-----------------------------------------------------------------------------
(***************************************************************************)
(* Groups of exposures.                                                    *)
(***************************************************************************)

\* The parts of build_exposure_groups, by name: the key of an incident,
KeyOf(i) == GroupKey(EventsOf(eligible, i.ids))
\* the incidents that are grouped,
Exposures(I) == {i \in I : IsExposure(i) /\ KeyOf(i) # <<>>}
\* those of a key,
ExposuresOf(I, k) == {i \in Exposures(I) : KeyOf(i) = k}
\* their bursts,
BurstsOf(I, k) == Bursts(ExposuresOf(I, k))
\* and the group of a burst.
GroupOf(I, k, b) == [key |-> k, burst |-> b, members |-> Range(BurstsOf(I, k)[b])]

\* The groups are the bursts of all keys.
LEMMA ExposureGroupsAre ==
  ASSUME NEW I
  PROVE  ExposureGroups(I, eligible) =
           UNION {{GroupOf(I, k, b) : b \in DOMAIN BurstsOf(I, k)}
                    : k \in {KeyOf(i) : i \in Exposures(I)}}
BY DEF ExposureGroups, GroupOf, BurstsOf, ExposuresOf, Exposures, KeyOf

\* The incidents of a key divide in bursts.
LEMMA ExposureBursts ==
  ASSUME Analysed, NEW I \in SUBSET incidents, NEW k
  PROVE  DividedInBursts(BurstsOf(I, k), ExposuresOf(I, k))
<1> DEFINE S == ExposuresOf(I, k)
           key == [i \in S |-> <<i.first>> \o KeeperKey(i)]
           n == 9
<1>1. S \in SUBSET incidents
  BY DEF ExposuresOf, Exposures
<1>2. BurstsOf(I, k) = InBursts(InOrder(S, key))
  BY DEF BurstsOf, Bursts, Sorted
<1>3. IsFiniteSet(S)
  BY <1>1, FS_Subset DEF Analysed, Correlated
<1> HIDE DEF S
<1>4. ASSUME NEW i \in S
      PROVE  /\ i.first \in Int /\ i.last \in Int
             /\ key[i] \in [1 .. n + 1 -> Int] /\ key[i][1] = i.first
             /\ KeeperKey(i) \in [1 .. n -> Int]
             /\ \A m \in 1 .. n : key[i][m + 1] = KeeperKey(i)[m]
  <2>1. i.first \in Int /\ i.last \in Int /\ KeeperKey(i) \in [1 .. n -> Int]
    BY <1>1, IncidentFacts
  <2> DEFINE a == i.first
             o == KeeperKey(i)
             q == key[i]
  <2>2. a \in Int /\ n \in Nat /\ o \in [1 .. n -> Int] /\ q = <<a>> \o o
    BY <2>1
  <2> HIDE DEF key, a, o, q, n
  <2>3. q \in [1 .. n + 1 -> Int]
    BY <2>2, Joined
  <2>4. \A m \in 1 .. n : q[m + 1] = o[m]
    BY <2>2, Joined
  <2>5. q[1] = a
    BY <2>2
  <2> QED
    BY <2>1, <2>3, <2>4, <2>5 DEF a, o, q
<1>5. ASSUME NEW i \in S, NEW j \in S, key[i] = key[j] PROVE i = j
  <2> DEFINE a == KeeperKey(i)
             d == KeeperKey(j)
  <2> HIDE DEF key, n, a, d
  <2>1. a \in [1 .. n -> Int] /\ d \in [1 .. n -> Int]
    BY <1>4 DEF a, d
  <2>2. \A m \in 1 .. n : a[m] = d[m]
    BY <1>4, <1>5 DEF a, d
  <2>3. a = [m \in 1 .. n |-> a[m]] /\ d = [m \in 1 .. n |-> d[m]]
    BY <2>1
  <2>4. a = d
    BY <2>2, <2>3
  <2> QED
    BY <2>4, <1>1, IncidentsApart DEF a, d
<1>6. key \in [S -> [1 .. n + 1 -> Int]]
  <2>1. key = [i \in S |-> key[i]]
    OBVIOUS
  <2> HIDE DEF key, n
  <2> QED
    BY <2>1, <1>4
<1>7. OrderedByTime(S, n, key)
  <2>1. n \in Nat
    OBVIOUS
  <2> HIDE DEF key, n
  <2> QED
    BY <2>1, <1>3, <1>4, <1>5, <1>6 DEF OrderedByTime
<1> HIDE DEF key, n
<1> QED
  BY <1>2, <1>7, BurstShape DEF S

\* What a group is.
LEMMA GroupFacts ==
  ASSUME Analysed, NEW I \in SUBSET incidents, NEW g \in ExposureGroups(I, eligible)
  PROVE  /\ g = GroupOf(I, g.key, g.burst) /\ g.burst \in DOMAIN BurstsOf(I, g.key)
         /\ g.burst \in Nat /\ g.members \in SUBSET I /\ g.members # {}
         /\ \A i \in g.members : IsExposure(i) /\ KeyOf(i) = g.key /\ KeyOf(i) # <<>>
<1>1. PICK k \in {KeyOf(i) : i \in Exposures(I)} :
        g \in {GroupOf(I, k, b) : b \in DOMAIN BurstsOf(I, k)}
  BY ExposureGroupsAre
<1>2. PICK b \in DOMAIN BurstsOf(I, k) : g = GroupOf(I, k, b)
  BY <1>1
<1>3. g.key = k /\ g.burst = b /\ g.members = Range(BurstsOf(I, k)[b])
  BY <1>2 DEF GroupOf
<1>4. DividedInBursts(BurstsOf(I, k), ExposuresOf(I, k))
  BY ExposureBursts
<1>5. b \in Nat
  <2> DEFINE B == BurstsOf(I, k)
  <2>1. B \in Seq(Seq(ExposuresOf(I, k))) /\ b \in DOMAIN B
    BY <1>4, <1>2 DEF DividedInBursts
  <2> HIDE DEF B
  <2> QED
    BY <2>1
<1>6. g.members \in SUBSET ExposuresOf(I, k) /\ g.members # {}
  BY <1>2, <1>3, <1>4 DEF DividedInBursts
<1> QED
  BY <1>2, <1>3, <1>5, <1>6 DEF ExposuresOf, Exposures

\* Two groups.
LEMMA GroupsApart ==
  ASSUME Analysed, NEW I \in SUBSET incidents,
         NEW g \in ExposureGroups(I, eligible), NEW h \in ExposureGroups(I, eligible)
  PROVE  /\ g.key = h.key /\ g.burst = h.burst => g = h
         /\ g # h => g.members \cap h.members = {}
         /\ g.key = h.key /\ g.burst < h.burst =>
              \A i \in g.members, j \in h.members : j.first - i.last > GroupGap
<1>1. /\ g = GroupOf(I, g.key, g.burst) /\ g.burst \in DOMAIN BurstsOf(I, g.key)
      /\ h = GroupOf(I, h.key, h.burst) /\ h.burst \in DOMAIN BurstsOf(I, h.key)
      /\ \A i \in g.members : KeyOf(i) = g.key
      /\ \A i \in h.members : KeyOf(i) = h.key
  BY GroupFacts
<1>2. g.members = Range(BurstsOf(I, g.key)[g.burst]) /\ h.members = Range(BurstsOf(I, h.key)[h.burst])
  BY <1>1 DEF GroupOf
<1>3. DividedInBursts(BurstsOf(I, g.key), ExposuresOf(I, g.key))
  BY ExposureBursts
<1>4. g.key = h.key /\ g.burst = h.burst => g = h
  BY <1>1
<1>5. ASSUME g # h PROVE g.members \cap h.members = {}
  <2>1. CASE g.key # h.key
    BY <2>1, <1>1
  <2>2. CASE g.key = h.key
    <3>1. g.burst # h.burst
      BY <2>2, <1>4, <1>5
    <3> QED
      BY <2>2, <3>1, <1>1, <1>2, <1>3 DEF DividedInBursts
  <2> QED
    BY <2>1, <2>2
<1>6. ASSUME g.key = h.key, g.burst < h.burst, NEW i \in g.members, NEW j \in h.members
      PROVE  j.first - i.last > GroupGap
  <2> DEFINE B == BurstsOf(I, g.key)
             b == g.burst
             c == h.burst
  <2>1. b \in DOMAIN B /\ c \in DOMAIN B /\ b < c
    BY <1>1, <1>6
  <2>2. i \in Range(B[b]) /\ j \in Range(B[c])
    BY <1>2, <1>6
  <2>3. DividedInBursts(B, ExposuresOf(I, g.key))
    BY <1>3
  <2> HIDE DEF B, b, c
  <2> QED
    BY <2>1, <2>2, <2>3 DEF DividedInBursts
<1> QED
  BY <1>4, <1>5, <1>6

\* Each exposure is in a group, and there are finitely many.
LEMMA GroupsCover ==
  ASSUME Analysed, NEW I \in SUBSET incidents
  PROVE  /\ \A i \in Exposures(I) : \E g \in ExposureGroups(I, eligible) : i \in g.members
         /\ IsFiniteSet(ExposureGroups(I, eligible))
<1> DEFINE G == ExposureGroups(I, eligible)
           f == [i \in I |-> CHOOSE g \in G : i \in g.members]
<1>1. ASSUME NEW i \in Exposures(I) PROVE \E g \in G : i \in g.members
  <2> DEFINE k == KeyOf(i)
  <2>1. i \in ExposuresOf(I, k) /\ k \in {KeyOf(j) : j \in Exposures(I)}
    BY DEF ExposuresOf
  <2> HIDE DEF k
  <2>2. PICK b \in DOMAIN BurstsOf(I, k) : i \in Range(BurstsOf(I, k)[b])
    BY <2>1, ExposureBursts DEF DividedInBursts
  <2>3. GroupOf(I, k, b) \in G
    BY <2>1, <2>2, ExposureGroupsAre
  <2>4. i \in GroupOf(I, k, b).members
    BY <2>2 DEF GroupOf
  <2> QED
    BY <2>3, <2>4
<1>2. ASSUME NEW g \in G PROVE \E i \in I : f[i] = g
  <2>1. PICK i : i \in g.members
    BY GroupFacts
  <2>2. i \in I
    BY <2>1, GroupFacts
  <2>3. \A h \in G : i \in h.members => h = g
    BY <2>1, GroupsApart
  <2> HIDE DEF G
  <2>4. f[i] = g
    BY <2>1, <2>2, <2>3
  <2> QED
    BY <2>2, <2>4
<1>3. IsFiniteSet(I)
  BY FS_Subset DEF Analysed, Correlated
<1> HIDE DEF f
<1>4. IsFiniteSet({f[i] : i \in I})
  BY <1>3, FiniteImage
<1>5. G \in SUBSET {f[i] : i \in I}
  BY <1>2
<1> HIDE DEF G
<1>6. IsFiniteSet(G)
  BY <1>4, <1>5, FS_Subset
<1> QED
  BY <1>1, <1>6 DEF G

-----------------------------------------------------------------------------
(***************************************************************************)
(* Clusters of scanners.                                                   *)
(***************************************************************************)

\* The parts of the clusters of scanners, by name: the network and the port of a
\* source,
ScanKey(g) == <<Network(Lead(g).src), Lead(g).sport>>

\* the sources of a key,
ScanGroupsOf(list, k) == {g \in FixedPortGroups(list) : ScanKey(g) = k}

\* their runs,
ScanRuns(list, k) ==
    RunsOf(Sorted(ScanGroupsOf(list, k), LAMBDA g : <<Min(Times(g)), Lead(g).src>>))

\* those that make a cluster,
LargeRun(run) == /\ Len(run) >= Cluster.sources
                 /\ Cardinality(UNION Range(run)) >= Cluster.total

\* and the cluster of a run.
ScanCluster(list, k, b) == [key |-> k, burst |-> b, events |-> UNION Range(ScanRuns(list, k)[b])]

\* The runs of a key that make a cluster, their clusters, and all keys.
LargeRuns(list, k) == {n \in DOMAIN ScanRuns(list, k) : LargeRun(ScanRuns(list, k)[n])}

ClustersOf(list, k) == {ScanCluster(list, k, b) : b \in LargeRuns(list, k)}

ScanKeys(list) == {ScanKey(g) : g \in FixedPortGroups(list)}

\* The clusters are those of all keys.
LEMMA ScanClustersAre ==
  ASSUME NEW list
  PROVE  ScanClusters(list) = UNION {ClustersOf(list, k) : k \in ScanKeys(list)}
BY DEF ScanClusters, ClustersOf, ScanKeys, LargeRuns, ScanCluster, LargeRun, ScanRuns, ScanGroupsOf,
       ScanKey

\* Runs are not empty.
Runs(b, T) == b \in Seq(Seq(T)) /\ \A j \in DOMAIN b : b[j] # <<>>

\* One more source joins the last run, or begins another one.
LEMMA RunStep ==
  ASSUME NEW T, NEW b, Runs(b, T), NEW x \in T
  PROVE  Runs(JoinRun(b, x), T)
<1> DEFINE n == Len(b)
           d == JoinRun(b, x)
<1>1. b \in Seq(Seq(T)) /\ n \in Nat /\ DOMAIN b = 1 .. n /\ \A j \in DOMAIN b : b[j] # <<>>
  BY DEF Runs
<1>2. (b # <<>> /\ d = [b EXCEPT ![n] = Append(b[n], x)]) \/ d = Append(b, <<x>>)
  BY DEF JoinRun
<1> HIDE DEF d
<1>3. CASE d = Append(b, <<x>>)
  <2> DEFINE X == <<x>>
  <2>1. X \in Seq(T) /\ X # <<>> /\ d = Append(b, X)
    BY <1>3
  <2> HIDE DEF X
  <2>2. /\ Append(b, X) \in Seq(Seq(T)) /\ DOMAIN Append(b, X) = 1 .. n + 1
        /\ \A j \in DOMAIN b : Append(b, X)[j] = b[j]
        /\ Append(b, X)[n + 1] = X
    BY <2>1, <1>1, Appended
  <2>3. ASSUME NEW j \in DOMAIN d PROVE d[j] # <<>>
    <3>1. j \in DOMAIN b \/ j = n + 1
      BY <2>1, <2>2, <1>1
    <3> QED
      BY <3>1, <2>1, <2>2, <1>1
  <2> QED
    BY <2>1, <2>2, <2>3 DEF Runs, d
<1>4. CASE b # <<>> /\ d = [b EXCEPT ![n] = Append(b[n], x)]
  <2>1. n \in DOMAIN b
    BY <1>1, <1>4
  <2> DEFINE B == b[n]
             A == Append(B, x)
  <2>2. B \in Seq(T)
    BY <1>1, <2>1
  <2> HIDE DEF B
  <2>3. A \in Seq(T) /\ A # <<>>
    BY <2>2, Appended
  <2> HIDE DEF A
  <2>4. d = [b EXCEPT ![n] = A]
    BY <1>4 DEF A, B
  <2>5. /\ d \in Seq(Seq(T)) /\ DOMAIN d = DOMAIN b
        /\ \A j \in DOMAIN b : j # n => d[j] = b[j]
        /\ d[n] = A
    BY <2>1, <2>3, <2>4, <1>1, Replaced
  <2>6. \A j \in DOMAIN d : d[j] # <<>>
    BY <2>3, <2>5, <1>1
  <2> QED
    BY <2>5, <2>6 DEF Runs, d
<1> QED
  BY <1>2, <1>3, <1>4

\* Hence no run is empty.
LEMMA RunShape ==
  ASSUME NEW T, NEW q \in Seq(T)
  PROVE  Runs(RunsOf(q), T)
<1> DEFINE c == Len(q)
<1>1. c \in Nat /\ DOMAIN q = 1 .. c /\ \A k \in 1 .. c : q[k] \in T
  OBVIOUS
<1> HIDE DEF c
<1>2. PICK f : /\ f[0] = <<>> /\ f[c] = RunsOf(q)
               /\ \A k \in 1 .. c : f[k] = JoinRun(f[k - 1], q[k])
  BY <1>1, RunFold
<1> DEFINE P == {k \in Nat : k <= c => Runs(f[k], T)}
<1>3. 0 \in P
  <2>1. <<>> \in Seq(Seq(T)) /\ DOMAIN <<>> = {}
    OBVIOUS
  <2>2. Runs(<<>>, T)
    BY <2>1 DEF Runs
  <2> QED
    BY <2>2, <1>2
<1>4. ASSUME NEW k \in Nat, k \in P PROVE k + 1 \in P
  <2> SUFFICES ASSUME k + 1 <= c PROVE Runs(f[k + 1], T)
    OBVIOUS
  <2>1. Runs(f[k], T) /\ k + 1 \in 1 .. c /\ (k + 1) - 1 = k
    BY <1>4, <1>1
  <2>2. f[k + 1] = JoinRun(f[k], q[k + 1]) /\ q[k + 1] \in T
    BY <2>1, <1>1, <1>2
  <2> QED
    BY <2>1, <2>2, RunStep
<1>5. c \in P
  <2> HIDE DEF P
  <2> QED
    BY <1>1, <1>3, <1>4, Inductive
<1> QED
  BY <1>1, <1>2, <1>5

-----------------------------------------------------------------------------

\* There are finitely many probes, and they have addresses, ports and times.
LEMMA ProbeFacts ==
  ASSUME NEW list, CandidatesOK(list)
  PROVE  /\ IsFiniteSet(Probes(list))
         /\ \A e \in Probes(list) : e.src \in Int /\ e.sport \in Int /\ e.t \in Int /\ e.id \in Int
<1>1. PICK T : list \in Seq(T)
  BY DEF CandidatesOK
<1> DEFINE D == DOMAIN list
<1>2. D = 1 .. Len(list) /\ Len(list) \in Nat
  BY <1>1
<1>3. IsFiniteSet(D)
  BY <1>2, FS_Interval
<1>4. Range(list) = {list[i] : i \in D}
  BY DEF Range
<1>5. \A i \in D : /\ list[i].src \in Int /\ list[i].sport \in Int
                  /\ list[i].t \in Int /\ list[i].id \in Int
  BY <1>2 DEF CandidatesOK, Delivered
<1> HIDE DEF D
<1>6. IsFiniteSet(Range(list))
  BY <1>3, <1>4, FiniteImage
<1>7. Probes(list) \in SUBSET Range(list)
  BY DEF Probes
<1> QED
  BY <1>4, <1>5, <1>6, <1>7, FS_Subset

\* A group of probes of one source.
LEMMA ScanGroupFacts ==
  ASSUME NEW list, CandidatesOK(list), NEW g \in FixedPortGroups(list)
  PROVE  /\ g \in SUBSET Probes(list) /\ Lead(g) \in g /\ IsFiniteSet(g)
         /\ g = {f \in Probes(list) : SameSource(Lead(g), f)}
         /\ Min(Times(g)) \in Int /\ Lead(g).src \in Int /\ Lead(g).sport \in Int
<1>1. PICK e \in Probes(list) : g = {f \in Probes(list) : SameSource(e, f)}
  BY DEF FixedPortGroups
<1>2. g \in SUBSET Probes(list) /\ e \in g
  BY <1>1 DEF SameSource
<1>3. IsFiniteSet(g)
  BY <1>2, ProbeFacts, FS_Subset
<1>4. Lead(g) \in g
  <2> DEFINE f == [x \in g |-> x.id]
             N == {f[x] : x \in g}
  <2>1. N \in SUBSET Int /\ N # {}
    BY <1>2, ProbeFacts
  <2>2. \A x \in g : f[x] = x.id
    OBVIOUS
  <2> HIDE DEF f
  <2>3. IsFiniteSet(N)
    BY <1>3, FiniteImage
  <2>4. Min(N) \in N /\ \A n \in N : Min(N) <= n
    BY <2>1, <2>3, MinMax
  <2>5. PICK x \in g : f[x] = Min(N)
    BY <2>4
  <2>6. \A y \in g : x.id <= y.id
    BY <2>2, <2>4, <2>5
  <2> QED
    BY <2>6 DEF Lead
<1>5. g = {f \in Probes(list) : SameSource(Lead(g), f)}
  BY <1>1, <1>4 DEF SameSource
<1>6. Min(Times(g)) \in Int
  <2> DEFINE f == [x \in g |-> x.t]
             N == {f[x] : x \in g}
  <2>1. N \in SUBSET Int /\ N # {}
    BY <1>2, ProbeFacts
  <2>2. Times(g) = N
    BY DEF Times
  <2> HIDE DEF f
  <2>3. IsFiniteSet(N)
    BY <1>3, FiniteImage
  <2> QED
    BY <2>1, <2>2, <2>3, MinMax
<1> QED
  BY <1>2, <1>3, <1>4, <1>5, <1>6, ProbeFacts

\* There are finitely many sources,
LEMMA ScanGroupsFinite ==
  ASSUME NEW list, CandidatesOK(list)
  PROVE  IsFiniteSet(FixedPortGroups(list))
<1> DEFINE P == Probes(list)
           f == [e \in P |-> {x \in P : SameSource(e, x)}]
<1>1. FixedPortGroups(list) \in SUBSET {f[e] : e \in P}
  <2>1. ASSUME NEW g \in FixedPortGroups(list) PROVE \E e \in P : f[e] = g
    BY <2>1 DEF FixedPortGroups
  <2> QED
    BY <2>1
<1>2. IsFiniteSet(P)
  BY ProbeFacts
<1> HIDE DEF f, P
<1>3. IsFiniteSet({f[e] : e \in P})
  BY <1>2, FiniteImage
<1> QED
  BY <1>1, <1>3, FS_Subset

\* their runs hold the sources of the key,
LEMMA ScanRunShape ==
  ASSUME NEW list, CandidatesOK(list), NEW k
  PROVE  Runs(ScanRuns(list, k), ScanGroupsOf(list, k))
<1> DEFINE S == ScanGroupsOf(list, k)
           key == [g \in S |-> <<Min(Times(g)), Lead(g).src>>]
           q == InOrder(S, key)
           n == 2
<1>1. S \in SUBSET FixedPortGroups(list) /\ \A g \in S : ScanKey(g) = k
  BY DEF ScanGroupsOf
<1>2. ScanRuns(list, k) = RunsOf(q)
  BY DEF ScanRuns, Sorted
<1> HIDE DEF S
<1>3. IsFiniteSet(S)
  BY <1>1, ScanGroupsFinite, FS_Subset
<1>4. ASSUME NEW g \in S
      PROVE  key[g] \in [1 .. n -> Int] /\ key[g][2] = Lead(g).src
  <2>1. Min(Times(g)) \in Int /\ Lead(g).src \in Int
    BY <1>1, ScanGroupFacts
  <2> DEFINE a == Min(Times(g))
             b == Lead(g).src
  <2>2. a \in Int /\ b \in Int
    BY <2>1
  <2> HIDE DEF a, b
  <2>3. <<a, b>> \in [1 .. 2 -> Int] /\ <<a, b>>[2] = b
    BY <2>2
  <2>4. key[g] = <<a, b>>
    BY DEF a, b
  <2> HIDE DEF key
  <2> QED
    BY <2>3, <2>4 DEF b
<1>5. ASSUME NEW g \in S, NEW h \in S, key[g] = key[h] PROVE g = h
  <2>1. Lead(g).src = Lead(h).src
    BY <1>4, <1>5
  <2>2. Lead(g).sport = Lead(h).sport
    <3>1. ScanKey(g) = ScanKey(h)
      BY <1>1
    <3> DEFINE a == Network(Lead(g).src)
               b == Lead(g).sport
               c == Network(Lead(h).src)
               d == Lead(h).sport
    <3>2. <<a, b>> = <<c, d>>
      BY <3>1 DEF ScanKey
    <3> HIDE DEF a, b, c, d
    <3>3. b = d
      BY <3>2
    <3> QED
      BY <3>3 DEF b, d
  <2>3. /\ g = {f \in Probes(list) : SameSource(Lead(g), f)}
        /\ h = {f \in Probes(list) : SameSource(Lead(h), f)}
    BY <1>1, ScanGroupFacts
  <2>4. \A f : SameSource(Lead(g), f) <=> SameSource(Lead(h), f)
    BY <2>1, <2>2 DEF SameSource
  <2> QED
    BY <2>3, <2>4
<1>6. key \in [S -> [1 .. n -> Int]]
  <2>1. key = [g \in S |-> key[g]]
    OBVIOUS
  <2> HIDE DEF key, n
  <2> QED
    BY <2>1, <1>4
<1>7. n \in Nat
  OBVIOUS
<1> HIDE DEF key, n, q
<1>8. q \in Seq(S)
  BY <1>3, <1>5, <1>6, <1>7, InOrderLists DEF q
<1> QED
  BY <1>2, <1>8, RunShape DEF S

\* What a cluster is.
LEMMA ClusterFacts ==
  ASSUME NEW list, CandidatesOK(list), NEW c \in ScanClusters(list)
  PROVE  /\ c = ScanCluster(list, c.key, c.burst) /\ c.burst \in Nat
         /\ c.key[1] \in Int /\ c.key[2] \in Int /\ c.key = <<c.key[1], c.key[2]>>
         /\ Min(Times(c.events)) \in Int
<1>1. PICK k \in ScanKeys(list) : c \in ClustersOf(list, k)
  BY ScanClustersAre
<1>2. PICK b \in DOMAIN ScanRuns(list, k) : c = ScanCluster(list, k, b)
  BY <1>1 DEF ClustersOf, LargeRuns
<1> DEFINE R == ScanRuns(list, k)
           G == ScanGroupsOf(list, k)
           B == R[b]
<1>3. c.key = k /\ c.burst = b /\ c.events = UNION Range(B)
  BY <1>2 DEF ScanCluster
<1>4. R \in Seq(Seq(G)) /\ b \in DOMAIN R /\ B # <<>>
  BY <1>2, ScanRunShape DEF Runs
<1> HIDE DEF R, G
<1>5. b \in Nat /\ B \in Seq(G) /\ B # <<>>
  BY <1>4
<1>6. k[1] \in Int /\ k[2] \in Int /\ k = <<k[1], k[2]>>
  <2>1. PICK g \in FixedPortGroups(list) : k = ScanKey(g)
    BY <1>1 DEF ScanKeys
  <2>2. Lead(g).src \in Int /\ Lead(g).sport \in Int
    BY ScanGroupFacts
  <2> DEFINE a == Lead(g).src
             d == Lead(g).sport
             m == Network(a)
  <2>3. a \in Int /\ d \in Int
    BY <2>2
  <2>5. k = <<m, d>>
    BY <2>1 DEF ScanKey
  <2> HIDE DEF a, d
  <2>4. m \in Int
    BY <2>3 DEF Network
  <2> HIDE DEF m
  <2> QED
    BY <2>3, <2>4, <2>5
<1> HIDE DEF B
<1> DEFINE W == UNION Range(B)
<1>7. Range(B) \in SUBSET G /\ Range(B) # {}
  <2>1. B[1] \in Range(B)
    BY <1>5 DEF Range
  <2> QED
    BY <2>1, <1>5 DEF Range
<1>8. \A g \in G : g \in SUBSET Probes(list) /\ g # {}
  BY ScanGroupFacts DEF G, ScanGroupsOf
<1>9. W \in SUBSET Probes(list) /\ W # {}
  BY <1>7, <1>8
<1> HIDE DEF W
<1>10. Min(Times(W)) \in Int
  <2> DEFINE f == [x \in W |-> x.t]
             N == {f[x] : x \in W}
  <2>1. N \in SUBSET Int /\ N # {}
    BY <1>9, ProbeFacts
  <2>2. Times(W) = N
    BY DEF Times
  <2>3. IsFiniteSet(W)
    BY <1>9, ProbeFacts, FS_Subset
  <2> HIDE DEF f
  <2>4. IsFiniteSet(N)
    BY <2>3, FiniteImage
  <2> QED
    BY <2>1, <2>2, <2>4, MinMax
<1> QED
  BY <1>2, <1>3, <1>5, <1>6, <1>10 DEF W

\* There are finitely many clusters.
LEMMA ClustersFinite ==
  ASSUME NEW list, CandidatesOK(list)
  PROVE  IsFiniteSet(ScanClusters(list))
<1> DEFINE G == FixedPortGroups(list)
           key == [g \in G |-> ScanKey(g)]
           K == ScanKeys(list)
           f == [k \in K |-> ClustersOf(list, k)]
<1>1. IsFiniteSet(K)
  <2>1. K = {key[g] : g \in G}
    BY DEF ScanKeys
  <2>2. IsFiniteSet(G)
    BY ScanGroupsFinite
  <2> HIDE DEF G, key
  <2> QED
    BY <2>1, <2>2, FiniteImage
<1>2. ASSUME NEW k \in K PROVE IsFiniteSet(ClustersOf(list, k))
  <2> DEFINE R == ScanRuns(list, k)
             D == DOMAIN R
             L == LargeRuns(list, k)
             c == [b \in L |-> ScanCluster(list, k, b)]
  <2>1. R \in Seq(Seq(ScanGroupsOf(list, k))) /\ L \in SUBSET D
    BY ScanRunShape DEF Runs, LargeRuns
  <2>2. ClustersOf(list, k) = {c[b] : b \in L}
    BY DEF ClustersOf
  <2> HIDE DEF R, L, c
  <2>3. D = 1 .. Len(R) /\ Len(R) \in Nat
    BY <2>1
  <2>4. IsFiniteSet(D)
    BY <2>3, FS_Interval
  <2> HIDE DEF D
  <2>5. IsFiniteSet(L)
    BY <2>1, <2>4, FS_Subset
  <2>6. IsFiniteSet({c[b] : b \in L})
    BY <2>5, FiniteImage
  <2> QED
    BY <2>2, <2>6
<1>3. {ClustersOf(list, k) : k \in K} = {f[k] : k \in K}
  OBVIOUS
<1> HIDE DEF K, f
<1>4. IsFiniteSet({f[k] : k \in K})
  BY <1>1, FiniteImage
<1>5. IsFiniteSet({ClustersOf(list, k) : k \in K})
  BY <1>3, <1>4
<1>6. \A C \in {ClustersOf(list, k) : k \in K} : IsFiniteSet(C)
  BY <1>2
<1>7. IsFiniteSet(UNION {ClustersOf(list, k) : k \in K})
  BY <1>5, <1>6, FS_UNION
<1> QED
  BY <1>7, ScanClustersAre DEF K

-----------------------------------------------------------------------------
(***************************************************************************)
(* The order of the rows.  The keys of the three kinds of rows differ in   *)
(* length, and in their fourth number.                                     *)
(***************************************************************************)

\* Keys are compared as if they were as long as the longest.
Width == 18

Pad(a) == [i \in 1 .. Width |-> IF i \in DOMAIN a THEN a[i] ELSE 0]

\* A longer key is a list of as many numbers.
LEMMA PadType ==
  ASSUME NEW a \in Seq(Int)
  PROVE  Pad(a) \in [1 .. Width -> Int]
<1>1. \A i \in DOMAIN a : a[i] \in Int
  OBVIOUS
<1>2. \A i \in 1 .. Width : (IF i \in DOMAIN a THEN a[i] ELSE 0) \in Int
  BY <1>1
<1> QED
  BY <1>2 DEF Pad

\* Two keys compare as the longer ones do when they are equally long or differ in
\* their fourth number, which all of them have.
LEMMA PadPrecedes ==
  ASSUME NEW l \in 4 .. Width, NEW m \in 4 .. Width,
         NEW a \in [1 .. l -> Int], NEW b \in [1 .. m -> Int],
         a[4] # b[4] \/ l = m
  PROVE  Precedes(a, b) <=> Precedes(Pad(a), Pad(b))
<1> DEFINE n == Width
<1>1. /\ DOMAIN a = 1 .. l /\ DOMAIN b = 1 .. m /\ n \in Int
      /\ l \in Int /\ m \in Int /\ 4 <= l /\ l <= n /\ 4 <= m /\ m <= n
      /\ \A i \in DOMAIN a : a[i] \in Int
      /\ \A i \in DOMAIN b : b[i] \in Int
  BY DEF Width
<1> DEFINE p == Pad(a)
           q == Pad(b)
<1>2. /\ DOMAIN p = 1 .. n /\ DOMAIN q = 1 .. n
      /\ \A i \in 1 .. n : p[i] = IF i \in DOMAIN a THEN a[i] ELSE 0
      /\ \A i \in 1 .. n : q[i] = IF i \in DOMAIN b THEN b[i] ELSE 0
  BY DEF Pad
<1> HIDE DEF p, q, n
<1>3. ASSUME Precedes(a, b) PROVE Precedes(p, q)
  <2>1. PICK i \in DOMAIN a : (\A j \in 1 .. i - 1 : a[j] = b[j]) /\ a[i] < b[i]
    BY <1>3 DEF Precedes
  <2>2. i \in DOMAIN b
    <3>1. CASE l = m
      BY <3>1, <1>1
    <3>2. CASE a[4] # b[4]
      <4>1. i <= 4
        <5> SUFFICES ASSUME ~(i <= 4) PROVE FALSE
          OBVIOUS
        <5>1. 4 \in 1 .. i - 1
          BY <1>1, <2>1
        <5> QED
          BY <5>1, <2>1, <3>2
      <4> QED
        BY <4>1, <1>1, <2>1
    <3> QED
      BY <3>1, <3>2
  <2>3. i \in DOMAIN p /\ \A j \in 1 .. i : j \in DOMAIN a /\ j \in DOMAIN b /\ j \in 1 .. n
    BY <2>1, <2>2, <1>1, <1>2
  <2>4. \A j \in 1 .. i : p[j] = a[j] /\ q[j] = b[j]
    BY <2>3, <1>2
  <2>5. i \in 1 .. i /\ \A j \in 1 .. i - 1 : j \in 1 .. i
    BY <1>1, <2>1
  <2> QED
    BY <2>1, <2>3, <2>4, <2>5 DEF Precedes
<1>4. ASSUME Precedes(p, q) PROVE Precedes(a, b)
  <2>1. PICK i \in 1 .. n : (\A j \in 1 .. i - 1 : p[j] = q[j]) /\ p[i] < q[i]
    BY <1>2, <1>4 DEF Precedes
  <2>2. i \in DOMAIN a /\ i \in DOMAIN b
    <3>1. CASE l = m
      <4>1. DOMAIN a = DOMAIN b
        BY <3>1, <1>1
      <4> SUFFICES ASSUME i \notin DOMAIN a PROVE FALSE
        BY <4>1
      <4>2. p[i] = 0 /\ q[i] = 0
        BY <4>1, <1>2
      <4> QED
        BY <4>2, <2>1
    <3>2. CASE a[4] # b[4]
      <4>1. i <= 4
        <5> SUFFICES ASSUME ~(i <= 4) PROVE FALSE
          OBVIOUS
        <5>1. 4 \in 1 .. i - 1 /\ 4 \in 1 .. n /\ 4 \in DOMAIN a /\ 4 \in DOMAIN b
          BY <1>1, <2>1
        <5>2. p[4] = a[4] /\ q[4] = b[4]
          BY <5>1, <1>2
        <5> QED
          BY <5>1, <5>2, <2>1, <3>2
      <4> QED
        BY <4>1, <1>1, <2>1
    <3> QED
      BY <3>1, <3>2
  <2>3. \A j \in 1 .. i : j \in DOMAIN a /\ j \in DOMAIN b /\ j \in 1 .. n
    BY <2>1, <2>2, <1>1
  <2>4. \A j \in 1 .. i : p[j] = a[j] /\ q[j] = b[j]
    BY <2>3, <1>2
  <2>5. i \in 1 .. i /\ \A j \in 1 .. i - 1 : j \in 1 .. i
    BY <1>1, <2>1
  <2> QED
    BY <2>1, <2>2, <2>4, <2>5 DEF Precedes
<1> QED
  BY <1>3, <1>4 DEF p, q

\* The number of a severity.
LEMMA SeverityNumbers ==
  /\ \A sev : SeverityRank(sev) \in 0 .. 5
  /\ \A sev \in Range(SEVERITIES) :
       SeverityRank(sev) \in 0 .. 4 /\ SEVERITIES[SeverityRank(sev) + 1] = sev
  /\ \A n \in 0 .. 4 : SEVERITIES[n + 1] \in Range(SEVERITIES) /\ SeverityRank(SEVERITIES[n + 1]) = n
<1>1. DOMAIN SEVERITIES = 1 .. 5 /\ Len(SEVERITIES) = 5
  BY DEF SEVERITIES
<1>2. \A i, j \in 1 .. 5 : SEVERITIES[i] = SEVERITIES[j] => i = j
  BY DEF SEVERITIES
<1>3. ASSUME NEW sev \in Range(SEVERITIES)
      PROVE  SeverityRank(sev) + 1 \in 1 .. 5 /\ SEVERITIES[SeverityRank(sev) + 1] = sev
             /\ SeverityRank(sev) \in Int
  <2>1. PICK i \in 1 .. 5 : SEVERITIES[i] = sev
    BY <1>1 DEF Range
  <2> DEFINE c == CHOOSE k \in DOMAIN SEVERITIES : SEVERITIES[k] = sev
  <2>2. c \in 1 .. 5 /\ SEVERITIES[c] = sev
    BY <2>1, <1>1
  <2>3. SeverityRank(sev) = c - 1
    BY DEF SeverityRank, Position
  <2> HIDE DEF c
  <2>4. SeverityRank(sev) + 1 = c /\ SeverityRank(sev) \in Int
    BY <2>2, <2>3
  <2> QED
    BY <2>2, <2>4
<1>4. \A sev : sev \notin Range(SEVERITIES) => SeverityRank(sev) = 5
  BY <1>1 DEF SeverityRank, Position
<1>5. ASSUME NEW n \in 0 .. 4
      PROVE  SEVERITIES[n + 1] \in Range(SEVERITIES) /\ SeverityRank(SEVERITIES[n + 1]) = n
  <2>1. n + 1 \in 1 .. 5
    OBVIOUS
  <2>2. SEVERITIES[n + 1] \in Range(SEVERITIES)
    BY <2>1, <1>1 DEF Range
  <2> DEFINE x == SEVERITIES[n + 1]
             m == SeverityRank(x)
  <2>3. m + 1 \in 1 .. 5 /\ SEVERITIES[m + 1] = x /\ m \in Int
    BY <2>2, <1>3
  <2> HIDE DEF m
  <2>4. m + 1 = n + 1
    BY <2>1, <2>3, <1>2
  <2>5. m = n
    BY <2>3, <2>4
  <2> QED
    BY <2>2, <2>5 DEF m
<1>6. \A sev \in Range(SEVERITIES) : SeverityRank(sev) \in 0 .. 4
  BY <1>3
<1>7. \A sev : SeverityRank(sev) \in 0 .. 5
  BY <1>4, <1>6
<1> QED
  BY <1>3, <1>5, <1>6, <1>7

\* The numbers of a row.
RowOK(r) ==
    /\ r.tie \in Seq(Int) /\ r.conf \in Int /\ r.first \in Int
    /\ \/ r.tie[1] = 0 /\ Len(r.tie) = 15
       \/ r.tie[1] = 1 /\ Len(r.tie) = 4
       \/ r.tie[1] = 2 /\ Len(r.tie) = 10
    /\ r.verdict = "suspicious_activity"

\* The key of a row: the severity first, the part that tells rows apart last.
LEMMA RowOrderType ==
  ASSUME NEW r, RowOK(r)
  PROVE  /\ RowOrder(r) \in Seq(Int) /\ Len(RowOrder(r)) = Len(r.tie) + 3
         /\ RowOrder(r)[1] = -SeverityRank(r.sev)
         /\ \A m \in 1 .. Len(r.tie) : RowOrder(r)[m + 3] = r.tie[m]
<1> DEFINE a == -SeverityRank(r.sev)
           b == -r.conf
           c == r.first
           t == r.tie
           h == <<a, b, c>>
           q == h \o t
<1>1. a \in Int /\ b \in Int /\ c \in Int /\ t \in Seq(Int)
  <2>1. SeverityRank(r.sev) \in Int /\ r.conf \in Int
    BY SeverityNumbers DEF RowOK
  <2> QED
    BY <2>1 DEF RowOK
<1>2. RowOrder(r) = q
  BY DEF RowOrder
<1> HIDE DEF a, b, c, t
<1>3. h \in Seq(Int) /\ Len(h) = 3 /\ h[1] = a
  BY <1>1
<1> HIDE DEF h
<1>4. /\ q \in Seq(Int) /\ Len(q) = 3 + Len(t)
      /\ \A i \in 1 .. 3 + Len(t) : q[i] = IF i <= 3 THEN h[i] ELSE t[i - 3]
  <2>1. /\ h \o t \in Seq(Int) /\ Len(h \o t) = Len(h) + Len(t)
        /\ \A i \in 1 .. Len(h) + Len(t) : (h \o t)[i] = IF i <= Len(h) THEN h[i] ELSE t[i - Len(h)]
    BY <1>1, <1>3, ConcatProperties
  <2> QED
    BY <2>1, <1>3
<1> HIDE DEF q
<1>5. Len(t) \in Nat
  BY <1>1
<1>6. q[1] = a
  <2>1. 1 \in 1 .. 3 + Len(t) /\ 1 <= 3
    BY <1>5
  <2> QED
    BY <2>1, <1>3, <1>4
<1>7. ASSUME NEW m \in 1 .. Len(t) PROVE q[m + 3] = t[m]
  <2>1. m + 3 \in 1 .. 3 + Len(t) /\ ~(m + 3 <= 3) /\ (m + 3) - 3 = m
    BY <1>5
  <2> QED
    BY <2>1, <1>4
<1> QED
  BY <1>2, <1>4, <1>5, <1>6, <1>7 DEF a, t

\* The keys of some rows.
RowKeys(R) == [r \in R |-> RowOrder(r)]

\* Rows that have parts of their own are listed once, by their keys.
LEMMA RowsOrdered ==
  ASSUME NEW R, IsFiniteSet(R), \A r \in R : RowOK(r),
         \A r, x \in R : r.tie = x.tie => r = x
  PROVE  ListsInOrder(Ordered(R), R, RowKeys(R))
<1> DEFINE pad == [r \in R |-> Pad(RowOrder(r))]
           key == RowKeys(R)
<1>1. ASSUME NEW r \in R
      PROVE  /\ key[r] = RowOrder(r) /\ pad[r] = Pad(RowOrder(r))
             /\ RowOrder(r) \in Seq(Int) /\ Len(RowOrder(r)) = Len(r.tie) + 3
             /\ Len(RowOrder(r)) \in 4 .. Width
             /\ RowOrder(r)[4] = r.tie[1]
             /\ \A m \in 1 .. Len(r.tie) : RowOrder(r)[m + 3] = r.tie[m]
             /\ pad[r] \in [1 .. Width -> Int]
  <2>1. /\ RowOrder(r) \in Seq(Int) /\ Len(RowOrder(r)) = Len(r.tie) + 3
        /\ \A m \in 1 .. Len(r.tie) : RowOrder(r)[m + 3] = r.tie[m]
    BY RowOrderType
  <2>2. Len(r.tie) \in {4, 10, 15}
    BY DEF RowOK
  <2>3. 1 \in 1 .. Len(r.tie) /\ 1 + 3 = 4 /\ Len(r.tie) + 3 \in 4 .. Width
    <3> DEFINE l == Len(r.tie)
    <3>1. l \in {4, 10, 15}
      BY <2>2
    <3> HIDE DEF l
    <3>2. 1 \in 1 .. l /\ l + 3 \in 4 .. 18
      BY <3>1
    <3> QED
      BY <3>2 DEF l, Width
  <2>4. RowOrder(r)[4] = r.tie[1]
    BY <2>1, <2>3
  <2>5. Pad(RowOrder(r)) \in [1 .. Width -> Int]
    BY <2>1, PadType
  <2> QED
    BY <2>1, <2>3, <2>4, <2>5 DEF RowKeys
<1> HIDE DEF key, pad
<1>2. ASSUME NEW r \in R, NEW x \in R
      PROVE  Precedes(key[r], key[x]) <=> Precedes(pad[r], pad[x])
  <2>1. RowOrder(r)[4] # RowOrder(x)[4] \/ Len(RowOrder(r)) = Len(RowOrder(x))
    <3>1. r.tie[1] = x.tie[1] => Len(r.tie) = Len(x.tie)
      BY DEF RowOK
    <3> QED
      BY <3>1, <1>1
  <2>2. Precedes(RowOrder(r), RowOrder(x)) <=> Precedes(Pad(RowOrder(r)), Pad(RowOrder(x)))
    <3> DEFINE a == RowOrder(r)
               b == RowOrder(x)
    <3>1. /\ a \in Seq(Int) /\ b \in Seq(Int) /\ Len(a) \in 4 .. Width /\ Len(b) \in 4 .. Width
          /\ a[4] # b[4] \/ Len(a) = Len(b)
      BY <2>1, <1>1
    <3> HIDE DEF a, b
    <3>2. a \in [1 .. Len(a) -> Int] /\ b \in [1 .. Len(b) -> Int]
      BY <3>1
    <3>3. Precedes(a, b) <=> Precedes(Pad(a), Pad(b))
      BY <3>1, <3>2, PadPrecedes
    <3> QED
      BY <3>3 DEF a, b
  <2> QED
    BY <2>2, <1>1
<1>3. ASSUME NEW r \in R, NEW x \in R, pad[r] = pad[x] PROVE r = x
  <2> DEFINE a == RowOrder(r)
             b == RowOrder(x)
  <2>1. /\ a \in Seq(Int) /\ b \in Seq(Int) /\ Len(a) \in 4 .. Width /\ Len(b) \in 4 .. Width
        /\ Pad(a) = Pad(b) /\ a[4] = r.tie[1] /\ b[4] = x.tie[1]
        /\ Len(a) = Len(r.tie) + 3 /\ Len(b) = Len(x.tie) + 3
        /\ \A m \in 1 .. Len(r.tie) : a[m + 3] = r.tie[m]
        /\ \A m \in 1 .. Len(x.tie) : b[m + 3] = x.tie[m]
    BY <1>1, <1>3
  <2> HIDE DEF a, b
  <2>2. \A m \in 1 .. Width : /\ m \in DOMAIN a => Pad(a)[m] = a[m]
                              /\ m \in DOMAIN b => Pad(b)[m] = b[m]
    BY DEF Pad
  <2>3. DOMAIN a = 1 .. Len(a) /\ DOMAIN b = 1 .. Len(b) /\ 4 \in 1 .. Width
    BY <2>1 DEF Width
  <2>4. a[4] = b[4]
    <3>1. 4 \in DOMAIN a /\ 4 \in DOMAIN b
      BY <2>1, <2>3
    <3> QED
      BY <3>1, <2>1, <2>2, <2>3
  <2>5. Len(r.tie) = Len(x.tie)
    <3>1. r.tie[1] = x.tie[1]
      BY <2>1, <2>4
    <3> QED
      BY <3>1 DEF RowOK
  <2>6. ASSUME NEW m \in 1 .. Len(r.tie) PROVE r.tie[m] = x.tie[m]
    <3>0. Len(r.tie) \in {4, 10, 15} /\ Width = 18
      BY DEF RowOK, Width
    <3>1. m + 3 \in DOMAIN a /\ m + 3 \in DOMAIN b /\ m + 3 \in 1 .. Width
      <4> DEFINE l == Len(r.tie)
      <4>1. l \in {4, 10, 15} /\ m \in 1 .. l /\ Len(a) = l + 3 /\ Len(b) = l + 3
        BY <3>0, <2>1, <2>5
      <4> HIDE DEF l
      <4>2. m + 3 \in 1 .. l + 3 /\ m + 3 \in 1 .. 18
        BY <4>1
      <4> QED
        BY <4>1, <4>2, <2>3, <3>0
    <3>2. a[m + 3] = b[m + 3]
      BY <3>1, <2>1, <2>2
    <3> QED
      BY <3>2, <2>1, <2>5
  <2>7. r.tie = x.tie
    <3> DEFINE s == r.tie
               t == x.tie
    <3>1. s \in Seq(Int) /\ t \in Seq(Int) /\ Len(s) = Len(t) /\ \A m \in 1 .. Len(s) : s[m] = t[m]
      BY <2>5, <2>6 DEF RowOK
    <3> HIDE DEF s, t
    <3>2. s = [m \in 1 .. Len(s) |-> s[m]] /\ t = [m \in 1 .. Len(s) |-> t[m]]
      BY <3>1
    <3>3. s = t
      BY <3>1, <3>2
    <3> QED
      BY <3>3 DEF s, t
  <2> QED
    BY <2>7
<1>4. TotallyOrdered(R, key)
  <2>1. Width \in Nat
    BY DEF Width
  <2>2. \A r \in R : ~Precedes(key[r], key[r])
    BY <2>1, <1>1, <1>2, PrecedesOrders
  <2>3. \A r, x \in R : r # x => Precedes(key[r], key[x]) \/ Precedes(key[x], key[r])
    BY <2>1, <1>1, <1>2, <1>3, PrecedesOrders
  <2>4. ASSUME NEW r \in R, NEW x \in R, NEW y \in R,
               Precedes(key[r], key[x]), Precedes(key[x], key[y])
        PROVE  Precedes(key[r], key[y])
    <3>1. Precedes(pad[r], pad[x]) /\ Precedes(pad[x], pad[y])
      BY <2>4, <1>2
    <3>2. /\ pad[r] \in [1 .. Width -> Int] /\ pad[x] \in [1 .. Width -> Int]
          /\ pad[y] \in [1 .. Width -> Int]
      BY <1>1
    <3>3. Precedes(pad[r], pad[y])
      BY <2>1, <3>1, <3>2, PrecedesOrders
    <3> QED
      BY <3>3, <1>2
  <2> QED
    BY <2>2, <2>3, <2>4 DEF TotallyOrdered
<1>5. Ordered(R) = InOrder(R, key)
  BY DEF Ordered, Sorted, RowKeys, key
<1> QED
  BY <1>4, <1>5, InOrderTotal DEF key

-----------------------------------------------------------------------------
(***************************************************************************)
(* The rows.                                                               *)
(***************************************************************************)

\* The place of a service among the services.
LEMMA ServicePlaces ==
  /\ \A x : Position(x, SERVICES) \in Int
  /\ \A x, y \in Range(SERVICES) : Position(x, SERVICES) = Position(y, SERVICES) => x = y
  /\ \A p : SensitiveService(p) # "none" => SensitiveService(p) \in Range(SERVICES)
<1>1. DOMAIN SERVICES = 1 .. 19 /\ Len(SERVICES) = 19
  BY DEF SERVICES
<1>2. ASSUME NEW x \in Range(SERVICES)
      PROVE  Position(x, SERVICES) \in 1 .. 19 /\ SERVICES[Position(x, SERVICES)] = x
  <2>1. PICK i \in DOMAIN SERVICES : SERVICES[i] = x
    BY DEF Range
  <2> DEFINE c == CHOOSE k \in DOMAIN SERVICES : SERVICES[k] = x
  <2>2. c \in 1 .. 19 /\ SERVICES[c] = x
    BY <2>1, <1>1
  <2>3. Position(x, SERVICES) = c
    BY DEF Position
  <2> HIDE DEF c
  <2> QED
    BY <2>2, <2>3
<1>3. \A x : x \notin Range(SERVICES) => Position(x, SERVICES) = 20
  BY <1>1 DEF Position
<1>4. \A x : Position(x, SERVICES) \in Int
  BY <1>2, <1>3
<1>5. \A x, y \in Range(SERVICES) : Position(x, SERVICES) = Position(y, SERVICES) => x = y
  BY <1>2
<1>6. ASSUME NEW p, SensitiveService(p) # "none" PROVE SensitiveService(p) \in Range(SERVICES)
  <2> DEFINE S == {"database", "docker", "elasticsearch", "ftp", "ftp_data", "ipmi",
                   "kubernetes", "ldap", "memcached", "mongodb", "msrpc", "rdp", "redis",
                   "smb", "snmp", "ssh", "telnet", "vnc", "winrm"}
  <2>1. ServiceOf(p) # "none" => ServiceOf(p) \in S
    BY DEF ServiceOf
  <2>2. \A x \in S : \E i \in 1 .. 19 : SERVICES[i] = x
    BY DEF SERVICES
  <2>3. SensitiveService(p) = ServiceOf(p)
    BY <1>6 DEF SensitiveService
  <2> HIDE DEF S
  <2> QED
    BY <2>1, <2>2, <2>3, <1>1, <1>6 DEF Range
<1> QED
  BY <1>4, <1>5, <1>6

\* The key of a group is exact.
LEMMA GroupKeyFacts ==
  ASSUME Analysed, NEW i \in incidents, KeyOf(i) # <<>>, NEW k, k = KeyOf(i)
  PROVE  /\ k = <<k[1], k[2], k[3], k[4]>>
         /\ k[1] \in Int /\ k[2] \in Range(SERVICES)
         /\ k[3] \in {"allowed", "blocked"} /\ k[4] \in BOOLEAN
<1> DEFINE W == Own(i)
           sources == Srcs(W)
           services == {SensitiveService(EffectivePort(e)) : e \in W}
           state == IF \A e \in W : IsAllowed(e) THEN "allowed"
                    ELSE IF \A e \in W : IsBlocked(e) THEN "blocked" ELSE "mixed"
           a == CHOOSE x \in sources : TRUE
           s == CHOOSE x \in services : TRUE
           nat == \E e \in W : Translated(e)
<1>1. k = IF /\ W # {} /\ Cardinality(sources) = 1 /\ Cardinality(services) = 1
             /\ "none" \notin services /\ state # "mixed"
          THEN <<a, s, state, nat>> ELSE <<>>
  BY DEF KeyOf, GroupKey, Own
<1>2. W \in SUBSET eligible
  BY IncidentFacts
<1>3. sources \in SUBSET Int
  BY <1>2 DEF Srcs, Addrs, Analysed, EventsOK
<1>4. services \ {"none"} \in SUBSET Range(SERVICES)
  BY ServicePlaces
<1>5. state \in {"allowed", "blocked", "mixed"} /\ nat \in BOOLEAN
  OBVIOUS
<1> HIDE DEF W, sources, services, state, a, s, nat
<1>6. /\ Cardinality(sources) = 1 /\ Cardinality(services) = 1
      /\ "none" \notin services /\ state # "mixed" /\ k = <<a, s, state, nat>>
  BY <1>1
<1>7. sources # {} /\ services # {}
  BY <1>6, FS_EmptySet
<1>8. a \in sources /\ s \in services
  BY <1>7 DEF a, s
<1>9. k[1] = a /\ k[2] = s /\ k[3] = state /\ k[4] = nat
  BY <1>6
<1>10. k = <<k[1], k[2], k[3], k[4]>>
  BY <1>6, <1>9
<1> QED
  BY <1>3, <1>4, <1>5, <1>6, <1>8, <1>9, <1>10

\* A list that begins with h and ends with the key of an incident.
LEMMA TieType ==
  ASSUME NEW h \in Seq(Int), NEW l \in Nat, NEW t \in [1 .. l -> Int], NEW q, q = h \o t
  PROVE  /\ q \in Seq(Int) /\ Len(q) = Len(h) + l
         /\ \A i \in 1 .. Len(h) : q[i] = h[i]
         /\ \A i \in 1 .. l : q[i + Len(h)] = t[i]
<1>1. t \in Seq(Int) /\ Len(t) = l /\ Len(h) \in Nat
  OBVIOUS
<1>2. /\ h \o t \in Seq(Int) /\ Len(h \o t) = Len(h) + Len(t)
      /\ \A i \in 1 .. Len(h) + Len(t) : (h \o t)[i] = IF i <= Len(h) THEN h[i] ELSE t[i - Len(h)]
  BY <1>1, ConcatProperties
<1> DEFINE n == Len(h)
<1>3. n \in Nat
  BY <1>1
<1>4. /\ q \in Seq(Int) /\ Len(q) = n + l
      /\ \A i \in 1 .. n + l : q[i] = IF i <= n THEN h[i] ELSE t[i - n]
  BY <1>1, <1>2
<1> HIDE DEF n
<1>5. ASSUME NEW i \in 1 .. n PROVE q[i] = h[i]
  <2>1. i \in 1 .. n + l /\ i <= n
    BY <1>3
  <2> QED
    BY <2>1, <1>4
<1>6. ASSUME NEW i \in 1 .. l PROVE q[i + n] = t[i]
  <2>1. i + n \in 1 .. n + l /\ ~(i + n <= n) /\ (i + n) - n = i
    BY <1>3
  <2>2. q[i + n] = t[(i + n) - n]
    BY <2>1, <1>4
  <2> QED
    BY <2>1, <2>2
<1> QED
  BY <1>4, <1>5, <1>6 DEF n

\* What a row of one incident is.
LEMMA IncidentRow ==
  ASSUME Analysed, NEW i \in incidents, NEW r, r = RowOfIncident(i, Own(i))
  PROVE  /\ RowOK(r) /\ r.tie[1] = 2 /\ \A m \in 1 .. 9 : r.tie[m + 1] = KeeperKey(i)[m]
         /\ r.id = <<"inc", i.anchor>> /\ r.members = {i.anchor}
         /\ r.sev = IF IsExposure(i) THEN Disposition(i, Own(i)).sev ELSE i.sev
<1>1. /\ KeeperKey(i) \in [1 .. 9 -> Int] /\ i.first \in Int /\ i.conf \in Int /\ Own(i) # {}
  BY IncidentFacts
<1>2. /\ r.tie = <<2>> \o KeeperKey(i) /\ r.conf = i.conf /\ r.first = i.first
      /\ r.id = <<"inc", i.anchor>> /\ r.members = {i.anchor}
      /\ r.sev = IF IsExposure(i) THEN Disposition(i, Own(i)).sev ELSE i.sev
      /\ r.verdict = IF IsExposure(i) THEN Disposition(i, Own(i)).verdict ELSE "suspicious_activity"
  BY DEF RowOfIncident, Row
<1>3. Disposition(i, Own(i)).verdict = "suspicious_activity"
  BY <1>1 DEF Disposition
<1> DEFINE h == <<2>>
           t == KeeperKey(i)
           q == r.tie
<1>4. h \in Seq(Int) /\ Len(h) = 1 /\ h[1] = 2 /\ q = h \o t /\ t \in [1 .. 9 -> Int]
  BY <1>1, <1>2
<1> HIDE DEF h, t, q
<1>5. /\ q \in Seq(Int) /\ Len(q) = Len(h) + 9
      /\ \A j \in 1 .. Len(h) : q[j] = h[j]
      /\ \A j \in 1 .. 9 : q[j + Len(h)] = t[j]
  <2> DEFINE l == 9
  <2>1. h \in Seq(Int) /\ l \in Nat /\ t \in [1 .. l -> Int] /\ q = h \o t
    BY <1>4
  <2> HIDE DEF l
  <2>2. q \in Seq(Int) /\ Len(q) = Len(h) + l
    BY <2>1, TieType
  <2>3. \A j \in 1 .. Len(h) : q[j] = h[j]
    BY <2>1, TieType
  <2>4. \A j \in 1 .. l : q[j + Len(h)] = t[j]
    BY <2>1, TieType
  <2> QED
    BY <2>2, <2>3, <2>4 DEF l
<1>6. Len(q) = 10 /\ q[1] = 2 /\ \A j \in 1 .. 9 : q[j + 1] = t[j]
  <2>1. Len(q) = 10
    BY <1>4, <1>5
  <2>2. q[1] = 2
    <3>1. 1 \in 1 .. Len(h)
      BY <1>4
    <3>2. q[1] = h[1]
      BY <3>1, <1>5
    <3> QED
      BY <3>2, <1>4
  <2>3. ASSUME NEW j \in 1 .. 9 PROVE q[j + 1] = t[j]
    <3>1. q[j + Len(h)] = t[j]
      BY <1>5
    <3> QED
      BY <3>1, <1>4
  <2> QED
    BY <2>1, <2>2, <2>3
<1>7. RowOK(r)
  BY <1>1, <1>2, <1>3, <1>5, <1>6 DEF RowOK, q
<1> QED
  BY <1>2, <1>6, <1>7 DEF q, t

\* The numbers of the incidents of a group.
LEMMA MemberNumbers ==
  ASSUME Analysed, NEW M \in SUBSET incidents, M # {}
  PROVE  /\ Max({i.conf : i \in M}) \in Int /\ Min({i.first : i \in M}) \in Int
<1> DEFINE f == [i \in M |-> i.conf]
           d == [i \in M |-> i.first]
           C == {f[i] : i \in M}
           D == {d[i] : i \in M}
<1>1. IsFiniteSet(M)
  BY FS_Subset DEF Analysed, Correlated
<1>2. C = {i.conf : i \in M} /\ D = {i.first : i \in M}
  OBVIOUS
<1>3. C \in SUBSET Int /\ C # {} /\ D \in SUBSET Int /\ D # {}
  BY IncidentFacts
<1> HIDE DEF f, d
<1>4. IsFiniteSet(C) /\ IsFiniteSet(D)
  BY <1>1, FiniteImage
<1>5. Max(C) \in Int /\ Min(D) \in Int
  BY <1>3, <1>4, MinMax
<1> QED
  BY <1>2, <1>5

\* The members that a row lists exist, and are as many as the row has room for.
LEMMA ListedFacts ==
  ASSUME NEW M, IsFiniteSet(M)
  PROVE  /\ Listed(M) \in SUBSET M
         /\ Listed(M) # M => Cardinality(Listed(M)) = MaxMembers
<1> DEFINE n == Cardinality(M)
           k == IF n < MaxMembers THEN n ELSE MaxMembers
<1>1. n \in Nat /\ MaxMembers \in Nat /\ k \in 0 .. n
  BY FS_CardinalityType, BriefAssumption
<1>2. PICK f : f \in Bijection(1 .. n, M)
  BY FS_CardinalityType DEF ExistsBijection
<1> HIDE DEF n, k
<1> DEFINE S == {f[i] : i \in 1 .. k}
<1>3. S \in SUBSET M
  BY <1>1, <1>2 DEF Bijection, Injection, Surjection, IsInjective
<1>4. Cardinality(S) = k
  <2> DEFINE g == [i \in 1 .. k |-> f[i]]
  <2>1. g \in Bijection(1 .. k, S)
    <3>1. \A i, j \in 1 .. k : g[i] = g[j] => i = j
      BY <1>1, <1>2 DEF Bijection, Injection, IsInjective
    <3> QED
      BY <3>1 DEF Bijection, Injection, Surjection, IsInjective
  <2> HIDE DEF g, S
  <2>2. k \in Nat /\ ExistsBijection(1 .. k, S)
    BY <1>1, <2>1 DEF ExistsBijection
  <2> QED
    BY <2>2, FS_CountingElements
<1> HIDE DEF S
<1>5. Listed(M) \in SUBSET M /\ Cardinality(Listed(M)) = k
  BY <1>3, <1>4 DEF Listed, k, n
<1>6. ASSUME k = n PROVE Listed(M) = M
  BY <1>5, <1>6, FS_Subset DEF n
<1> QED
  BY <1>5, <1>6 DEF k

\* What a row of a group is.
LEMMA GroupRow ==
  ASSUME Analysed, NEW I \in SUBSET incidents, NEW g \in ExposureGroups(I, eligible),
         NEW r, r = RowOfGroup(g, eligible)
  PROVE  /\ RowOK(r) /\ r.tie[1] = 0
         /\ r.tie[2] = g.key[1] /\ r.tie[3] = Position(g.key[2], SERVICES)
         /\ r.tie[4] = (IF g.key[3] = "allowed" THEN 0 ELSE 1)
         /\ r.tie[5] = g.burst /\ r.tie[6] = (IF g.key[4] THEN 1 ELSE 0)
         /\ r.id = <<"exp", g.key[1], g.key[2], g.key[3], g.burst>>
         /\ r.members = {i.anchor : i \in Listed(g.members)}
         /\ r.sev = Strongest({d.sev : d \in {Disposition(i, Own(i)) : i \in g.members}})
<1> DEFINE x == CHOOSE i \in g.members : TRUE
           service == Position(g.key[2], SERVICES)
           state == IF g.key[3] = "allowed" THEN 0 ELSE 1
           nat == IF g.key[4] THEN 1 ELSE 0
           h == <<0, g.key[1], service, state, g.burst, nat>>
           t == KeeperKey(x)
           q == r.tie
           V == {Disposition(i, Own(i)) : i \in g.members}
<1>1. /\ g.members \in SUBSET incidents /\ g.members # {} /\ g.burst \in Nat
      /\ \A i \in g.members : KeyOf(i) = g.key /\ KeyOf(i) # <<>>
  BY GroupFacts
<1>2. x \in g.members
  BY <1>1
<1>3. V = {Disposition(i, EventsOf(eligible, i.ids)) : i \in g.members}
  BY DEF Own
<1>4. /\ q = h \o t
      /\ r.conf = Max({i.conf : i \in g.members}) /\ r.first = Min({i.first : i \in g.members})
      /\ r.id = <<"exp", g.key[1], g.key[2], g.key[3], g.burst>>
      /\ r.members = {i.anchor : i \in Listed(g.members)}
      /\ r.sev = Strongest({d.sev : d \in V})
      /\ r.verdict = IF \E d \in V : d.verdict = "needs_review"
                     THEN "needs_review" ELSE "suspicious_activity"
  BY <1>3 DEF RowOfGroup, Row
<1>5. \A d \in V : d.verdict = "suspicious_activity"
  <2>1. ASSUME NEW i \in g.members PROVE Disposition(i, Own(i)).verdict = "suspicious_activity"
    BY <1>1, IncidentFacts DEF Disposition
  <2> QED
    BY <2>1
<1>6. g.key[1] \in Int /\ service \in Int /\ state \in Int /\ g.burst \in Int /\ nat \in Int
  BY <1>1, <1>2, GroupKeyFacts, ServicePlaces
<1>7. t \in [1 .. 9 -> Int]
  BY <1>1, <1>2, IncidentFacts
<1> HIDE DEF V, x
<1>8. r.verdict = "suspicious_activity"
  BY <1>4, <1>5
<1>9. r.conf \in Int /\ r.first \in Int
  BY <1>1, <1>4, MemberNumbers
<1> DEFINE a == g.key[1]
           b == g.burst
<1>10. a \in Int /\ b \in Int /\ h = <<0, a, service, state, b, nat>>
  BY <1>6
<1> HIDE DEF a, b, service, state, nat, h, t, q
<1>11. /\ h \in Seq(Int) /\ Len(h) = 6 /\ h[1] = 0 /\ h[2] = a /\ h[3] = service
       /\ h[4] = state /\ h[5] = b /\ h[6] = nat
  BY <1>6, <1>10
<1>12. /\ q \in Seq(Int) /\ Len(q) = Len(h) + 9
       /\ \A j \in 1 .. Len(h) : q[j] = h[j]
  <2> DEFINE l == 9
  <2>1. h \in Seq(Int) /\ l \in Nat /\ t \in [1 .. l -> Int] /\ q = h \o t
    BY <1>4, <1>7, <1>11
  <2> HIDE DEF l
  <2>2. q \in Seq(Int) /\ Len(q) = Len(h) + l
    BY <2>1, TieType
  <2>3. \A j \in 1 .. Len(h) : q[j] = h[j]
    BY <2>1, TieType
  <2> QED
    BY <2>2, <2>3 DEF l
<1>13. /\ Len(q) = 15 /\ q[1] = 0 /\ q[2] = a /\ q[3] = service
       /\ q[4] = state /\ q[5] = b /\ q[6] = nat
  <2>1. \A j \in 1 .. 6 : q[j] = h[j]
    BY <1>11, <1>12
  <2> QED
    BY <2>1, <1>11, <1>12
<1>14. RowOK(r)
  BY <1>8, <1>9, <1>12, <1>13 DEF RowOK, q
<1> QED
  BY <1>4, <1>13, <1>14 DEF V, a, b, service, state, nat, q

\* What a row of a cluster is.
LEMMA ClusterRow ==
  ASSUME CandidatesOK(candidates), NEW c \in ScanClusters(candidates), NEW r, r = RowOfCluster(c)
  PROVE  /\ RowOK(r) /\ r.tie[1] = 1
         /\ r.tie[2] = c.key[1] /\ r.tie[3] = c.key[2] /\ r.tie[4] = c.burst
         /\ r.id = <<"fsp", c.key[1], c.key[2], c.burst>> /\ r.members = {}
<1> DEFINE k == c.key[1]
           l == c.key[2]
           b == c.burst
           f == Min(Times(c.events))
<1>1. k \in Int /\ l \in Int /\ b \in Int /\ f \in Int
  BY ClusterFacts
<1>2. /\ r.tie = <<1, k, l, b>> /\ r.conf = 800 /\ r.first = f
      /\ r.verdict = "suspicious_activity"
      /\ r.id = <<"fsp", k, l, b>> /\ r.members = {}
  BY DEF RowOfCluster, Row
<1> HIDE DEF k, l, b, f
<1>3. /\ r.tie \in Seq(Int) /\ Len(r.tie) = 4 /\ r.tie[1] = 1 /\ r.tie[2] = k /\ r.tie[3] = l
      /\ r.tie[4] = b
  BY <1>1, <1>2
<1>4. RowOK(r)
  BY <1>1, <1>2, <1>3 DEF RowOK
<1> QED
  BY <1>2, <1>3, <1>4 DEF k, l, b

-----------------------------------------------------------------------------
(***************************************************************************)
(* All rows of a brief.                                                    *)
(***************************************************************************)

\* The groups of the incidents that were routed to the brief, and what they list.
Groups == ExposureGroups(Eligible, eligible)
Grouped == UNION {Listed(g.members) : g \in Groups}
\* The rows of the three kinds.
GroupRows == {RowOfGroup(g, eligible) : g \in Groups}
IncidentRows == {RowOfIncident(i, Own(i)) : i \in Eligible \ Grouped}
ClusterRows == {RowOfCluster(c) : c \in ScanClusters(candidates)}
Rows == GroupRows \cup IncidentRows \cup ClusterRows

\* build_brief_selection makes these rows.
LEMMA RowsAre == BriefRowsOf(Eligible, eligible, candidates) = Rows
<1> DEFINE groups == ExposureGroups(Eligible, eligible)
           grouped == UNION {Listed(g.members) : g \in groups}
<1>1. groups = Groups /\ grouped = Grouped
  BY DEF Groups, Grouped
<1>2. BriefRowsOf(Eligible, eligible, candidates) =
        {RowOfGroup(g, eligible) : g \in groups}
          \cup {RowOfIncident(i, EventsOf(eligible, i.ids)) : i \in Eligible \ grouped}
          \cup {RowOfCluster(c) : c \in ScanClusters(candidates)}
  BY DEF BriefRowsOf
<1> HIDE DEF groups, grouped
<1> QED
  BY <1>1, <1>2 DEF Rows, GroupRows, IncidentRows, ClusterRows, Own

\* What is routed to the brief is an incident.
LEMMA EligibleIncidents == Eligible \in SUBSET incidents
BY DEF Eligible, Routed

\* There are finitely many rows.
LEMMA RowsFinite ==
  ASSUME Analysed, CandidatesOK(candidates)
  PROVE  IsFiniteSet(Rows)
<1> DEFINE ofGroup == [g \in Groups |-> RowOfGroup(g, eligible)]
           ofIncident == [i \in Eligible \ Grouped |-> RowOfIncident(i, Own(i))]
           ofCluster == [c \in ScanClusters(candidates) |-> RowOfCluster(c)]
<1>1. /\ GroupRows = {ofGroup[g] : g \in Groups}
      /\ IncidentRows = {ofIncident[i] : i \in Eligible \ Grouped}
      /\ ClusterRows = {ofCluster[c] : c \in ScanClusters(candidates)}
  BY DEF GroupRows, IncidentRows, ClusterRows
<1> HIDE DEF ofGroup, ofIncident, ofCluster
<1>2. IsFiniteSet(Groups)
  BY EligibleIncidents, GroupsCover DEF Groups
<1>3. IsFiniteSet(Eligible \ Grouped)
  BY EligibleIncidents, FS_Subset DEF Analysed, Correlated
<1>4. IsFiniteSet(ScanClusters(candidates))
  BY ClustersFinite
<1>5. IsFiniteSet(GroupRows) /\ IsFiniteSet(IncidentRows) /\ IsFiniteSet(ClusterRows)
  BY <1>1, <1>2, <1>3, <1>4, FiniteImage
<1> QED
  BY <1>5, FS_Union DEF Rows

\* The first number of the last part of the key tells the kinds of rows apart.
LEMMA RowKinds ==
  ASSUME Analysed, CandidatesOK(candidates), NEW r \in Rows
  PROVE  /\ RowOK(r)
         /\ r.tie[1] = 0 => r \in GroupRows
         /\ r.tie[1] = 1 => r \in ClusterRows
         /\ r.tie[1] = 2 => r \in IncidentRows
<1>1. CASE r \in GroupRows
  <2>1. PICK g \in Groups : r = RowOfGroup(g, eligible)
    BY <1>1 DEF GroupRows
  <2>2. RowOK(r) /\ r.tie[1] = 0
    BY <2>1, EligibleIncidents, GroupRow DEF Groups
  <2> QED
    BY <1>1, <2>2
<1>2. CASE r \in IncidentRows
  <2>1. PICK i \in Eligible \ Grouped : r = RowOfIncident(i, Own(i))
    BY <1>2 DEF IncidentRows
  <2>2. RowOK(r) /\ r.tie[1] = 2
    BY <2>1, EligibleIncidents, IncidentRow
  <2> QED
    BY <1>2, <2>2
<1>3. CASE r \in ClusterRows
  <2>1. PICK c \in ScanClusters(candidates) : r = RowOfCluster(c)
    BY <1>3 DEF ClusterRows
  <2>2. RowOK(r) /\ r.tie[1] = 1
    BY <2>1, ClusterRow
  <2> QED
    BY <1>3, <2>2
<1> QED
  BY <1>1, <1>2, <1>3 DEF Rows

\* The keys of two groups of the same source, service and action.
LEMMA GroupKeysApart ==
  ASSUME Analysed, NEW g \in Groups, NEW h \in Groups,
         g.key[1] = h.key[1], g.key[2] = h.key[2], g.key[3] = h.key[3],
         g.burst = h.burst
  PROVE  /\ g.key[4] = h.key[4] => g = h
         /\ g # h => g.members \cap h.members = {}
<1>1. /\ g.members # {} /\ h.members # {}
      /\ \A i \in g.members : i \in incidents /\ KeyOf(i) = g.key /\ KeyOf(i) # <<>>
      /\ \A i \in h.members : i \in incidents /\ KeyOf(i) = h.key /\ KeyOf(i) # <<>>
  BY EligibleIncidents, GroupFacts DEF Groups
<1>2. g.key = <<g.key[1], g.key[2], g.key[3], g.key[4]>>
  BY <1>1, GroupKeyFacts
<1>3. h.key = <<h.key[1], h.key[2], h.key[3], h.key[4]>>
  BY <1>1, GroupKeyFacts
<1>4. g.key[4] = h.key[4] => g.key = h.key
  BY <1>2, <1>3
<1> QED
  BY <1>4, EligibleIncidents, GroupsApart DEF Groups

\* The last part of the key is that of one row.
LEMMA TiesApart ==
  ASSUME Analysed, CandidatesOK(candidates), NEW r \in Rows, NEW x \in Rows, r.tie = x.tie
  PROVE  r = x
<1>1. r.tie[1] \in {0, 1, 2}
  BY RowKinds DEF RowOK
<1>2. CASE r.tie[1] = 0
  <2>1. r \in GroupRows /\ x \in GroupRows
    BY <1>2, RowKinds
  <2>2. PICK g \in Groups : r = RowOfGroup(g, eligible)
    BY <2>1 DEF GroupRows
  <2>3. PICK h \in Groups : x = RowOfGroup(h, eligible)
    BY <2>1 DEF GroupRows
  <2>4. /\ r.tie[2] = g.key[1] /\ r.tie[3] = Position(g.key[2], SERVICES)
        /\ r.tie[4] = (IF g.key[3] = "allowed" THEN 0 ELSE 1)
        /\ r.tie[5] = g.burst /\ r.tie[6] = (IF g.key[4] THEN 1 ELSE 0)
    BY <2>2, EligibleIncidents, GroupRow DEF Groups
  <2>5. /\ x.tie[2] = h.key[1] /\ x.tie[3] = Position(h.key[2], SERVICES)
        /\ x.tie[4] = (IF h.key[3] = "allowed" THEN 0 ELSE 1)
        /\ x.tie[5] = h.burst /\ x.tie[6] = (IF h.key[4] THEN 1 ELSE 0)
    BY <2>3, EligibleIncidents, GroupRow DEF Groups
  <2>6. /\ g.key[2] \in Range(SERVICES) /\ h.key[2] \in Range(SERVICES)
        /\ g.key[3] \in {"allowed", "blocked"} /\ h.key[3] \in {"allowed", "blocked"}
        /\ g.key[4] \in BOOLEAN /\ h.key[4] \in BOOLEAN
    <3>1. ASSUME NEW f \in Groups
          PROVE  /\ f.key[2] \in Range(SERVICES) /\ f.key[3] \in {"allowed", "blocked"}
                 /\ f.key[4] \in BOOLEAN
      <4>1. /\ f.members # {}
            /\ \A i \in f.members : i \in incidents /\ KeyOf(i) = f.key /\ KeyOf(i) # <<>>
        BY EligibleIncidents, GroupFacts DEF Groups
      <4> QED
        BY <4>1, GroupKeyFacts
    <3> QED
      BY <3>1
  <2>7. g.key[1] = h.key[1] /\ g.burst = h.burst
    BY <2>4, <2>5
  <2>8. g.key[2] = h.key[2]
    BY <2>4, <2>5, <2>6, ServicePlaces
  <2>9. g.key[3] = h.key[3] /\ g.key[4] = h.key[4]
    BY <2>4, <2>5, <2>6
  <2>10. g = h
    BY <2>7, <2>8, <2>9, GroupKeysApart
  <2> QED
    BY <2>2, <2>3, <2>10
<1>3. CASE r.tie[1] = 1
  <2>1. r \in ClusterRows /\ x \in ClusterRows
    BY <1>3, RowKinds
  <2>2. PICK c \in ScanClusters(candidates) : r = RowOfCluster(c)
    BY <2>1 DEF ClusterRows
  <2>3. PICK d \in ScanClusters(candidates) : x = RowOfCluster(d)
    BY <2>1 DEF ClusterRows
  <2>4. r.tie[2] = c.key[1] /\ r.tie[3] = c.key[2] /\ r.tie[4] = c.burst
    BY <2>2, ClusterRow
  <2>5. x.tie[2] = d.key[1] /\ x.tie[3] = d.key[2] /\ x.tie[4] = d.burst
    BY <2>3, ClusterRow
  <2>6. c = ScanCluster(candidates, c.key, c.burst) /\ c.key = <<c.key[1], c.key[2]>>
    BY ClusterFacts
  <2>7. d = ScanCluster(candidates, d.key, d.burst) /\ d.key = <<d.key[1], d.key[2]>>
    BY ClusterFacts
  <2>8. c.key = d.key /\ c.burst = d.burst
    BY <2>4, <2>5, <2>6, <2>7
  <2>9. c = d
    BY <2>6, <2>7, <2>8
  <2> QED
    BY <2>2, <2>3, <2>9
<1>4. CASE r.tie[1] = 2
  <2>1. r \in IncidentRows /\ x \in IncidentRows
    BY <1>4, RowKinds
  <2>2. PICK i \in Eligible \ Grouped : r = RowOfIncident(i, Own(i))
    BY <2>1 DEF IncidentRows
  <2>3. PICK j \in Eligible \ Grouped : x = RowOfIncident(j, Own(j))
    BY <2>1 DEF IncidentRows
  <2>4. i \in incidents /\ j \in incidents
    BY <2>2, <2>3, EligibleIncidents
  <2>5. \A m \in 1 .. 9 : r.tie[m + 1] = KeeperKey(i)[m]
    BY <2>2, <2>4, IncidentRow
  <2>6. \A m \in 1 .. 9 : x.tie[m + 1] = KeeperKey(j)[m]
    BY <2>3, <2>4, IncidentRow
  <2>7. KeeperKey(i) \in [1 .. 9 -> Int] /\ KeeperKey(j) \in [1 .. 9 -> Int]
    BY <2>4, IncidentFacts
  <2> DEFINE a == KeeperKey(i)
             b == KeeperKey(j)
  <2>8. \A m \in 1 .. 9 : a[m] = b[m]
    BY <2>5, <2>6
  <2>9. a = [m \in 1 .. 9 |-> a[m]] /\ b = [m \in 1 .. 9 |-> b[m]]
    BY <2>7
  <2> HIDE DEF a, b
  <2>10. a = b
    BY <2>8, <2>9
  <2>11. i = j
    BY <2>4, <2>10, IncidentsApart DEF a, b
  <2> QED
    BY <2>2, <2>3, <2>11
<1> QED
  BY <1>1, <1>2, <1>3, <1>4

-----------------------------------------------------------------------------
(***************************************************************************)
(* Where an incident is shown.                                             *)
(***************************************************************************)

\* What a group lists.
LEMMA GroupLists ==
  ASSUME Analysed, NEW g \in Groups
  PROVE  /\ g.members \in SUBSET Eligible
         /\ Listed(g.members) \in SUBSET g.members /\ Listed(g.members) \in SUBSET Eligible
         /\ IsFiniteSet(Listed(g.members))
         /\ Listed(g.members) # g.members => Cardinality(Listed(g.members)) = MaxMembers
<1>1. g.members \in SUBSET Eligible
  BY EligibleIncidents, GroupFacts DEF Groups
<1>2. IsFiniteSet(g.members)
  BY <1>1, EligibleIncidents, FS_Subset DEF Analysed, Correlated
<1>3. /\ Listed(g.members) \in SUBSET g.members
      /\ Listed(g.members) # g.members => Cardinality(Listed(g.members)) = MaxMembers
  BY <1>2, ListedFacts
<1> QED
  BY <1>1, <1>2, <1>3, FS_Subset

\* The members of the rows.
LEMMA RowMembers ==
  ASSUME Analysed, CandidatesOK(candidates), NEW r \in Rows
  PROVE  \/ \E g \in Groups :
              r = RowOfGroup(g, eligible) /\ r.members = {i.anchor : i \in Listed(g.members)}
         \/ \E i \in Eligible \ Grouped : r = RowOfIncident(i, Own(i)) /\ r.members = {i.anchor}
         \/ r.members = {}
<1>1. CASE r \in GroupRows
  <2>1. PICK g \in Groups : r = RowOfGroup(g, eligible)
    BY <1>1 DEF GroupRows
  <2> QED
    BY <2>1, EligibleIncidents, GroupRow DEF Groups
<1>2. CASE r \in IncidentRows
  <2>1. PICK i \in Eligible \ Grouped : r = RowOfIncident(i, Own(i))
    BY <1>2 DEF IncidentRows
  <2> QED
    BY <2>1, EligibleIncidents, IncidentRow
<1>3. CASE r \in ClusterRows
  BY <1>3, ClusterRow DEF ClusterRows
<1> QED
  BY <1>1, <1>2, <1>3 DEF Rows

\* An incident is in one row.
LEMMA InOneRow ==
  ASSUME Analysed, CandidatesOK(candidates), NEW i \in Eligible
  PROVE  \E x \in Rows : {r \in Rows : i.anchor \in r.members} = {x}
<1>1. \A g \in Groups : Listed(g.members) \in SUBSET Eligible
  BY GroupLists
<1>2. \A j \in Eligible : j.anchor = i.anchor => j = i
  BY EligibleIncidents, IncidentsApart
<1>3. ASSUME NEW g \in Groups, i \in Listed(g.members)
      PROVE  \E x \in Rows : {r \in Rows : i.anchor \in r.members} = {x}
  <2> DEFINE x == RowOfGroup(g, eligible)
  <2>1. x \in Rows /\ x.members = {j.anchor : j \in Listed(g.members)}
    BY EligibleIncidents, GroupRow DEF Rows, GroupRows, Groups
  <2>2. ASSUME NEW r \in Rows, i.anchor \in r.members PROVE r = x
    <3>1. CASE \E h \in Groups :
                 r = RowOfGroup(h, eligible) /\ r.members = {j.anchor : j \in Listed(h.members)}
      <4>1. PICK h \in Groups :
              r = RowOfGroup(h, eligible) /\ r.members = {j.anchor : j \in Listed(h.members)}
        BY <3>1
      <4>2. i \in Listed(h.members)
        BY <1>1, <1>2, <2>2, <4>1
      <4>3. h = g
        BY <1>3, <4>2, GroupLists, EligibleIncidents, GroupsApart DEF Groups
      <4> QED
        BY <4>1, <4>3
    <3>2. CASE \E j \in Eligible \ Grouped : r = RowOfIncident(j, Own(j)) /\ r.members = {j.anchor}
      BY <1>2, <1>3, <2>2, <3>2 DEF Grouped
    <3> QED
      BY <2>2, <3>1, <3>2, RowMembers
  <2>3. i.anchor \in x.members
    BY <1>3, <2>1
  <2> HIDE DEF x
  <2> QED
    BY <2>1, <2>2, <2>3
<1>4. ASSUME i \notin Grouped
      PROVE  \E x \in Rows : {r \in Rows : i.anchor \in r.members} = {x}
  <2> DEFINE x == RowOfIncident(i, Own(i))
  <2>1. x \in Rows /\ x.members = {i.anchor}
    BY <1>4, EligibleIncidents, IncidentRow DEF Rows, IncidentRows
  <2>2. ASSUME NEW r \in Rows, i.anchor \in r.members PROVE r = x
    <3>1. CASE \E h \in Groups :
                 r = RowOfGroup(h, eligible) /\ r.members = {j.anchor : j \in Listed(h.members)}
      <4>1. PICK h \in Groups :
              r = RowOfGroup(h, eligible) /\ r.members = {j.anchor : j \in Listed(h.members)}
        BY <3>1
      <4>2. i \in Listed(h.members)
        BY <1>1, <1>2, <2>2, <4>1
      <4> QED
        BY <1>4, <4>2 DEF Grouped
    <3>2. CASE \E j \in Eligible \ Grouped : r = RowOfIncident(j, Own(j)) /\ r.members = {j.anchor}
      BY <1>2, <2>2, <3>2
    <3> QED
      BY <2>2, <3>1, <3>2, RowMembers
  <2> HIDE DEF x
  <2> QED
    BY <2>1, <2>2
<1> QED
  BY <1>3, <1>4 DEF Grouped

\* Nothing else is in a row.
LEMMA ShownIsEligible ==
  ASSUME Analysed, CandidatesOK(candidates)
  PROVE  UNION {r.members : r \in Rows} = {i.anchor : i \in Eligible}
<1>1. \A g \in Groups : Listed(g.members) \in SUBSET Eligible
  BY GroupLists
<1>2. ASSUME NEW r \in Rows, NEW a \in r.members PROVE \E i \in Eligible : a = i.anchor
  BY <1>1, <1>2, RowMembers
<1>3. ASSUME NEW i \in Eligible PROVE \E r \in Rows : i.anchor \in r.members
  BY InOneRow
<1> QED
  BY <1>2, <1>3

\* A member of a group that has a row of its own found no room in the group's row.
LEMMA OwnRow ==
  ASSUME Analysed, CandidatesOK(candidates), NEW g \in Groups, NEW i \in g.members,
         NEW r \in Rows, r.id = <<"inc", i.anchor>>
  PROVE  Cardinality(RowOfGroup(g, eligible).members) = MaxMembers
<1>1. i \in Eligible
  BY GroupLists
<1>2. r \in IncidentRows
  <2>1. ASSUME NEW h \in Groups PROVE RowOfGroup(h, eligible).id # <<"inc", i.anchor>>
    <3> DEFINE a == RowOfGroup(h, eligible).id
    <3>1. a = <<"exp", h.key[1], h.key[2], h.key[3], h.burst>>
      BY DEF RowOfGroup, Row
    <3> HIDE DEF a
    <3>2. a # <<"inc", i.anchor>>
      BY <3>1
    <3> QED
      BY <3>2 DEF a
  <2>2. ASSUME NEW c \in ScanClusters(candidates) PROVE RowOfCluster(c).id # <<"inc", i.anchor>>
    <3> DEFINE a == RowOfCluster(c).id
    <3>1. a = <<"fsp", c.key[1], c.key[2], c.burst>>
      BY DEF RowOfCluster, Row
    <3> HIDE DEF a
    <3>2. a # <<"inc", i.anchor>>
      BY <3>1
    <3> QED
      BY <3>2 DEF a
  <2> QED
    BY <2>1, <2>2 DEF Rows, GroupRows, ClusterRows
<1>3. PICK j \in Eligible \ Grouped : r = RowOfIncident(j, Own(j))
  BY <1>2 DEF IncidentRows
<1>4. r.id = <<"inc", j.anchor>>
  BY <1>3, EligibleIncidents, IncidentRow
<1>5. i = j
  BY <1>1, <1>3, <1>4, EligibleIncidents, IncidentsApart
<1>6. i \notin Listed(g.members)
  BY <1>3, <1>5 DEF Grouped
<1>7. Cardinality(Listed(g.members)) = MaxMembers
  BY <1>6, GroupLists
<1> DEFINE L == Listed(g.members)
           A == {l.anchor : l \in L}
           f == [l \in L |-> l.anchor]
<1>8. L \in SUBSET incidents /\ IsFiniteSet(L)
  BY GroupLists, EligibleIncidents
<1> HIDE DEF L
<1>9. f \in Bijection(L, A)
  <2>1. \A l, m \in L : f[l] = f[m] => l = m
    BY <1>8, IncidentsApart
  <2> QED
    BY <2>1 DEF Bijection, Injection, Surjection, IsInjective
<1> HIDE DEF f, A
<1>10. Cardinality(A) = Cardinality(L)
  BY <1>8, <1>9, FS_Bijection DEF ExistsBijection
<1>11. RowOfGroup(g, eligible).members = A
  BY EligibleIncidents, GroupRow DEF Groups, A, L
<1> QED
  BY <1>7, <1>10, <1>11 DEF L

\* The sections.
LEMMA SectionListed ==
  ASSUME Analysed, CandidatesOK(candidates), NEW R \in SUBSET Rows, NEW q, q = Ordered(R)
  PROVE  ListsInOrder(q, R, RowKeys(R)) /\ Range(q) = R
<1>1. IsFiniteSet(R)
  BY RowsFinite, FS_Subset
<1>2. (\A r \in R : RowOK(r)) /\ \A r, x \in R : r.tie = x.tie => r = x
  BY RowKinds, TiesApart
<1>3. ListsInOrder(q, R, RowKeys(R))
  BY <1>1, <1>2, RowsOrdered
<1>4. q \in Seq(R) /\ \A x \in R : \E i \in DOMAIN q : q[i] = x
  BY <1>3 DEF ListsInOrder
<1>5. Range(q) = R
  BY <1>4 DEF Range
<1> QED
  BY <1>3, <1>5

\* The brief represents what was routed to it.
LEMMA RepresentedInvariant == BriefInvariant => EligibleRepresented
<1> SUFFICES ASSUME BriefInvariant, Selected PROVE EligibleRepresented
  BY DEF EligibleRepresented
<1>1. Analysed /\ CandidatesOK(candidates) /\ rows = Rows
  BY InvariantAnalysed, RowsAre DEF Selected, BriefInvariant, PipelineInvariant
<1>2. ASSUME NEW i \in Eligible PROVE Cardinality({r \in rows : i.anchor \in r.members}) = 1
  <2>1. PICK x \in Rows : {r \in Rows : i.anchor \in r.members} = {x}
    BY <1>1, InOneRow
  <2> QED
    BY <1>1, <2>1, FS_Singleton
<1>3. UNION {r.members : r \in rows} = {i.anchor : i \in Eligible}
  BY <1>1, ShownIsEligible
<1>4. \A g, h \in Groups : g.key = h.key /\ g.burst < h.burst =>
        \A i \in g.members, j \in h.members : j.first - i.last > GroupGap
  BY <1>1, EligibleIncidents, GroupsApart DEF Groups
<1>5. \A g \in Groups : \A i \in g.members : \A r \in rows :
        r.id = <<"inc", i.anchor>> => Cardinality(RowOfGroup(g, eligible).members) = MaxMembers
  BY <1>1, OwnRow
<1> QED
  BY <1>2, <1>3, <1>4, <1>5 DEF EligibleRepresented, Groups

\* For every list of lines and every limit of members: every incident that was
\* routed to the brief is a member of exactly one row, groups of the same source,
\* service and action are further apart than the gap, and a member of a group has
\* a row of its own only when its group lists as many members as it may
\* (build_exposure_groups, build_brief_selection).
THEOREM Represented == BriefSpec => []EligibleRepresented
BY BriefInvariance, RepresentedInvariant, PTL

-----------------------------------------------------------------------------
(***************************************************************************)
(* What is shown on top.                                                   *)
(***************************************************************************)

\* A severity that is lifted stays a severity.
LEMMA Lifted ==
  ASSUME NEW v \in 0 .. 5, NEW n \in 0 .. 1
  PROVE  Lift(v, n) \in 0 .. 4
BY DEF Lift

\* The severity of an incident is one of the severities.
LEMMA SeverityKnown ==
  ASSUME Analysed, NEW i \in incidents
  PROVE  i.sev \in Range(SEVERITIES)
<1> DEFINE R == SignalsOf(signals, i.signals)
           W == EventsOf(eligible, i.ids)
<1>1. R # {} /\ i.sev = IncidentSeverity(i.family, R, W) /\ R \in SUBSET signals
  BY DEF Analysed, Correlated, Told, TellsOf, SignalsOf
<1> HIDE DEF R, W
<1>2. LegacySeverity(R) \in 0 .. 4
  <2> DEFINE f == [s \in R |-> SeverityRank(s.sev)]
             ranks == {f[s] : s \in R}
             more == FoldSet(LAMBDA s, n : n + Cardinality(s.ids), 0, R) > 500
                       \/ Cardinality(UNION {s.targets : s \in R}) > 50
             top == Max({SeverityRank(s.sev) : s \in R})
  <2>1. ranks = {SeverityRank(s.sev) : s \in R}
    OBVIOUS
  <2>2. ranks \in SUBSET (0 .. 5) /\ ranks # {}
    BY <1>1, SeverityNumbers
  <2>3. IsFiniteSet(ranks)
    <3> HIDE DEF f
    <3>1. IsFiniteSet(R)
      BY <1>1, FS_Subset DEF Analysed, Active
    <3> QED
      BY <3>1, FiniteImage
  <2> HIDE DEF ranks
  <2>4. top \in 0 .. 5
    <3>1. ranks \in SUBSET Int
      BY <2>2
    <3>2. Max(ranks) \in ranks
      BY <3>1, <2>2, <2>3, MinMax
    <3> QED
      BY <3>2, <2>1, <2>2
  <2>5. LegacySeverity(R) = Lift(top, IF more THEN 1 ELSE 0)
    BY DEF LegacySeverity
  <2> HIDE DEF top, more
  <2>6. (IF more THEN 1 ELSE 0) \in 0 .. 1
    OBVIOUS
  <2> QED
    BY <2>4, <2>5, <2>6, Lifted
<1>3. \E v \in 0 .. 4 : i.sev = SEVERITIES[v + 1]
  <2> DEFINE allowed == {e \in W : IsAllowed(e)}
             ports   == Ports({EffectivePort(e) : e \in allowed})
             dsts    == Addrs(EffectiveDsts(W))
             asset   == IF ports \cap CRITICAL_MANAGEMENT_PORTS # {} THEN 4
                        ELSE IF ports \cap SENSITIVE_SERVICE_PORTS # {} THEN 3 ELSE 2
             reached(d) == {EffectivePort(e) : e \in {f \in allowed : EffectiveDst(f) = d}}
                             \cap SENSITIVE_SERVICE_PORTS
             targeted == /\ Cardinality(dsts) <= 2
                         /\ \E d \in dsts : Cardinality(reached(d)) >= 2
             large    == Cardinality(W) > 500 \/ Cardinality(dsts) > 50
             one == IF targeted THEN 1 ELSE 0
             two == IF large THEN 1 ELSE 0
             up == Lift(asset, one)
             some == IF i.family \in RECON /\ Cardinality(dsts) >= 25 THEN 2 ELSE 1
             value == IF i.family \notin EVENT_AWARE THEN LegacySeverity(R)
                      ELSE IF allowed # {} THEN Lift(up, two) ELSE some
  <2>1. i.sev = SEVERITIES[value + 1]
    BY <1>1 DEF IncidentSeverity
  <2>2. asset \in 0 .. 5 /\ one \in 0 .. 1 /\ two \in 0 .. 1 /\ some \in 0 .. 4
    OBVIOUS
  <2> HIDE DEF asset, one, two, some
  <2>3. up \in 0 .. 5
    BY <2>2, Lifted
  <2> HIDE DEF up
  <2>4. Lift(up, two) \in 0 .. 4
    BY <2>2, <2>3, Lifted
  <2> HIDE DEF allowed
  <2>5. value \in 0 .. 4
    BY <1>2, <2>2, <2>4
  <2> HIDE DEF value
  <2> QED
    BY <2>1, <2>5
<1> QED
  BY <1>3, SeverityNumbers

\* So is that of its disposition.
LEMMA DispositionKnown ==
  ASSUME Analysed, NEW i \in incidents
  PROVE  Disposition(i, Own(i)).sev \in Range(SEVERITIES)
<1> DEFINE allowed == {e \in Own(i) : IsAllowed(e)}
           measured == IF allowed # {} THEN allowed ELSE Own(i)
           exposed == ExposureSeverity(EffectivePort(Lead(measured)), EvidenceStrength(measured),
                                       \E e \in measured : PrivatelyTranslated(e))
<1>1. Disposition(i, Own(i)).sev = IF allowed = {} THEN i.sev ELSE exposed
  BY DEF Disposition
<1>2. exposed \in {"critical", "high", "medium"}
  BY DEF ExposureSeverity
<1> HIDE DEF allowed, exposed
<1>3. {"critical", "high", "medium"} \in SUBSET Range(SEVERITIES)
  <2>1. SEVERITIES[3] = "medium" /\ SEVERITIES[4] = "high" /\ SEVERITIES[5] = "critical"
    BY DEF SEVERITIES
  <2>2. \A n \in 0 .. 4 : SEVERITIES[n + 1] \in Range(SEVERITIES)
    BY SeverityNumbers
  <2>3. SEVERITIES[2 + 1] \in Range(SEVERITIES) /\ SEVERITIES[3 + 1] \in Range(SEVERITIES)
        /\ SEVERITIES[4 + 1] \in Range(SEVERITIES)
    BY <2>2
  <2> QED
    BY <2>1, <2>3
<1> QED
  BY <1>1, <1>2, <1>3, SeverityKnown

\* The strongest of some severities.
LEMMA StrongestIs ==
  ASSUME NEW T \in SUBSET Range(SEVERITIES), IsFiniteSet(T), T # {}
  PROVE  /\ Strongest(T) \in Range(SEVERITIES)
         /\ \A s \in T : SeverityRank(s) <= SeverityRank(Strongest(T))
<1> DEFINE f == [s \in T |-> SeverityRank(s)]
           ranks == {f[s] : s \in T}
           top == Max(ranks)
<1>1. ranks = {SeverityRank(s) : s \in T}
  OBVIOUS
<1>2. ranks \in SUBSET (0 .. 4) /\ ranks # {}
  BY SeverityNumbers
<1>3. IsFiniteSet(ranks)
  <2> HIDE DEF f
  <2> QED
    BY FiniteImage
<1>4. Strongest(T) = SEVERITIES[top + 1]
  BY <1>1 DEF Strongest
<1>5. \A s \in T : SeverityRank(s) \in ranks
  BY <1>1
<1> HIDE DEF ranks
<1>6. top \in ranks /\ \A x \in ranks : x <= top
  <2>1. ranks \in SUBSET Int
    BY <1>2
  <2> QED
    BY <2>1, <1>2, <1>3, MinMax
<1> HIDE DEF top
<1>7. Strongest(T) \in Range(SEVERITIES) /\ SeverityRank(Strongest(T)) = top
  BY <1>2, <1>4, <1>6, SeverityNumbers
<1> QED
  BY <1>5, <1>6, <1>7

\* At least high, and one of the severities.
LEMMA AtLeastHigh ==
  /\ SeverityRank("high") = 3 /\ SeverityRank("critical") = 4
  /\ \A sev \in Range(SEVERITIES) : SeverityRank(sev) >= 3 => sev \in {"critical", "high"}
<1>1. SEVERITIES[4] = "high" /\ SEVERITIES[5] = "critical"
  BY DEF SEVERITIES
<1>2. SeverityRank(SEVERITIES[3 + 1]) = 3 /\ SeverityRank(SEVERITIES[4 + 1]) = 4
  BY SeverityNumbers
<1>3. ASSUME NEW sev \in Range(SEVERITIES), SeverityRank(sev) >= 3
      PROVE  sev \in {"critical", "high"}
  <2> DEFINE n == SeverityRank(sev)
  <2>1. n \in 0 .. 4 /\ SEVERITIES[n + 1] = sev /\ n >= 3
    BY <1>3, SeverityNumbers
  <2> HIDE DEF n
  <2>2. n = 3 \/ n = 4
    BY <2>1
  <2> QED
    BY <1>1, <2>1, <2>2
<1> QED
  BY <1>1, <1>2, <1>3

\* An exposure that is urgent on its own events is in an urgent row.
LEMMA UrgentRow ==
  ASSUME Analysed, CandidatesOK(candidates), NEW i \in Eligible, IsExposure(i),
         Disposition(i, Own(i)).sev \in {"critical", "high"}
  PROVE  \E x \in Rows : /\ i.anchor \in x.members /\ Urgent(x)
                         /\ SeverityRank(x.sev) >= SeverityRank(Disposition(i, Own(i)).sev)
<1> DEFINE sev == Disposition(i, Own(i)).sev
<1>1. SeverityRank(sev) \in {3, 4}
  BY AtLeastHigh
<1>2. ASSUME NEW x \in Rows, i.anchor \in x.members, x.sev \in Range(SEVERITIES),
             SeverityRank(x.sev) >= SeverityRank(sev)
      PROVE  Urgent(x)
  <2>1. SeverityRank(x.sev) >= 3
    <3>1. SeverityRank(x.sev) \in 0 .. 4
      BY <1>2, SeverityNumbers
    <3> HIDE DEF sev
    <3> QED
      BY <1>1, <1>2, <3>1
  <2>2. x.sev \in {"critical", "high"}
    BY <1>2, <2>1, AtLeastHigh
  <2>3. x.verdict = "suspicious_activity"
    BY RowKinds DEF RowOK
  <2> QED
    BY <2>2, <2>3 DEF Urgent
<1>3. CASE i \in Grouped
  <2>1. PICK g \in Groups : i \in g.members /\ i \in Listed(g.members)
    BY <1>3, GroupLists DEF Grouped
  <2> DEFINE x == RowOfGroup(g, eligible)
             d == [j \in g.members |-> Disposition(j, Own(j)).sev]
             T == {d[j] : j \in g.members}
  <2>2. /\ x \in Rows /\ x.members = {j.anchor : j \in Listed(g.members)}
        /\ x.sev = Strongest({e.sev : e \in {Disposition(j, Own(j)) : j \in g.members}})
    BY EligibleIncidents, GroupRow DEF Rows, GroupRows, Groups
  <2>3. T = {e.sev : e \in {Disposition(j, Own(j)) : j \in g.members}}
    OBVIOUS
  <2>4. g.members \in SUBSET incidents
    BY EligibleIncidents, GroupFacts DEF Groups
  <2>5. T \in SUBSET Range(SEVERITIES) /\ sev \in T
    BY <2>1, <2>4, DispositionKnown
  <2>6. IsFiniteSet(T)
    <3>1. IsFiniteSet(g.members)
      BY <2>4, FS_Subset DEF Analysed, Correlated
    <3> HIDE DEF d
    <3> QED
      BY <3>1, FiniteImage
  <2> HIDE DEF T, x, sev
  <2>7. x.sev \in Range(SEVERITIES) /\ SeverityRank(sev) <= SeverityRank(x.sev)
    BY <2>2, <2>3, <2>5, <2>6, StrongestIs
  <2>8. SeverityRank(x.sev) >= SeverityRank(sev)
    BY <1>1, <2>7, SeverityNumbers
  <2>9. i.anchor \in x.members
    BY <2>1, <2>2
  <2>10. Urgent(x)
    BY <1>2, <2>2, <2>7, <2>8, <2>9
  <2> QED
    BY <2>2, <2>8, <2>9, <2>10 DEF sev
<1>4. CASE i \notin Grouped
  <2> DEFINE x == RowOfIncident(i, Own(i))
  <2>1. x \in Rows /\ x.members = {i.anchor} /\ x.sev = sev
    BY <1>4, EligibleIncidents, IncidentRow DEF Rows, IncidentRows
  <2>2. sev \in Range(SEVERITIES)
    BY EligibleIncidents, DispositionKnown
  <2> HIDE DEF x, sev
  <2>3. SeverityRank(x.sev) >= SeverityRank(sev)
    BY <1>1, <2>1
  <2>4. Urgent(x)
    BY <1>2, <2>1, <2>2, <2>3
  <2> QED
    BY <2>1, <2>3, <2>4 DEF sev
<1> QED
  BY <1>3, <1>4

\* In an ordered section the severities do not increase.
LEMMA SeverityDescends ==
  ASSUME NEW r, NEW x, RowOK(r), RowOK(x), Precedes(RowOrder(r), RowOrder(x))
  PROVE  SeverityRank(r.sev) >= SeverityRank(x.sev)
<1> DEFINE a == RowOrder(r)
           b == RowOrder(x)
           m == SeverityRank(r.sev)
           n == SeverityRank(x.sev)
<1>1. m \in Int /\ n \in Int
  BY SeverityNumbers
<1>2. a \in Seq(Int) /\ b \in Seq(Int) /\ a[1] = -m /\ b[1] = -n
  BY RowOrderType
<1>3. Precedes(a, b)
  OBVIOUS
<1> HIDE DEF a, b, m, n
<1>4. PICK k \in DOMAIN a : (\A j \in 1 .. k - 1 : a[j] = b[j]) /\ a[k] < b[k]
  BY <1>3 DEF Precedes
<1>5. k \in Nat /\ k >= 1
  BY <1>2, <1>4
<1>6. a[1] < b[1] \/ a[1] = b[1]
  <2>1. CASE k = 1
    BY <1>4, <2>1
  <2>2. CASE k # 1
    <3>1. 1 \in 1 .. k - 1
      BY <1>5, <2>2
    <3> QED
      BY <1>4, <3>1
  <2> QED
    BY <2>1, <2>2
<1> DEFINE c == a[1]
           d == b[1]
<1>7. c = -m /\ d = -n /\ (c < d \/ c = d)
  BY <1>2, <1>6
<1> HIDE DEF c, d
<1>8. m >= n
  BY <1>1, <1>7
<1> QED
  BY <1>8 DEF m, n

\* A row is among the first k, or k are at least as severe.
LEMMA ShownOrFull ==
  ASSUME Analysed, CandidatesOK(candidates), NEW R \in SUBSET Rows, NEW q, q = Ordered(R),
         NEW x \in R, NEW k \in Nat, NEW shown, shown = Truncated(q, k)
  PROVE  \/ x \in Range(shown)
         \/ /\ Len(shown) = k
            /\ \A r \in Range(shown) : SeverityRank(r.sev) >= SeverityRank(x.sev)
<1>1. ListsInOrder(q, R, RowKeys(R))
  BY SectionListed
<1>2. q \in Seq(R) /\ \A i, j \in DOMAIN q : i < j => Precedes(RowKeys(R)[q[i]], RowKeys(R)[q[j]])
  BY <1>1 DEF ListsInOrder
<1>3. PICK p \in DOMAIN q : q[p] = x
  BY <1>1 DEF ListsInOrder
<1> DEFINE n == IF Len(q) < k THEN Len(q) ELSE k
<1>4. n \in Nat /\ n <= Len(q) /\ n <= k /\ Len(q) \in Nat /\ (n # k => n = Len(q))
  BY <1>2
<1>5. shown = SubSeq(q, 1, n)
  BY DEF Truncated
<1> HIDE DEF n
<1>6. Len(shown) = n /\ shown \in Seq(R) /\ \A i \in 1 .. n : shown[i] = q[i]
  <2>1. \A i \in 1 .. n : q[i] \in R
    BY <1>2, <1>4
  <2>2. /\ SubSeq(q, 1, n) \in Seq(R)
        /\ Len(SubSeq(q, 1, n)) = IF 1 <= n THEN n - 1 + 1 ELSE 0
        /\ \A i \in 1 .. n - 1 + 1 : SubSeq(q, 1, n)[i] = q[1 + i - 1]
    BY <1>4, <2>1, SubSeqProperties
  <2>3. \A i \in 1 .. n : i \in 1 .. n - 1 + 1 /\ 1 + i - 1 = i
    BY <1>4
  <2> QED
    BY <1>4, <1>5, <2>2, <2>3
<1>7. CASE p <= n
  <2>1. p \in 1 .. n
    BY <1>2, <1>3, <1>4, <1>7
  <2>2. shown[p] = x /\ p \in DOMAIN shown
    BY <1>3, <1>4, <1>6, <2>1
  <2> QED
    BY <2>2 DEF Range
<1>8. CASE ~(p <= n)
  <2>1. n = k
    BY <1>2, <1>3, <1>4, <1>8
  <2>2. ASSUME NEW r \in Range(shown) PROVE SeverityRank(r.sev) >= SeverityRank(x.sev)
    <3>1. PICK i \in DOMAIN shown : shown[i] = r
      BY DEF Range
    <3>2. i \in 1 .. n /\ i \in DOMAIN q /\ i < p /\ q[i] = r
      BY <1>2, <1>3, <1>4, <1>6, <1>8, <3>1
    <3>3. Precedes(RowKeys(R)[q[i]], RowKeys(R)[q[p]])
      BY <1>2, <1>3, <3>2
    <3>4. r \in R /\ Precedes(RowKeys(R)[r], RowKeys(R)[x])
      BY <1>2, <1>3, <3>2, <3>3
    <3>5. Precedes(RowOrder(r), RowOrder(x))
      BY <3>4 DEF RowKeys
    <3>6. RowOK(r) /\ RowOK(x)
      BY <3>4, RowKinds
    <3> QED
      BY <3>5, <3>6, SeverityDescends
  <2> QED
    BY <1>6, <2>1, <2>2
<1> QED
  BY <1>7, <1>8

\* The first section begins with the most severe rows.
LEMMA UrgentInvariant == BriefInvariant => UrgentShown
<1> SUFFICES ASSUME BriefInvariant, Selected PROVE UrgentShown
  BY DEF UrgentShown
<1>1. Analysed /\ CandidatesOK(candidates) /\ rows = Rows
  BY InvariantAnalysed, RowsAre DEF Selected, BriefInvariant, PipelineInvariant
<1> DEFINE U == {r \in Rows : Urgent(r)}
           q == ActNow(rows)
           shown == Truncated(q, MaxRows)
<1>2. U \in SUBSET Rows /\ q = Ordered(U) /\ MaxRows \in Nat
  BY <1>1, BriefAssumption DEF ActNow
<1> HIDE DEF q
<1>3. ASSUME NEW i \in Eligible, IsExposure(i),
             Disposition(i, Own(i)).sev \in {"critical", "high"}
      PROVE  \/ \E r \in Range(shown) : i.anchor \in r.members
             \/ /\ Len(shown) = MaxRows
                /\ \A r \in Range(shown) :
                     SeverityRank(r.sev) >= SeverityRank(Disposition(i, Own(i)).sev)
  <2> DEFINE n == SeverityRank(Disposition(i, Own(i)).sev)
  <2>1. PICK x \in Rows : i.anchor \in x.members /\ Urgent(x) /\ SeverityRank(x.sev) >= n
    BY <1>1, <1>3, UrgentRow
  <2>2. x \in U
    BY <2>1
  <2> HIDE DEF U, shown
  <2>3. \/ x \in Range(shown)
        \/ /\ Len(shown) = MaxRows
           /\ \A r \in Range(shown) : SeverityRank(r.sev) >= SeverityRank(x.sev)
    BY <1>1, <1>2, <2>2, ShownOrFull DEF shown
  <2>4. n \in Int /\ \A r : SeverityRank(r.sev) \in Int
    BY SeverityNumbers
  <2>5. \A r : SeverityRank(r.sev) >= SeverityRank(x.sev) => SeverityRank(r.sev) >= n
    BY <2>1, <2>4
  <2> QED
    BY <2>1, <2>3, <2>5
<1> QED
  BY <1>3 DEF UrgentShown, q

\* For every analysis and every length of the sections: an exposure that is urgent
\* on its own events is shown under ACT NOW, unless the section is full of rows
\* at least as severe (build_brief_selection).
THEOREM UrgentOnTop == BriefSpec => []UrgentShown
BY BriefInvariance, UrgentInvariant, PTL
=============================================================================
