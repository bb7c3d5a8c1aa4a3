---------------------------- MODULE CauseRanking ----------------------------
(***************************************************************************)
(* The deterministic root-cause engine: which causes of the catalogue an    *)
(* incident suggests (CandidateGenerator), how the evidence ranks them      *)
(* (RootCauseRanker) and what it paints on the topology (AnalysisEngine).   *)
(*                                                                         *)
(* Everything is a function of the bundle b that was read from the database: *)
(*   b.events, b.anomalies   the attached events and their anomalies        *)
(*   b.primary, b.affected   the incident's entities, affected ones sorted   *)
(*   b.edges                 [relation type -> set of edges]                *)
(*   b.history               past incidents: their causes and similarities  *)
(*                                                                         *)
(* Factors and similarities are in ten-thousandths, scores in tenths and    *)
(* anomaly scores and signal values in hundredths.  A text field of an      *)
(* event is the set of the words it contains.                              *)
(***************************************************************************)
EXTENDS Topology

CONSTANTS
    Entities,
    EntityType,  \* [Entities -> entity types]
    Catalogue,   \* hypotheses.yaml: a sequence of entries
    NoEntity,    \* the payload names no entity
    NoValue      \* the event carries no signal value, the rule no bound

NoEvent == [id |-> 0]

Before(e, f) == e.time < f.time \/ (e.time = f.time /\ e.id < f.id)

(* The elements of S by time and id.                                        *)
InOrder(S) ==
    [k \in 1..Cardinality(S) |->
        CHOOSE e \in S : Cardinality({f \in S : Before(f, e)}) = k - 1]

Earliest(S) == IF S = {} THEN NoEvent
               ELSE CHOOSE e \in S : \A f \in S : e = f \/ Before(e, f)

Latest(S) == IF S = {} THEN NoEvent
             ELSE CHOOSE e \in S : \A f \in S : e = f \/ Before(f, e)

Changes(b) == {e \in b.events : e.modality = "config_change"}

ChangedEntity(e) == IF e.target # NoEntity THEN e.target ELSE e.entity

AnomalyTypes(b) == {a.type : a \in b.anomalies}

EventsWithAnomaly(b, types) ==
    {e \in b.events : \E a \in b.anomalies : a.event = e.id /\ a.type \in types}

-----------------------------------------------------------------------------
(* CandidateGenerator                                                      *)

MatchedEvents(entry, b) ==
    EventsWithAnomaly(b, entry.anomalyTypes)
        \cup {e \in b.events : e.modality = "log" /\ e.type \in entry.logTypes}
        \cup {e \in b.events : e.type \in entry.eventTypes}

RulesMatch(entry, b) ==
    /\ entry.needsChange => Changes(b) # {}
    /\ entry.anomalyTypes \cup entry.logTypes \cup entry.eventTypes # {}
          => MatchedEvents(entry, b) # {}

SelectEntities(entry, b) ==
    LET matched   == InOrder(MatchedEvents(entry, b))
        changed   == InOrder(Changes(b))
        referring == InOrder({e \in MatchedEvents(entry, b) :
                                 e.dependency # NoEntity})
    IN CASE entry.selector = "primary_entity" -> <<b.primary>>
         [] entry.selector = "changed_entity" ->
                [k \in DOMAIN changed |-> ChangedEntity(changed[k])]
         [] entry.selector = "event_entity" ->
                [k \in DOMAIN matched |-> matched[k].entity]
         [] entry.selector = "referenced_dependency" ->
                [k \in DOMAIN referring |-> referring[k].dependency]

Graph(b, traversal) ==
    RelationGraph(b.edges[traversal.relation], traversal.direction)

(* Fault: a breadth-first search that expands one level too many.           *)
TypedPathExistsBeyond(b, source, target, traversal) ==
    target \in Ball(Graph(b, traversal), source, traversal.hops + 1)

TypedPathExists(b, source, target, traversal) ==
    target \in Ball(Graph(b, traversal), source, traversal.hops)

AffectedOrPrimary(b) == IF b.affected = << >> THEN <<b.primary>> ELSE b.affected

(* A record may name an entity that the topology does not have.              *)
Admissible(entry, b, x) ==
    /\ x \in Entities
    /\ EntityType[x] \in entry.entityTypes
    /\ \E origin \in Range(AffectedOrPrimary(b)) :
          TypedPathExists(b, origin, x, entry.traversal)

(* One candidate at most for each entry: the first admissible entity.       *)
Candidates(b) ==
    LET named(k) == SelectEntities(Catalogue[k], b)
        fits(k)  == {n \in DOMAIN named(k) : Admissible(Catalogue[k], b, named(k)[n])}
    IN {[cause |-> k, entity |-> named(k)[Min(fits(k))]]
           : k \in {c \in DOMAIN Catalogue :
                       RulesMatch(Catalogue[c], b) /\ fits(c) # {}}}

-----------------------------------------------------------------------------
(* TopologyIndex                                                           *)

NoRoute == << >>

(* A shortest path of at most traversal.hops edges; a path p is a function   *)
(* on 0..n.  Which of several shortest ones is taken depends on the order of *)
(* the edges and is left open.                                             *)
Route(b, source, target, traversal) ==
    LET graph == Graph(b, traversal)
        n     == TopologyDistance(Entities, graph, source, target)
    IN IF n = NoPath \/ n > traversal.hops THEN NoRoute
       ELSE CHOOSE p \in Paths(Entities, graph, source, target, n) : TRUE

Hops(route) == Cardinality(DOMAIN route) - 1

Reachable(b, source, traversal) == Ball(Graph(b, traversal), source, traversal.hops)

-----------------------------------------------------------------------------
(* RootCauseRanker: the eight factors.                                     *)

Whole == 10000

Ratio(observed, declared) ==
    IF declared = 0 THEN 0
    ELSE (2 * Whole * observed + declared) \div (2 * declared)

InBounds(e, pattern) ==
    /\ pattern.min # NoValue => e.value # NoValue /\ e.value >= pattern.min
    /\ pattern.max # NoValue => e.value # NoValue /\ e.value <= pattern.max

PatternObservations(b, pattern) ==
    EventsWithAnomaly(b, pattern.anomalyTypes)
        \cup {e \in b.events :
                 /\ e.type \in pattern.eventTypes \/ e.flags \cap pattern.keys # {}
                 /\ InBounds(e, pattern)}

SymptomFactor(entry, b) ==
    Ratio(Cardinality({s \in DOMAIN entry.symptoms :
                          PatternObservations(b, entry.symptoms[s]) # {}}),
          Len(entry.symptoms))

TopologyOrigins(entry, b) ==
    LET signs == InOrder({e \in b.events : e.type \in entry.originTypes})
    IN IF signs = << >> THEN AffectedOrPrimary(b)
       ELSE [k \in DOMAIN signs |-> signs[k].entity]

(* The route from the nearest origin, the first of them if several are.     *)
TopologyPath(entry, candidate, b) ==
    LET origins   == TopologyOrigins(entry, b)
        route     == [k \in DOMAIN origins |->
                         Route(b, origins[k], candidate.entity, entry.traversal)]
        connected == {k \in DOMAIN origins : route[k] # NoRoute}
    IN IF connected = {} THEN NoRoute
       ELSE route[CHOOSE k \in connected : \A l \in connected :
                     \/ Hops(route[k]) < Hops(route[l])
                     \/ Hops(route[k]) = Hops(route[l]) /\ k <= l]

TopologyFactor(path) ==
    IF path = NoRoute THEN 0
    ELSE CASE Hops(path) = 0 -> Whole
           [] Hops(path) = 1 -> 8000
           [] Hops(path) = 2 -> 5000
           [] OTHER -> 0

DirectLogAlertFactor(b, candidate) ==
    LET kinds == {e.modality : e \in {f \in b.events :
                     /\ f.modality \in {"log", "alert"}
                     /\ candidate.entity \in {f.entity} \cup f.mentions}}
    IN CASE Cardinality(kinds) = 2 -> Whole
         [] Cardinality(kinds) = 1 -> 6000
         [] OTHER -> 0

(* A stage counts if its first observation is not before the last counted.  *)
StagesInOrder(first) ==
    LET counted[k \in 0..Len(first)] ==
            IF k = 0 THEN [number |-> 0, last |-> 0]
            ELSE LET before == counted[k - 1] IN
                 IF \/ first[k] = NoEvent
                    \/ before.number > 0 /\ first[k].time < before.last
                 THEN before
                 ELSE [number |-> before.number + 1, last |-> first[k].time]
    IN counted[Len(first)].number

PropagationFactor(entry, b) ==
    LET stages == entry.propagation
    IN Ratio(StagesInOrder([k \in 1..Len(stages) |->
                               Earliest(PatternObservations(b, stages[k]))]),
             Len(stages))

ImpactNodes(entry, candidate, b, path) ==
    IF entry.traversal.relation = "sends_traffic_to"
    THEN Reachable(b, candidate.entity, entry.traversal)
    ELSE IF path = NoRoute THEN {candidate.entity} ELSE Range(path)

MetricScores(entry, candidate, b, path) ==
    LET where  == ImpactNodes(entry, candidate, b, path)
    IN {a.score : a \in {c \in b.anomalies :
           /\ c.type \in entry.metricTypes
           /\ \E e \in b.events : /\ e.id = c.event
                                  /\ e.modality = "metric"
                                  /\ e.entity \in where}}

(* Fault: the scores of the metric anomalies add up.                        *)
MetricAnomalyFactorSum(entry, candidate, b, path) ==
    100 * SumSet(MetricScores(entry, candidate, b, path))

MetricAnomalyFactor(entry, candidate, b, path) ==
    100 * Max(MetricScores(entry, candidate, b, path) \cup {0})

FirstSymptomEvent(b) ==
    Earliest({e \in b.events : \E a \in b.anomalies : a.event = e.id /\ ~a.context})

CandidateSignal(entry, candidate, b) ==
    Earliest(IF entry.changeBased
             THEN {e \in Changes(b) : ChangedEntity(e) = candidate.entity}
             ELSE EventsWithAnomaly(b, entry.anomalyTypes)
                     \cup {e \in b.events :
                              e.type \in entry.logTypes \cup entry.eventTypes})

Precedes(e, f) == e # NoEvent /\ f # NoEvent /\ e.time < f.time

TemporalFactor(signal, symptom) ==
    LET seconds == symptom.time - signal.time
    IN IF ~Precedes(signal, symptom) THEN 0
       ELSE CASE seconds \in 0..60 -> Whole
              [] seconds \in 61..180 -> 7000
              [] seconds \in 181..300 -> 4000
              [] OTHER -> 0

ConflictSource(conflict, b) ==
    IF conflict.absent \cap AnomalyTypes(b) # {} THEN NoEvent
    ELSE Earliest(PatternObservations(b, conflict.match))

(* The conflict patterns of the entry that match, by their places.           *)
MatchedConflicts(entry, b) ==
    {k \in DOMAIN entry.conflicts : ConflictSource(entry.conflicts[k], b) # NoEvent}

ChangeCausalFit(entry, candidate, b, path) ==
    LET change == CandidateSignal(entry, candidate, b)
        near   == IF path = NoRoute THEN {candidate.entity} ELSE Range(path)
        checks == <<Precedes(change, FirstSymptomEvent(b)),
                    ChangedEntity(change) \in near,
                    change.key \in entry.plausibleKeys,
                    MatchedConflicts(entry, b) = {}>>
    IN IF ~entry.changeBased \/ change = NoEvent THEN 0
       ELSE 2500 * Cardinality({k \in DOMAIN checks : checks[k]})

HistoricalFactor(entry, b) ==
    Max({m.similarity : m \in {h \in b.history : h.cause = entry.type}} \cup {0})

Weight == [symptom |-> 25, topology |-> 20, direct |-> 15, propagation |-> 15,
           metric |-> 10, change |-> 10, temporal |-> 3, history |-> 2]

Factors(candidate, b) ==
    LET entry == Catalogue[candidate.cause]
        path  == TopologyPath(entry, candidate, b)
    IN [symptom     |-> SymptomFactor(entry, b),
        topology    |-> TopologyFactor(path),
        direct      |-> DirectLogAlertFactor(b, candidate),
        propagation |-> PropagationFactor(entry, b),
        metric      |-> MetricAnomalyFactor(entry, candidate, b, path),
        change      |-> ChangeCausalFit(entry, candidate, b, path),
        temporal    |-> TemporalFactor(CandidateSignal(entry, candidate, b),
                                       FirstSymptomEvent(b)),
        history     |-> HistoricalFactor(entry, b)]

Clamp(x) == Max({0, Min({Whole, x})})

ApplyConflict(conflict, factors) ==
    [factors EXCEPT ![conflict.factor] =
        Clamp(IF conflict.operation = "subtract" THEN @ - conflict.value
              ELSE Min({@, conflict.value}))]

(* The conflicts that match take effect one after the other.                *)
Opposed(entry, plain, matched) ==
    LET after[k \in 0..Len(entry.conflicts)] ==
            IF k = 0 THEN plain
            ELSE IF k \in matched THEN ApplyConflict(entry.conflicts[k], after[k - 1])
            ELSE after[k - 1]
    IN after[Len(entry.conflicts)]

(* Rounded half up to a tenth.                                             *)
ScoreFactors(factors) ==
    (Weight.symptom * factors.symptom + Weight.topology * factors.topology
        + Weight.direct * factors.direct + Weight.propagation * factors.propagation
        + Weight.metric * factors.metric + Weight.change * factors.change
        + Weight.temporal * factors.temporal + Weight.history * factors.history
        + 500) \div 1000

(* What the loader of hypotheses.yaml validates.                            *)
ASSUME CatalogueAssumption ==
    /\ Catalogue \in Seq(Range(Catalogue))
    /\ \A k \in DOMAIN Catalogue :
          LET entry == Catalogue[k] IN
          /\ entry.selector \in {"primary_entity", "changed_entity",
                                 "event_entity", "referenced_dependency"}
          /\ entry.traversal.relation \in {"sends_traffic_to", "depends_on"}
          /\ entry.traversal.hops \in Nat \ {0}
          /\ entry.symptoms \in Seq(Range(entry.symptoms))
          /\ entry.propagation \in Seq(Range(entry.propagation))
          /\ entry.conflicts \in Seq(Range(entry.conflicts))
          /\ IsFiniteSet(entry.expected)
          /\ \A n \in DOMAIN entry.conflicts :
                entry.conflicts[n].value \in 0..Whole

-----------------------------------------------------------------------------
(* Which expected evidence an event makes available, in the ranker's view.  *)
(* A rule asks for a modality, for a word in one of the text fields and for *)
(* the words in "needs" in the payload.                                    *)

AnyModality == {"metric", "log", "alert", "config_change", "trace"}

Rule(modality, signal, type, payload, source, needs) ==
    [modality |-> modality, signal |-> signal, type |-> type,
     payload |-> payload, source |-> source, needs |-> needs]

Anywhere(modality, words) == Rule(modality, words, words, words, {}, {})

InSignal(words) == Rule(AnyModality, words, {}, {}, {}, {})

InType(modality, words) == Rule(modality, {}, words, {}, {}, {})

(* Words are compared in lower case; JSON keys of the payload are words too. *)
RankerRules ==
    [config_diff |-> Rule({"config_change"}, {}, {}, {}, {}, {}),
     forwarded_rate |-> Anywhere(AnyModality, {"forwarded_request"}),
     stable_raw_ingress |-> Anywhere(AnyModality, {"raw_ingress"}),
     raw_ingress |-> Anywhere(AnyModality, {"raw_ingress"}),
     source_distribution |-> Anywhere(AnyModality,
        {"raw_ingress", "source_distribution", "source_ip", "client_ip"}),
     connection_pressure |-> Anywhere(AnyModality, {"connection_utilization"}),
     active_connection_pressure |->
        Anywhere(AnyModality, {"active_connections"}),
     downstream_latency |-> Anywhere(AnyModality, {"latency"}),
     timeout_log |-> Anywhere({"log"}, {"timeout"}),
     waf_decision_logs |-> Anywhere(AnyModality, {"waf_decision"}),
     waf_decisions |-> Anywhere(AnyModality, {"waf_decision"}),
     db_utilization |-> Anywhere(AnyModality, {"db_connection_utilization"}),
     pool_waits |-> Anywhere(AnyModality, {"pool_wait", "rejected_lease"}),
     dependency_timeout |-> Rule({"log"}, {"timeout"}, {"timeout"},
                                 {"timeout"}, {}, {"dependency_id"}),
     path_telemetry |-> Anywhere(AnyModality,
        {"packet_loss", "retransmission", "hop_latency"}),
     upstream_health |-> InType(AnyModality,
        {"health", "upstream_failure", "upstream_error"}),
     dns_queries |-> Anywhere(AnyModality, {"dns", "resolver"}),
     certificate_state |-> Anywhere(AnyModality, {"certificate", "tls"}),
     resource_usage |-> Anywhere(AnyModality, {"cpu_usage", "memory_usage"}),
     service_latency |-> Anywhere(AnyModality, {"service_p95_latency"}),
     resource_log |-> Anywhere({"log"}, {"resource_saturation"}),
     scan_pattern |-> Anywhere(AnyModality,
        {"unique_destination_ports", "destination_fanout", "port_scan"}),
     scanner_source |-> Anywhere(AnyModality, {"source_fingerprint"}),
     scanner_authorization |-> Rule(AnyModality, {},
        {"scanner_allowlist_match"}, {}, {}, {"scanner_authorized"}),
     change_ticket |-> Anywhere(AnyModality,
        {"change_ticket", "authorization_ticket", "approved_scan_ticket"}),
     connection_rejections |->
        Anywhere(AnyModality, {"rejected_connection_rate"}),
     datanode_health |-> Rule(AnyModality,
        {"datanode_io_error", "hdfs_datanode_failure"},
        {"datanode_io_error", "hdfs_datanode_failure"}, {}, {}, {}),
     replication_state |->
        Anywhere(AnyModality, {"replica", "datanode_failure"}),
     trace_critical_path |-> Anywhere({"trace"}, {"trace_span_duration"}),
     span_errors |-> Rule({"trace"}, {}, {}, {"span_error"}, {}, {})]

Matches(rule, e) ==
    LET words(f) == rule[f] \cap e.text[f]
        fields   == {"signal", "type", "payload", "source"}
    IN /\ e.modality \in rule.modality
       /\ \/ \A f \in fields : rule[f] = {}
          \/ \E f \in fields : words(f) # {}
       /\ rule.needs \subseteq e.text.payload

(* Requirements that speak of the whole incident, not of the candidate.     *)
Unscoped == {"downstream_latency", "timeout_log", "waf_decision_logs",
             "waf_decisions"}

InScope(requirement, e, x) ==
    /\ CASE requirement = "dependency_timeout" -> x \in {e.entity, e.dependency}
         [] requirement \in Unscoped -> TRUE
         [] OTHER -> e.entity = x
    /\ requirement \in {"connection_pressure", "active_connection_pressure"}
          => e.value # NoValue /\ e.value >= 80

AvailableRequirements(entry, candidate, b) ==
    {r \in entry.expected : \E e \in b.events :
        Matches(RankerRules[r], e) /\ InScope(r, e, candidate.entity)}

(* What is so in hypotheses.yaml as it is, and no validator asks for: short  *)
(* traversals, conflicts that name a factor other than the topology's, one   *)
(* kind of timeout for each cause, and no rule that asks for the anomaly of  *)
(* a context detector.                                                     *)
ASSUME ShippedAssumption ==
    \A k \in DOMAIN Catalogue :
        LET entry == Catalogue[k]
            context == {"RECENT_CONFIGURATION_CHANGE", "CASCADE"}
        IN /\ entry.traversal.hops \in 1..MaxHops
           /\ \A n \in DOMAIN entry.conflicts :
                 /\ entry.conflicts[n].factor \in DOMAIN Weight \ {"topology"}
                 /\ entry.conflicts[n].absent \cap context = {}
                 /\ entry.conflicts[n].match.anomalyTypes \cap context = {}
           /\ entry.expected \subseteq DOMAIN RankerRules
           /\ ~({"timeout_log", "dependency_timeout"} \subseteq entry.expected)
           /\ entry.anomalyTypes \cap context = {}
           /\ entry.metricTypes \cap context = {}
           /\ \A n \in DOMAIN entry.symptoms :
                 entry.symptoms[n].anomalyTypes \cap context = {}
           /\ \A n \in DOMAIN entry.propagation :
                 entry.propagation[n].anomalyTypes \cap context = {}

-----------------------------------------------------------------------------
(* RootCauseRanker.rank                                                    *)

ScoreCandidate(candidate, b) ==
    LET entry   == Catalogue[candidate.cause]
        plain   == Factors(candidate, b)
        matched == MatchedConflicts(entry, b)
        factors == Opposed(entry, plain, matched)
    IN [candidate |-> candidate,
        factors   |-> factors,
        score     |-> ScoreFactors(factors),
        unopposed |-> ScoreFactors(plain), \* history: without the conflicts
        available |-> AvailableRequirements(entry, candidate, b),
        path      |-> TopologyPath(entry, candidate, b),
        conflicts |-> {[id     |-> entry.conflicts[k].id,
                        source |-> ConflictSource(entry.conflicts[k], b)]
                          : k \in matched}]

(* By score; of equal ones, the first in the catalogue.                     *)
Better(s, t) ==
    \/ s.score > t.score
    \/ s.score = t.score /\ s.candidate.cause < t.candidate.cause

InRank(S) ==
    [k \in 1..Cardinality(S) |->
        CHOOSE s \in S : Cardinality({t \in S : Better(t, s)}) = k - 1]

Rank(candidates, b) == InRank({ScoreCandidate(c, b) : c \in candidates})

-----------------------------------------------------------------------------
(* AnalysisEngine._topology_states                                         *)

BlastRadius == [relation |-> "sends_traffic_to", direction |-> "forward",
                hops |-> 3]

(* Fault: nodes are painted within a smaller radius than the paths.         *)
NodeStateNear(root, b) ==
    [x \in Entities |->
        IF x = root THEN "suspected_root"
        ELSE IF x = b.primary THEN "primary_affected"
        ELSE IF x \in Range(b.affected) THEN "impact_path"
        ELSE IF x \in Ball(b.edges["sends_traffic_to"], root, 1) THEN "blast_radius"
        ELSE "none"]

NodeState(root, b) ==
    [x \in Entities |->
        IF x = root THEN "suspected_root"
        ELSE IF x = b.primary THEN "primary_affected"
        ELSE IF x \in Range(b.affected) THEN "impact_path"
        ELSE IF x \in Reachable(b, root, BlastRadius) THEN "blast_radius"
        ELSE "none"]

ImpactEdges(root, b) ==
    UNION {LET p == Route(b, root, x, BlastRadius)
           IN {<<p[n], p[n + 1]>> : n \in 0..Hops(p) - 1}
           : x \in Range(b.affected)}

EdgeState(root, b) ==
    LET reachable == Reachable(b, root, BlastRadius) IN
    [e \in b.edges["sends_traffic_to"] |->
        IF e \in ImpactEdges(root, b) THEN "impact_path"
        ELSE IF e[1] \in reachable /\ e[2] \in reachable THEN "blast_radius"
        ELSE "none"]
=============================================================================
