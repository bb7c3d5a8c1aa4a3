------------------------- MODULE MCIncidentAnalysis -------------------------
(***************************************************************************)
(* The gateway incident of the demo as the world of IncidentAnalysis: three *)
(* entries of hypotheses.yaml, four entities of topology.json, and events   *)
(* of which any subset may have been attached.                             *)
(***************************************************************************)
EXTENDS IncidentAnalysis

CONSTANTS gw, co, pay, db

TypeOfEntity == (gw :> "gateway") @@ (co :> "service") @@ (pay :> "service")
                   @@ (db :> "database")

Chain == {<<gw, co>>, <<co, pay>>, <<pay, db>>}

ShippedEdges == [sends_traffic_to |-> Chain, depends_on |-> Chain]

(* Other graphs: cycles, shortcuts and entities that nothing reaches.       *)
PossibleEdges == Chain \cup {<<pay, co>>, <<co, gw>>, <<gw, db>>}

Pattern(anomalyTypes, eventTypes) ==
    [anomalyTypes |-> anomalyTypes, eventTypes |-> eventTypes, keys |-> {},
     min |-> NoValue, max |-> NoValue]

Forward(relation) == [relation |-> relation, direction |-> "forward", hops |-> 2]

GatewayPressure == Pattern({"FORWARDED_TRAFFIC_SPIKE"}, {})
CheckoutLatency == Pattern({"CHECKOUT_LATENCY_HIGH"}, {})
PaymentTimeout ==
    Pattern({"UPSTREAM_TIMEOUT"}, {"UPSTREAM_CONNECTION_TIMEOUT"})

ShippedCatalogue ==
  <<[type |-> "configuration_regression",
     entityTypes |-> {"gateway", "service", "database"},
     traversal |-> Forward("sends_traffic_to"), selector |-> "changed_entity",
     needsChange |-> TRUE, anomalyTypes |-> {"FORWARDED_TRAFFIC_SPIKE"},
     logTypes |-> {}, eventTypes |-> {}, changeBased |-> TRUE,
     plausibleKeys |-> {"rate_limit.enabled"}, originTypes |-> {},
     metricTypes |-> {"FORWARDED_TRAFFIC_SPIKE"},
     symptoms |-> <<GatewayPressure,
                    Pattern({"CHECKOUT_LATENCY_HIGH", "UPSTREAM_TIMEOUT"}, {})>>,
     propagation |-> <<GatewayPressure, CheckoutLatency, PaymentTimeout>>,
     expected |-> {"config_diff", "forwarded_rate", "stable_raw_ingress",
                   "connection_pressure", "downstream_latency", "timeout_log",
                   "waf_decision_logs"},
     conflicts |-> << >>,
     steps |-> {"inspect-config-diff", "compare-pre-post-metrics"}],
    [type |-> "dos_or_traffic_surge", entityTypes |-> {"gateway"},
     traversal |-> Forward("sends_traffic_to"), selector |-> "primary_entity",
     needsChange |-> FALSE,
     anomalyTypes |-> {"FORWARDED_TRAFFIC_SPIKE", "SOURCE_DISTRIBUTION_CHANGE"},
     logTypes |-> {}, eventTypes |-> {}, changeBased |-> FALSE,
     plausibleKeys |-> {}, originTypes |-> {},
     metricTypes |-> {"FORWARDED_TRAFFIC_SPIKE", "SOURCE_DISTRIBUTION_CHANGE"},
     symptoms |-> <<GatewayPressure,
                    [Pattern({"SOURCE_DISTRIBUTION_CHANGE"}, {}) EXCEPT
                        !.keys = {"source_distribution_changed"}]>>,
     propagation |-> <<GatewayPressure, CheckoutLatency, PaymentTimeout>>,
     expected |-> {"raw_ingress", "source_distribution", "waf_decisions"},
     conflicts |-> <<[id |-> "STABLE_RAW_INGRESS", factor |-> "symptom",
                      operation |-> "cap", value |-> 5000,
                      match |-> Pattern({}, {"RAW_INGRESS_RATE"}),
                      absent |-> {"SOURCE_DISTRIBUTION_CHANGE"}]>>,
     steps |-> {"inspect-ingress-distribution"}],
    [type |-> "database_connection_exhaustion", entityTypes |-> {"database"},
     traversal |-> Forward("depends_on"), selector |-> "referenced_dependency",
     needsChange |-> FALSE, anomalyTypes |-> {},
     logTypes |-> {"UPSTREAM_CONNECTION_TIMEOUT"}, eventTypes |-> {},
     changeBased |-> FALSE, plausibleKeys |-> {},
     originTypes |-> {"CHECKOUT_P95_LATENCY"},
     metricTypes |-> {"DB_CONNECTION_UTILIZATION_HIGH"},
     symptoms |-> <<PaymentTimeout,
                    [Pattern({}, {"DB_CONNECTION_UTILIZATION"}) EXCEPT
                        !.min = 90]>>,
     propagation |-> <<Pattern({"DB_CONNECTION_UTILIZATION_HIGH"}, {}),
                       PaymentTimeout>>,
     expected |-> {"db_utilization", "pool_waits", "dependency_timeout"},
     conflicts |-> <<[id |-> "NORMAL_DB_UTILIZATION", factor |-> "metric",
                      operation |-> "cap", value |-> 0,
                      match |-> [Pattern({}, {"DB_CONNECTION_UTILIZATION"})
                                    EXCEPT !.max = 75],
                      absent |-> {}]>>,
     steps |-> {"inspect-db-pool"}]>>

ShippedPlaybook ==
    ("inspect-config-diff" :>
        [causes |-> {"configuration_regression"},
         entityTypes |-> {"gateway", "service", "database"}])
    @@ ("compare-pre-post-metrics" :>
        [causes |-> {"configuration_regression"},
         entityTypes |-> {"gateway", "service"}])
    @@ ("inspect-ingress-distribution" :>
        [causes |-> {"dos_or_traffic_surge"}, entityTypes |-> {"gateway"}])
    @@ ("inspect-db-pool" :>
        [causes |-> {"database_connection_exhaustion"},
         entityTypes |-> {"database"}])

(* The seeded row, and one of the incident that a timeout alone makes.       *)
SeededHistory ==
    {[cause |-> "configuration_regression", fingerprint |-> {},
      features |-> {<<"entity_type", "gateway">>,
                    <<"change_type", "rate_limit.enabled">>,
                    <<"forwarded_traffic_spike", "yes">>}],
     [cause |-> "database_connection_exhaustion", fingerprint |-> {9},
      features |-> {}]}

-----------------------------------------------------------------------------
(* The payload of a record repeats its metric name or its code.             *)
Words(signal, type, payload) ==
    [signal |-> signal, type |-> type, payload |-> payload, source |-> {}]

Event(id, time, x, modality, type, value, text) ==
    [id |-> id, time |-> time, entity |-> x, modality |-> modality,
     type |-> type, value |-> value, text |-> text, flags |-> {},
     mentions |-> {}, target |-> NoEntity, dependency |-> NoEntity,
     key |-> "none", severity |-> 0, level |-> "none", limit |-> NoValue,
     span |-> "none", parent |-> "none", session |-> "none",
     expected |-> NoValue, statistical |-> {}]

Statistic(type, score) == {[detector |-> "ewma", type |-> type, score |-> score]}

Change ==
    [Event(1, 0, gw, "config_change", "CONFIG_CHANGED", NoValue,
           Words({}, {}, {})) EXCEPT !.key = "rate_limit.enabled"]

(* A change recorded at the payment service that targets its database.      *)
DatabaseChange ==
    [Change EXCEPT !.id = 2, !.entity = pay, !.target = db, !.key = "pool.size"]

Forwarded ==
    [Event(3, 20, gw, "metric", "FORWARDED_REQUEST_RATE", 7600,
           Words({"forwarded_request", "forwarded_requests"},
                 {"forwarded_request"}, {"forwarded_request"})) EXCEPT
        !.statistical = Statistic("FORWARDED_TRAFFIC_SPIKE", 95)]

RawIngress ==
    Event(4, 20, gw, "metric", "RAW_INGRESS_RATE", 7800,
          Words({"raw_ingress"}, {"raw_ingress"}, {"raw_ingress"}))

LaterRawIngress == [RawIngress EXCEPT !.id = 5, !.time = 70]

SourceChange ==
    [Event(6, 40, gw, "metric", "SOURCE_DISTRIBUTION", 90,
           Words({"source_distribution"}, {"source_distribution"},
                 {"source_distribution"})) EXCEPT
        !.flags = {"source_distribution_changed"},
        !.statistical = Statistic("SOURCE_DISTRIBUTION_CHANGE", 80)]

Latency ==
    [Event(7, 60, co, "metric", "CHECKOUT_P95_LATENCY", 900,
           Words({"latency"}, {"latency"}, {"latency"})) EXCEPT
        !.statistical = Statistic("CHECKOUT_LATENCY_HIGH", 90)]

(* Its type speaks of forwarded requests, and it has no signal.              *)
Alert ==
    [Event(8, 65, gw, "alert", "HIGH_FORWARDED_REQUEST_AND_CONNECTION_RATE",
           NoValue, Words({}, {"forwarded_request"}, {})) EXCEPT
        !.mentions = {gw, co}, !.severity = 90]

Timeout ==
    [Event(9, 80, pay, "log", "UPSTREAM_CONNECTION_TIMEOUT", NoValue,
           Words({}, {"timeout"}, {"timeout", "dependency_id"})) EXCEPT
        !.mentions = {db}, !.dependency = db, !.severity = 88]

(* Exactly at the bound of NORMAL_DB_UTILIZATION.                           *)
Utilization ==
    Event(10, 100, db, "metric", "DB_CONNECTION_UTILIZATION", 75,
          LET words == {"db_connection_utilization", "connection_utilization"}
          IN Words(words, words, words))

World == {Change, DatabaseChange, Forwarded, RawIngress, LaterRawIngress,
          SourceChange, Latency, Alert, Timeout, Utilization}

(* Events that are stored but belong to no incident: an error of the         *)
(* checkout service, a reference-derived signal, and a trace whose ids are   *)
(* not in the order of its time and whose last span starts with its parent.  *)
CheckoutError ==
    [Event(11, 50, co, "log", "CHECKOUT_FAILED", NoValue, Words({}, {}, {}))
        EXCEPT !.level = "error", !.severity = 80]

Cpu ==
    [Event(12, 90, db, "metric", "CPU_USAGE", 97, Words({}, {}, {}))
        EXCEPT !.limit = 85]

Span(id, time, x, span, parent) ==
    [Event(id, time, x, "trace", "TRACE_SPAN", 500,
           Words({"trace_span_duration", "duration"}, {}, {})) EXCEPT
        !.severity = 80, !.span = span, !.parent = parent,
        !.session = "checkout", !.expected = 100]

Trace == {Span(15, 30, gw, "root", "none"), Span(14, 35, co, "charge", "root"),
          Span(13, 36, pay, "query", "charge"), Span(16, 36, db, "rows", "query")}

Background == {CheckoutError, Cpu} \cup Trace

ShippedLogRules ==
    "UPSTREAM_CONNECTION_TIMEOUT" :> [type |-> "UPSTREAM_TIMEOUT", score |-> 86]

ShippedReferenceTypes == "CPU_USAGE" :> "CPU_SATURATION"

-----------------------------------------------------------------------------
(* The incident that these events formed: opened by one of the symptoms, it *)
(* affects their entities.                                                 *)
Formed(batches, events, x, edges) ==
    [batches |-> batches, events |-> events, primary |-> x,
     affected |-> SetToSeq({e.entity : e \in events}), edges |-> edges]

Openers == {Forwarded, Latency, Timeout}

OneBatch == <<World \cup Background>>

(* Any one of the events is delivered after the others.                     *)
Late(events) ==
    {<<events>>} \cup {<<events \ {e}, {e}>> : e \in events}

(* Any of the events attached, on the shipped topology; some of them with a  *)
(* trace, for which ranker and collector have different words; some on any   *)
(* graph; and any one of them late.                                        *)
AllIncidents ==
    {Formed(OneBatch, E, o.entity, ShippedEdges) :
        <<E, o>> \in {p \in (SUBSET World) \X Openers : p[2] \in p[1]}}
    \cup {Formed(OneBatch, E \cup Trace, gw, ShippedEdges) :
             E \in SUBSET {Change, Latency, Timeout, Forwarded}}
    \cup {Formed(<<E \cup Background>>, E, pay,
                 [sends_traffic_to |-> G, depends_on |-> PossibleEdges \ G]) :
             G \in SUBSET PossibleEdges,
             E \in {World \ {DatabaseChange, Alert}, {Timeout},
                   {DatabaseChange, Forwarded, Timeout}}}
    \cup {Formed(batches, E, gw, ShippedEdges) :
             batches \in Late(World \cup Background)
                            \cup Late({Forwarded, Timeout} \cup Background),
             E \in {{Forwarded, Timeout}}}
=============================================================================
