------------------------------ MODULE Detection ------------------------------
(***************************************************************************)
(* The detectors of DetectorService, and the order in which the             *)
(* orchestrator has them look at the events of a batch.                     *)
(*                                                                         *)
(* An event carries, besides the fields that CauseRanking reads,            *)
(*   severity           in hundredths, as its adapter normalised it         *)
(*   level              of a log record                                     *)
(*   limit              declared safety limit of a reference-derived signal *)
(*   span, parent, session, expected        of a trace span                 *)
(*   statistical        what the rolling z-score and EWMA detectors find    *)
(* The statistics depend on samples no incident has; the baseline they come *)
(* from is the subject of EventIngestion.                                   *)
(***************************************************************************)
EXTENDS CauseRanking

CONSTANTS
    AnomalyThreshold,  \* settings.anomaly_threshold, in hundredths
    Window,            \* settings.detector_window_seconds
    RecentLimit,       \* anomalies that the cascade detector is shown
    LogRules,          \* [event type -> [type, score]]: detector_rules.yaml
    ReferenceTypes     \* [event type -> anomaly type] of reference signals

ASSUME WindowAssumption == Window \in Nat /\ RecentLimit \in Nat \ {0}

ASSUME LogRulesAssumption ==
    \A type \in DOMAIN LogRules : LogRules[type].score \in 0..100

(* What CanonicalEvent and the adapters guarantee of an event.  A limit that *)
(* is not positive counts as none.                                         *)
CanonicalEvent(e) ==
    /\ e.id \in Nat \ {0} /\ e.time \in Int /\ e.entity \in Entities
    /\ e.severity \in 0..100
    /\ e.value # NoValue => e.value \in Int
    /\ e.limit # NoValue => e.limit \in Nat \ {0}
    /\ e.expected # NoValue => e.expected \in Nat \ {0}
    /\ IsFiniteSet(e.statistical)
    /\ \A s \in e.statistical :
          s.detector \in {"rolling_zscore", "ewma"} /\ s.score \in 0..100

NoCause == [event |-> 0, detector |-> "none"]

(* common.record: the anomaly ends with its event.                          *)
Record(e, detector, type, score, context, cause) ==
    [event |-> e.id, entity |-> e.entity, time |-> e.time,
     detector |-> detector, type |-> type, score |-> score,
     context |-> context, cause |-> cause]

(* An anomaly is reported if its score reaches the threshold.               *)
Report(e, detector, type, score) ==
    IF score < AnomalyThreshold THEN {}
    ELSE {Record(e, detector, type, score, FALSE, NoCause)}

-----------------------------------------------------------------------------
(* The detectors that look at the event alone                              *)

(* base + share * min(value / limit - 1, 1), rounded to a hundredth.        *)
Exceedance(value, limit, base, share) ==
    base + (2 * share * Min({value - limit, limit}) + limit) \div (2 * limit)

ReferenceThreshold(e) ==
    IF /\ e.modality = "metric" /\ e.value # NoValue /\ e.limit # NoValue
       /\ e.type \in DOMAIN ReferenceTypes
       /\ e.value >= e.limit
    THEN Report(e, "reference_threshold", ReferenceTypes[e.type],
                Exceedance(e.value, e.limit, 85, 15))
    ELSE {}

Statistical(e) ==
    {Record(e, s.detector, s.type, s.score, FALSE, NoCause) : s \in e.statistical}

LevelScore == [error |-> 80, critical |-> 95, fatal |-> 100]

LogRule(e) ==
    CASE e.modality = "log" /\ e.type \in DOMAIN LogRules ->
            Report(e, "log_rule", LogRules[e.type].type, LogRules[e.type].score)
      [] /\ e.modality = "log" /\ e.type \notin DOMAIN LogRules
         /\ e.level \in DOMAIN LevelScore ->
            Report(e, "log_rule",
                   IF e.level = "fatal" THEN "FATAL_LOG_PATTERN"
                   ELSE "ERROR_LOG_PATTERN", LevelScore[e.level])
      [] OTHER -> {}

AlertTypes(type) ==
    CASE type = "HIGH_FORWARDED_REQUEST_AND_CONNECTION_RATE" ->
            "GATEWAY_TRAFFIC_ALERT"
      [] type = "HIGH_CHECKOUT_ERROR_RATE" -> "CHECKOUT_ERROR_ALERT"
      [] OTHER -> type

AlertSeverity(e) ==
    IF e.modality # "alert" THEN {}
    ELSE Report(e, "alert_severity", AlertTypes(e.type), e.severity)

(* Context only, and below the threshold too.                               *)
ConfigChangeMarker(e) ==
    IF e.modality # "config_change" THEN {}
    ELSE {Record(e, "config_change", "RECENT_CONFIGURATION_CHANGE",
                 e.severity, TRUE, NoCause)}

TraceLatency(e) ==
    IF /\ e.modality = "trace" /\ e.value # NoValue /\ e.expected # NoValue
       /\ e.value >= 3 * e.expected
    THEN Report(e, "trace_latency", "TRACE_LATENCY_ANOMALY",
                Exceedance(e.value, 3 * e.expected, 82, 18))
    ELSE {}

-----------------------------------------------------------------------------
(* The detectors that look at what is stored                               *)

(* Fault: the history is that of the entity.                                *)
HistoryOfEntity(e, events) ==
    {h \in events : /\ h.time >= e.time - Window /\ h.time < e.time
                    /\ h.entity = e.entity}

(* _build_context: the history is every stored event of the window.  An     *)
(* event with the same timestamp is not in it.                              *)
History(e, events) ==
    {h \in events : h.time >= e.time - Window /\ h.time < e.time}

TraceStructure(e, events) ==
    IF /\ e.modality = "trace" /\ e.parent # "none"
       /\ ~\E h \in History(e, events) :
              h.modality = "trace" /\ h.session = e.session /\ h.span = e.parent
    THEN {Record(e, "trace_structure", "TRACE_STRUCTURE_ANOMALY", 90, FALSE,
                 NoCause)}
    ELSE {}

(* The most recent ones.  The query does not say which of two anomalies      *)
(* with one timestamp comes first.                                         *)
MostRecent(S) ==
    {a \in S : Cardinality({c \in S : c.time > a.time}) < RecentLimit}

(* Fault: context is not filtered out.                                      *)
RecentAnomaliesAndContext(e, anomalies) ==
    MostRecent({a \in anomalies : a.time >= e.time - 2 * Window})

(* _build_context: the latest anomalies that are not context.  There is no   *)
(* upper bound: for an event that comes late they may be later than it.     *)
RecentAnomalies(e, anomalies) ==
    MostRecent({a \in anomalies :
                   ~a.context /\ a.time >= e.time - 2 * Window})

(* The hops if they are not too many, else the other ones.                  *)
HopsWithin(hops, others) ==
    CASE hops \in 1..MaxHops -> hops
      [] hops \notin 1..MaxHops /\ others \in 1..MaxHops -> others
      [] OTHER -> NoPath

(* Hops from the anomaly to the event by the first relation that has any.   *)
CascadeHops(a, e, edges) ==
    HopsWithin(ViewDistance(Entities, edges["sends_traffic_to"], a.entity, e.entity),
               ViewDistance(Entities, edges["depends_on"], a.entity, e.entity))

(* An anomaly at m hops is preferred to one at n: the nearer one, of these  *)
(* the one with the higher score, of these the later one.                   *)
Nearer(a, m, c, n) ==
    \/ m < n
    \/ m = n /\ a.score > c.score
    \/ m = n /\ a.score = c.score /\ a.time > c.time

TopologyCascade(e, anomalies, edges) ==
    LET hits == {a \in RecentAnomalies(e, anomalies) :
                    a.entity # e.entity /\ CascadeHops(a, e, edges) # NoPath}
        hops == [a \in hits |-> CascadeHops(a, e, edges)]
        best == CHOOSE a \in hits :
                    \A c \in hits : ~Nearer(c, hops[c], a, hops[a])
        score == (70 * e.severity + 30 * best.score + 50) \div 100
    IN IF e.modality # "config_change" /\ hits # {} /\ score >= AnomalyThreshold
       THEN {Record(e, "topology_cascade", "CASCADE", score, TRUE,
                    [event |-> best.event, detector |-> best.detector])}
       ELSE {}

-----------------------------------------------------------------------------
(* DetectorService.evaluate_event.  An event has one anomaly at most from    *)
(* each detector, and sees none of its own.                                 *)
EvaluateEvent(e, events, anomalies, edges) ==
    ReferenceThreshold(e) \cup Statistical(e) \cup LogRule(e)
        \cup AlertSeverity(e) \cup ConfigChangeMarker(e) \cup TraceLatency(e)
        \cup TraceStructure(e, events) \cup TopologyCascade(e, anomalies, edges)

(* Fault: the events of a batch are taken in the order of their ids.        *)
EvaluationOrderById(batch) ==
    [k \in 1..Cardinality(batch) |->
        CHOOSE e \in batch : Cardinality({f \in batch : f.id < e.id}) = k - 1]

(* process_batch: by timestamp, then by id, whatever the order of arrival.   *)
EvaluationOrder(batch) == InOrder(batch)

(* The batch is stored as a whole before its first event is evaluated.      *)
DetectBatch(found, batch, edges) ==
    LET events == found.events \cup batch
        order  == EvaluationOrder(batch)
        seen[k \in 0..Len(order)] ==
            IF k = 0 THEN found.anomalies
            ELSE LET before == seen[k - 1]
                 IN before \cup EvaluateEvent(order[k], events, before, edges)
    IN [events |-> events, anomalies |-> seen[Len(order)]]

Detect(batches, edges) ==
    LET found[n \in 0..Len(batches)] ==
            IF n = 0 THEN [events |-> {}, anomalies |-> {}]
            ELSE DetectBatch(found[n - 1], batches[n], edges)
    IN found[Len(batches)].anomalies
=============================================================================
