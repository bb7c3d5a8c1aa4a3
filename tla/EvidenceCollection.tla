------------------------- MODULE EvidenceCollection -------------------------
(***************************************************************************)
(* collect_evidence: the observed, correlated, conflicting and missing      *)
(* evidence of one ranked hypothesis, from the same events the ranker saw.  *)
(* It has requirement rules and conflict rules of its own, and the adapter  *)
(* compares what both say.                                                 *)
(*                                                                         *)
(* The id of an item is a hash of its kind, its code, its source event, the *)
(* run and the hypothesis; "why" is what it was collected for.  Statements  *)
(* and relevances are wording.                                             *)
(***************************************************************************)
EXTENDS CauseRanking

CONSTANTS
    Quarantined   \* requirements that a quarantined record mentions

InText(signal, type, payload) == Rule(AnyModality, signal, type, payload, {}, {})

CollectorRules ==
    [config_diff |-> Rule({"config_change"}, {}, {}, {}, {}, {}),
     forwarded_rate |-> InSignal({"forwarded_requests", "forwarded_request_rate"}),
     stable_raw_ingress |-> InSignal({"raw_ingress"}),
     raw_ingress |-> InSignal({"raw_ingress"}),
     source_distribution |-> InText({"raw_ingress"}, {},
        {"source_distribution", "client_ip", "source_ip"}),
     connection_pressure |-> InSignal({"connection_utilization"}),
     active_connection_pressure |-> InSignal({"active_connections"}),
     downstream_latency |-> InSignal({"latency", "duration"}),
     timeout_log |-> InType({"log"}, {"timeout"}),
     waf_decision_logs |->
        Rule(AnyModality, {}, {"waf_decision"}, {}, {"waf"}, {}),
     waf_decisions |->
        Rule(AnyModality, {}, {"waf_decision"}, {}, {"waf"}, {}),
     db_utilization |-> InSignal({"db_connection_utilization"}),
     pool_waits |-> InSignal({"pool_wait", "rejected_lease"}),
     dependency_timeout |->
        Rule({"log"}, {}, {"timeout"}, {}, {}, {"dependency_id"}),
     path_telemetry |-> Anywhere(AnyModality,
        {"packet_loss", "retransmission", "hop_latency"}),
     upstream_health |-> InType(AnyModality,
        {"health", "upstream_failure", "upstream_error"}),
     dns_queries |-> InType(AnyModality, {"dns", "resolver"}),
     certificate_state |->
        InType(AnyModality, {"certificate", "tls", "handshake"}),
     resource_usage |-> InSignal({"cpu_usage", "memory_usage"}),
     service_latency |-> InSignal({"service_p95_latency"}),
     resource_log |-> InType({"log"}, {"resource_saturation"}),
     scan_pattern |-> InText({"unique_destination_ports", "destination_fanout"},
                             {"port_scan"}, {}),
     scanner_source |-> InText({}, {}, {"source_fingerprint"}),
     scanner_authorization |-> Rule(AnyModality, {},
        {"scanner_allowlist_match"}, {}, {}, {"scanner_authorized"}),
     change_ticket |-> InText({}, {},
        {"change_ticket", "authorization_ticket", "approved_scan_ticket"}),
     connection_rejections |-> InSignal({"rejected_connection_rate"}),
     datanode_health |->
        InText({"datanode_io_error"}, {"hdfs_datanode_failure"}, {}),
     replication_state |->
        InText({}, {"replica", "datanode_failure"}, {"replica"}),
     trace_critical_path |->
        Rule({"trace"}, {"trace_span_duration"}, {}, {}, {}, {}),
     span_errors |-> Rule({"trace"}, {}, {}, {"span_error"}, {}, {})]

(* Fault: raw ingress and source distribution are given one reason code.    *)
ReasonCodeShared(requirement) ==
    CASE requirement \in {"timeout_log", "dependency_timeout"} ->
            "DEPENDENCY_TIMEOUT_LOG"
      [] requirement \in {"raw_ingress", "source_distribution"} -> "raw_ingress"
      [] OTHER -> requirement

(* Requirements that share a reason code; every other one has its own.      *)
ReasonCode(requirement) ==
    IF requirement \in {"timeout_log", "dependency_timeout"}
    THEN "DEPENDENCY_TIMEOUT_LOG" ELSE requirement

MatchingEvents(requirement, b) ==
    {e \in b.events : Matches(CollectorRules[requirement], e)}

(* Fault: evidence of other entities is taken for the candidate's.          *)
LatestMatchAnywhere(requirement, b, x) == Latest(MatchingEvents(requirement, b))

LatestMatch(requirement, b, x) ==
    Latest({e \in MatchingEvents(requirement, b) : InScope(requirement, e, x)})

Item(why, kind, code, e) ==
    [why |-> why, kind |-> kind, code |-> code, source |-> e.id]

EvidenceId(item) == <<item.kind, item.code, item.source>>

MissingPrefix(requirement) ==
    IF requirement \in Quarantined THEN "QUARANTINED" ELSE "MISSING"

(* One item for each expected requirement.                                 *)
RequirementItem(requirement, b, x) ==
    LET e == LatestMatch(requirement, b, x)
    IN IF e = NoEvent
       THEN Item(requirement, "missing",
                 <<MissingPrefix(requirement), requirement>>, NoEvent)
       ELSE IF requirement = "config_diff"
       THEN Item(requirement, "correlated", <<"PRECEDING", requirement>>, e)
       ELSE Item(requirement, "observed",
                 <<"OBSERVED", ReasonCode(requirement)>>, e)

RequirementItems(entry, b, x) ==
    {RequirementItem(r, b, x) : r \in entry.expected}

(* An association that satisfies no requirement, if no change is correlated. *)
Association(entry, b, items) ==
    LET source ==
            CASE entry.type = "dos_or_traffic_surge" ->
                    Latest({e \in b.events : e.modality = "alert"})
              [] entry.type = "database_connection_exhaustion" ->
                    Latest(MatchingEvents("downstream_latency", b))
              [] OTHER -> NoEvent
    IN IF source = NoEvent \/ \E i \in items : i.kind = "correlated" THEN {}
       ELSE {Item("association", "correlated", <<"RELATED", entry.type>>, source)}

(* _conflict_source: the catalogue's conflict rules, known here by name.    *)
NamedConflictSource(id, b) ==
    CASE id = "STABLE_RAW_INGRESS" ->
            Latest(MatchingEvents("stable_raw_ingress", b))
      [] id = "NORMAL_DB_UTILIZATION" ->
            Latest({e \in MatchingEvents("db_utilization", b) :
                       e.value # NoValue /\ e.value < 75})
      [] id = "AUTHORIZED_SCANNER_MATCH" ->
            Latest(MatchingEvents("scanner_authorization", b))
      [] OTHER -> NoEvent

NamedConflict(id, b) ==
    Item(id, "conflicting", <<"CONFLICT", id>>, NamedConflictSource(id, b))

(* Fault: the effects of the ranker are not handed over.                    *)
ConflictItemsByName(entry, b, applied) ==
    {NamedConflict(c.id, b)
        : c \in {d \in Range(entry.conflicts) :
                    NamedConflictSource(d.id, b) # NoEvent}}

(* The effects the ranker applied; if it applied none, the patterns of the  *)
(* catalogue are matched again, by name.                                   *)
ConflictItems(entry, b, applied) ==
    IF applied # {}
    THEN {Item(c.id, "conflicting", <<"CONFLICT", c.id>>, c.source) : c \in applied}
    ELSE {NamedConflict(c.id, b)
            : c \in {d \in Range(entry.conflicts) :
                        NamedConflictSource(d.id, b) # NoEvent}}

AlternativeCause(entry, b, conflicts) ==
    LET alert == Latest({e \in b.events : e.modality = "alert"})
    IN IF /\ entry.type = "configuration_regression"
          /\ conflicts = {}
          /\ alert # NoEvent
       THEN {Item("alternative", "conflicting",
                  <<"CONFLICT", "ALTERNATIVE_CAUSE_SIGNAL">>, alert)} ELSE {}

CollectEvidence(entry, b, scored) ==
    LET items     == RequirementItems(entry, b, scored.candidate.entity)
        conflicts == ConflictItems(entry, b, scored.conflicts)
    IN items \cup Association(entry, b, items)
             \cup conflicts \cup AlternativeCause(entry, b, conflicts)

CalculateCoverage(entry, items) ==
    Max({0, Cardinality(entry.expected)
               - Cardinality({i \in items : i.kind = "missing"})})
=============================================================================
