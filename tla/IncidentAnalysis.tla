-------------------------- MODULE IncidentAnalysis --------------------------
(***************************************************************************)
(* RcaAnalysisAdapter.analyse: what the orchestrator calls "Analyse", from  *)
(* the events that were detected on and attached to the incident.           *)
(*                                                                         *)
(* The bundle of the incident goes through the engine, the collector and    *)
(* the playbooks, and the top hypothesis is explained: always by the        *)
(* template, and by a language model if one is configured, whose answer may *)
(* be late, foreign or invalid.  Any failure fails the whole analysis.      *)
(*                                                                         *)
(* The caller holds the orchestrator lock and the writer lock throughout,   *)
(* so the bundle is one snapshot and the run stays "building" while the     *)
(* model thinks: current_run_id_provider always answers with this run.      *)
(***************************************************************************)
EXTENDS EvidenceCollection, Detection

CONSTANTS
    Incidents,   \* [batches, events, primary, affected, edges]
    Playbook,    \* [step -> [causes, entityTypes]]
    PastIncidents, \* historical_incidents: [cause, fingerprint, features]
    Modes        \* settings.explanation_mode and whether a provider is wired

ASSUME ModesAssumption == Modes \subseteq {"template", "unwired", "llm"}

(* TopologyGraph refuses an edge of which an end is no entity.               *)
ASSUME TopologyAssumption ==
    /\ IsFiniteSet(Entities)
    /\ \A inc \in Incidents : \A relation \in DOMAIN inc.edges :
          inc.edges[relation] \subseteq Entities \X Entities
    /\ \A inc \in Incidents :
          {"sends_traffic_to", "depends_on"} \subseteq DOMAIN inc.edges

(* The incident manager takes the entities from the topology.               *)
ASSUME LocationAssumption ==
    \A inc \in Incidents :
        inc.primary \in Entities /\ inc.affected \in Seq(Entities)

(* An event is ingested once: ids are the keys of its table.                *)
ASSUME DeliveryAssumption ==
    \A inc \in Incidents :
        LET delivered == UNION Range(inc.batches) IN
        /\ inc.batches \in Seq(SUBSET delivered)
        /\ \A n \in DOMAIN inc.batches : IsFiniteSet(inc.batches[n])
        /\ \A e \in delivered : CanonicalEvent(e)
        /\ \A e, f \in delivered : e.id = f.id => e = f
        /\ inc.events \subseteq delivered

VARIABLES
    stage,      \* how far the analysis is
    bundle,     \* build_incident_analysis_bundle
    ranked,     \* ranked hypotheses, best first
    evidence,   \* evidence of the hypotheses collected so far
    mode,       \* the mode of this process, undecided until it matters
    answers,    \* what the model answered, attempt by attempt
    rows,       \* generators of the explanation rows
    fallback    \* explanation_fallback_reason

vars == <<stage, bundle, ranked, evidence, mode, answers, rows, fallback>>

-----------------------------------------------------------------------------
Stages == {"bundle", "collect", "explain", "ask", "done", "failed"}

(* A foreign answer names another run or incident.  Other answers that the  *)
(* validator rejects are alike.                                            *)
Answers == {"raises", "foreign", "invalid", "valid"}

NoReason == "none"

Undecided == "undecided"

(* The features of the incident, as pairs of a key and a value.             *)
FeatureVector(b) ==
    LET change == Earliest({e \in Changes(b) : e.key # "none"}) IN
    {<<"entity_type", EntityType[b.primary]>>,
     <<"forwarded_traffic_spike",
       IF "FORWARDED_TRAFFIC_SPIKE" \in AnomalyTypes(b) THEN "yes" ELSE "no">>}
        \cup IF change = NoEvent THEN {} ELSE {<<"change_type", change.key>>}

(* A past incident with the same events is alike, one that shares half of    *)
(* its features is half alike.                                             *)
SimilarityOf(past, b) ==
    CASE past.fingerprint = {e.id : e \in b.events} -> Whole
      [] /\ past.fingerprint # {e.id : e \in b.events}
         /\ past.features # {}
         /\ 2 * Cardinality(past.features \cap FeatureVector(b))
                >= Cardinality(past.features) -> 5000
      [] OTHER -> 0

HistoricalMatches(b) ==
    {[cause |-> past.cause, similarity |-> SimilarityOf(past, b)]
        : past \in PastIncidents}

(* The batches that were ingested, the anomalies detected on them, and of    *)
(* both what is attached to the incident.                                  *)
Bundle(inc) ==
    LET detected == Detect(inc.batches, inc.edges)
        plain == [batches   |-> inc.batches,
                  detected  |-> detected,
                  events    |-> inc.events,
                  anomalies |-> {a \in detected :
                                    \E e \in inc.events : e.id = a.event},
                  primary   |-> inc.primary,
                  affected  |-> inc.affected,
                  edges     |-> inc.edges,
                  history   |-> {}]
    IN [plain EXCEPT !.history = HistoricalMatches(plain)]

Init ==
    /\ \E inc \in Incidents : bundle = Bundle(inc)
    /\ stage = "bundle"
    /\ ranked = << >>
    /\ evidence = << >>
    /\ mode = Undecided
    /\ answers = << >>
    /\ rows = << >>
    /\ fallback = NoReason

Fail == stage' = "failed"

(* CandidateGenerator.generate, then RootCauseRanker.rank.                 *)
Analyse ==
    /\ stage = "bundle"
    /\ Candidates(bundle) # {}
    /\ ranked' = Rank(Candidates(bundle), bundle)
    /\ stage' = "collect"
    /\ UNCHANGED <<bundle, evidence, mode, answers, rows, fallback>>

NoCandidates ==
    /\ stage = "bundle"
    /\ Candidates(bundle) = {}
    /\ Fail
    /\ UNCHANGED <<bundle, ranked, evidence, mode, answers, rows, fallback>>

(* The next hypothesis to collect evidence for.                            *)
NextHypothesis == ranked[Len(evidence) + 1]

Entry(scored) == Catalogue[scored.candidate.cause]

Collected(scored) == CollectEvidence(Entry(scored), bundle, scored)

CoverageMatches(scored) ==
    CalculateCoverage(Entry(scored), Collected(scored))
        = Cardinality(scored.available)

(* get_recommendations has every step the catalogue entry declares.         *)
StepsApply(scored) ==
    \A step \in Entry(scored).steps :
        /\ Entry(scored).type \in Playbook[step].causes
        /\ EntityType[scored.candidate.entity] \in Playbook[step].entityTypes

Collect ==
    /\ stage = "collect"
    /\ Len(evidence) < Len(ranked)
    /\ CoverageMatches(NextHypothesis)
    /\ StepsApply(NextHypothesis)
    /\ evidence' = Append(evidence, Collected(NextHypothesis))
    /\ UNCHANGED <<stage, bundle, ranked, mode, answers, rows, fallback>>

(* RcaAdapterError.                                                        *)
CollectFails ==
    /\ stage = "collect"
    /\ Len(evidence) < Len(ranked)
    /\ ~CoverageMatches(NextHypothesis) \/ ~StepsApply(NextHypothesis)
    /\ Fail
    /\ UNCHANGED <<bundle, ranked, evidence, mode, answers, rows, fallback>>

AllCollected ==
    /\ stage = "collect"
    /\ Len(evidence) = Len(ranked)
    /\ stage' = "explain"
    /\ UNCHANGED <<bundle, ranked, evidence, mode, answers, rows, fallback>>

-----------------------------------------------------------------------------
(* ExplanationService.generate for the top hypothesis.                     *)

Conclude(reason) == fallback' = reason /\ stage' = "done"

(* The template is generated and validated first.                          *)
Template ==
    /\ stage = "explain"
    /\ rows' = <<"template">>
    /\ mode' \in Modes
    /\ \/ mode' = "template" /\ Conclude(NoReason)
       \/ mode' = "unwired" /\ Conclude("LLM_PROVIDER_UNAVAILABLE")
       \/ mode' = "llm" /\ stage' = "ask" /\ UNCHANGED fallback
    /\ UNCHANGED <<bundle, ranked, evidence, answers>>

(* ExplanationServiceError: what the template says does not validate.        *)
TemplateFails ==
    /\ stage = "explain"
    /\ Fail
    /\ UNCHANGED <<bundle, ranked, evidence, mode, answers, rows, fallback>>

Answer(a) ==
    /\ stage = "ask"
    /\ answers' = Append(answers, a)
    /\ UNCHANGED <<bundle, ranked, evidence, mode>>

Accept ==
    /\ Answer("valid")
    /\ rows' = Append(rows, "llm")
    /\ Conclude(NoReason)

(* A late answer for another run is not asked for again.                   *)
Stale ==
    /\ Answer("foreign")
    /\ Conclude("LLM_RESULT_STALE")
    /\ UNCHANGED rows

(* Fault: the second answer is not validated.                              *)
RetryTrusting ==
    \E a \in {"raises", "invalid"} :
        /\ Answer(a)
        /\ CASE answers = << >> -> UNCHANGED <<stage, fallback, rows>>
             [] a = "raises" -> Conclude("LLM_GENERATION_FAILED") /\ UNCHANGED rows
             [] OTHER -> Conclude(NoReason) /\ rows' = Append(rows, "llm")

(* The model is asked twice at most.                                       *)
Retry ==
    \E a \in {"raises", "invalid"} :
        /\ Answer(a)
        /\ IF answers = << >> THEN UNCHANGED <<stage, fallback>>
           ELSE Conclude(IF a = "raises" THEN "LLM_GENERATION_FAILED"
                         ELSE "LLM_INVALID")
        /\ UNCHANGED rows

Finished == stage \in {"done", "failed"} /\ UNCHANGED vars

Next ==
    \/ Analyse \/ NoCandidates \/ Collect \/ CollectFails \/ AllCollected
    \/ Template \/ TemplateFails \/ Accept \/ Stale \/ Retry
    \/ Finished

Spec == Init /\ [][Next]_vars

-----------------------------------------------------------------------------
Root == ranked[1].candidate.entity

(* Factors stay within 0 and 1 and scores within 0 and 100 after every      *)
(* conflict, and hypotheses are in the order of their scores.              *)
TypeOK ==
    /\ stage \in Stages
    /\ Len(evidence) <= Len(ranked)
    /\ answers \in UNION {[1..n -> Answers] : n \in 0..2}
    /\ \A k \in DOMAIN ranked :
          /\ ranked[k].score \in 0..1000
          /\ \A f \in DOMAIN ranked[k].factors : ranked[k].factors[f] \in 0..Whole
          /\ k > 1 => ranked[k - 1].score >= ranked[k].score

CauseOf(a) ==
    CHOOSE c \in bundle.detected :
        c.event = a.cause.event /\ c.detector = a.cause.detector

Cascades == {a \in bundle.detected : a.cause # NoCause}

ArrivedLater(x, y) ==
    \E i, j \in DOMAIN bundle.batches :
        /\ i > j
        /\ \E e \in bundle.batches[i] : e.id = x
        /\ \E e \in bundle.batches[j] : e.id = y

(* A cascade signal is downstream of the anomaly that it names, by a path    *)
(* along edges of one type, and never before it, in whatever order a batch   *)
(* lists its events; only an event that comes in a later batch than the      *)
(* anomaly may be older.                                                   *)
CascadesFollowTheirCause ==
    stage = "bundle" =>
        \A a \in Cascades :
            LET cause == CauseOf(a) IN
            /\ \E relation \in DOMAIN bundle.edges : \E n \in 1..MaxHops :
                  Paths(Entities, bundle.edges[relation],
                        cause.entity, a.entity, n) # {}
            /\ cause.time > a.time => ArrivedLater(a.event, cause.event)

(* A cascade signal goes back to a symptom that a detector found, not to     *)
(* another cascade signal or to a configuration change, however long the    *)
(* chain of failing entities is.                                           *)
CascadesDoNotCascade ==
    stage = "bundle" => \A a \in Cascades : ~CauseOf(a).context

(* A span whose parent started before it, within the window, and did not     *)
(* come in a later batch is not reported as torn from its trace, wherever   *)
(* the parent ran.  (One that started in the same instant is.)              *)
WholeTracesPass ==
    stage = "bundle" =>
        \A e, p \in UNION Range(bundle.batches) :
            /\ e.modality = "trace" /\ p.modality = "trace"
            /\ p.session = e.session /\ p.span = e.parent
            /\ p.time < e.time /\ p.time >= e.time - Window
            /\ ~ArrivedLater(p.id, e.id)
            => ~\E a \in bundle.detected :
                  a.event = e.id /\ a.detector = "trace_structure"

(* The two searches of the topology, the incident manager's and the cascade *)
(* detector's, agree with the definition of distance on every graph, and    *)
(* with each other when read in reverse.                                   *)
TopologySearchesAgree ==
    stage = "bundle" =>
        \A relation \in DOMAIN bundle.edges :
            /\ DistancesAgree(Entities, bundle.edges[relation])
            /\ BlastRadiusIsSymmetric(Entities, bundle.edges[relation])

(* The generator and the ranker search the topology with code of their own: *)
(* a cause that the generator located from an affected entity has a route    *)
(* and a topology factor with the ranker, unless it reckons from other       *)
(* origins.                                                                *)
CausesAreLocated ==
    \A k \in DOMAIN ranked :
        LET entry == Entry(ranked[k]) IN
        TopologyOrigins(entry, bundle) = AffectedOrPrimary(bundle) =>
            ranked[k].path # NoRoute /\ ranked[k].factors.topology > 0

(* What the map of an incident shows hangs together: an edge that is        *)
(* painted joins painted entities, whatever cycles and dead ends there are.  *)
PaintedEdgesJoinPaintedNodes ==
    ranked # << >> =>
        LET nodes == NodeState(Root, bundle)
            edges == EdgeState(Root, bundle)
        IN \A e \in DOMAIN edges :
              edges[e] # "none" => nodes[e[1]] # "none" /\ nodes[e[2]] # "none"

(* The evidence of a hypothesis can be stored: ids, hashes of kind, code    *)
(* and source, do not collide although requirements share codes and events. *)
EvidenceIdsAreDistinct ==
    \A k \in DOMAIN evidence : \A i, j \in evidence[k] :
        i # j => EvidenceId(i) # EvidenceId(j)

(* A conflict that cost a hypothesis score is shown with the event that it  *)
(* was found in, and never gains it any.                                   *)
AppliedConflictsAreShown ==
    \A k \in DOMAIN evidence :
        /\ ranked[k].score <= ranked[k].unopposed
        /\ \A c \in ranked[k].conflicts :
              \E i \in evidence[k] : /\ i.kind = "conflicting"
                                     /\ i.why = c.id
                                     /\ i.source = c.source.id

(* A published explanation is the template, followed by an answer of the    *)
(* model only if that answer was valid; otherwise, and only then, a         *)
(* configured model leaves the reason for which it was passed over.         *)
ExplanationIsSound ==
    stage = "done" =>
        /\ rows \in {<<"template">>, <<"template", "llm">>}
        /\ (rows = <<"template", "llm">>)
              = (answers # << >> /\ answers[Len(answers)] = "valid")
        /\ (fallback # NoReason) = (mode # "template" /\ rows = <<"template">>)
        /\ \A n \in DOMAIN answers : answers[n] \in {"foreign", "valid"}
                                        => n = Len(answers)

(* The ranker looks for a word in every text of an event, the collector for   *)
(* most words in one of them: in the name of the signal, in the type of the *)
(* event or in the payload.                                                *)
SignalWords ==
    {"raw_ingress", "connection_utilization", "active_connections", "latency",
     "db_connection_utilization", "pool_wait", "rejected_lease", "cpu_usage",
     "memory_usage", "service_p95_latency", "rejected_connection_rate",
     "unique_destination_ports", "destination_fanout", "datanode_io_error",
     "trace_span_duration"}

TypeWords ==
    {"timeout", "waf_decision", "dns", "resolver", "certificate", "tls",
     "resource_saturation", "port_scan", "hdfs_datanode_failure",
     "datanode_failure"}

PayloadWords ==
    {"source_distribution", "client_ip", "source_ip", "source_fingerprint",
     "change_ticket", "authorization_ticket", "approved_scan_ticket", "replica"}

RateNames == {"forwarded_requests", "forwarded_request_rate"}

Said(e, words) == (e.text.signal \cup e.text.type \cup e.text.payload) \cap words

(* The events have each word where the collector looks for it, and none that *)
(* only the collector knows, as the metrics and logs of the shipped adapters *)
(* do, whose payload repeats the name or the code; where an alert speaks of  *)
(* forwarded requests, a metric of the same entity counts them.  A trace     *)
(* span is a "duration" without latency and has no part in it.              *)
SharedVocabulary(b) ==
    \A e \in b.events :
        /\ Said(e, SignalWords) \subseteq e.text.signal
        /\ Said(e, TypeWords) \subseteq e.text.type
        /\ Said(e, PayloadWords) \subseteq e.text.payload
        /\ "duration" \in e.text.signal => "latency" \in e.text.signal
        /\ "handshake" \in e.text.type =>
              e.text.type \cap {"certificate", "tls"} # {}
        /\ "waf" \in e.text.source => "waf_decision" \in e.text.type
        /\ e.text.signal \cap RateNames # {} =>
              "forwarded_request" \in e.text.signal
        /\ Said(e, {"forwarded_request"}) # {} =>
              \E d \in b.events : /\ d.modality = "metric"
                                  /\ d.entity = e.entity
                                  /\ d.text.signal \cap RateNames # {}

(* The ranker and the collector, with rules of their own, count the same    *)
(* evidence, so the adapter's check does not fail the analysis, if they read *)
(* the same out of the events; free text is where they part.                 *)
CoverageAgrees ==
    stage = "collect" /\ SharedVocabulary(bundle) =>
        \A k \in DOMAIN ranked : CoverageMatches(ranked[k])
=============================================================================
