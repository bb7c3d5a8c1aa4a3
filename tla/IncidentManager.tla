-------------------------- MODULE IncidentManager --------------------------
(***************************************************************************)
(* IncidentManager: which incident an event belongs to.                    *)
(*                                                                         *)
(* A batch is stored and its anomalies detected before the manager takes    *)
(* its events one after the other, by timestamp and id.  Each is scored     *)
(* against every active incident, attached to the best or, if it has an     *)
(* opening anomaly, opens an incident, which looks back at the accepted     *)
(* events that precede it.  All of it runs under the orchestrator lock in   *)
(* one transaction, so a turn of an event is one step.                      *)
(*                                                                         *)
(* Scores are in hundredths, times in seconds.  The anomalies of an event   *)
(* are data: detection does not depend on incidents.  Reasons other than    *)
(* those that decide are wording and left out.                              *)
(***************************************************************************)
EXTENDS Integers, Sequences, FiniteSets, FiniteSetsExt, SequencesExt

CONSTANTS
    Events,      \* event ids: numbers, in the order of the id strings
    EntityOf,    \* [Events -> Entities]
    TimeOf,      \* [Events -> Nat]
    TraceOf,     \* [Events -> Traces \cup {NoTrace}]
    FamiliesOf,  \* symptom families of the event type, in catalogue order
    AnomaliesOf, \* the anomalies detected for the event
    RulesOf,     \* evidence rules whose type and value the event satisfies
    FamilyOf,    \* [rules -> the incident family the rule applies to]
    SignalOf,    \* [Events -> signal names]
    HopsOf,      \* [Entities \X Entities -> distance, or NoPath]
    Incompatible,\* pairs of incompatible families
    OpenThreshold, AttachThreshold,
    NearSeconds, IdleSeconds, LookbackSeconds,
    NoTrace, NoFamily,
    MaxIncidents \* bound on incidents

ASSUME EventsAssumption == Events \subseteq Nat /\ IsFiniteSet(Events)
ASSUME ThresholdAssumption == AttachThreshold \in Int /\ AttachThreshold <= 50
ASSUME WindowAssumption == NearSeconds \in Nat /\ IdleSeconds \in Nat

VARIABLES
    db,     \* committed database
    tx,     \* the database as the transaction of the batch sees it
    todo    \* events of the batch that wait for their turn

vars == <<db, tx, todo>>

-----------------------------------------------------------------------------
Decision == [decision : {"attached", "excluded"}, score : -100..100]

Anomaly == [score : 0..100, opens : BOOLEAN] \* can_open_incident, not context

Active == {"open", "investigating"}

(* opener is history: the event that opened the incident.                   *)
Incident == [status   : Active \cup {"closed"},
             primary  : {EntityOf[e] : e \in Events},
             started  : Nat,
             last     : Nat,
             severity : 0..100,
             count    : Nat,
             affected : SUBSET {EntityOf[e] : e \in Events},
             opener   : Events,
             log      : UNION {[S -> Decision] : S \in SUBSET Events}]

Image == [incidents : Seq(Incident), stored : SUBSET Events]

ASSUME DataAssumption ==
    \A e \in Events : /\ TimeOf[e] \in Nat
                      /\ AnomaliesOf[e] \subseteq Anomaly
                      /\ FamiliesOf[e] \in Seq(ToSet(FamiliesOf[e]))

Attached(inc) == {e \in DOMAIN inc.log : inc.log[e].decision = "attached"}

Before(e, f) == TimeOf[e] < TimeOf[f] \/ (TimeOf[e] = TimeOf[f] /\ e < f)

InOrder(S) ==
    [k \in 1..Cardinality(S) |->
        CHOOSE e \in S : Cardinality({f \in S : Before(f, e)}) = k - 1]

-----------------------------------------------------------------------------
(* Context: what the earliest attached events say of an incident.           *)

FirstOr(s, default) == IF s = << >> THEN default ELSE Head(s)

OpeningContext(e) ==
    [family |-> FirstOr(FamiliesOf[e], NoFamily), trace |-> TraceOf[e],
     since |-> TimeOf[e]]

ContextForIncident(inc) ==
    LET traced == InOrder({e \in Attached(inc) : TraceOf[e] # NoTrace})
        family == InOrder({e \in Attached(inc) : FamiliesOf[e] # << >>})
    IN [family |-> IF family = << >> THEN NoFamily
                   ELSE Head(FamiliesOf[Head(family)]),
        trace  |-> IF traced = << >> THEN NoTrace ELSE TraceOf[Head(traced)],
        since  |-> IF family = << >> THEN inc.started ELSE TimeOf[Head(family)]]

(* Both rules of the catalogue ask for an event at or after the symptom.    *)
EvidenceRuleMatches(e, context) ==
    {r \in RulesOf[e] : FamilyOf[r] = context.family
                        /\ TimeOf[e] >= context.since}

-----------------------------------------------------------------------------
(* The attachment score.                                                   *)

Relationship(inc, e, context) ==
    LET hops == HopsOf[<<inc.primary, EntityOf[e]>>]
        topology == CASE EntityOf[e] = inc.primary -> 40
                      [] EntityOf[e] # inc.primary /\ hops = 1 -> 30
                      [] EntityOf[e] # inc.primary /\ hops = 2 -> 15
                      [] OTHER -> 0
        trace == IF context.trace # NoTrace /\ TraceOf[e] = context.trace
                 THEN 40 ELSE 0
    IN topology + trace

Symptom(e, context) ==
    LET families == ToSet(FamiliesOf[e]) IN
    CASE context.family \in families -> 20
      [] /\ context.family \notin families
         /\ \E f \in families : <<f, context.family>> \in Incompatible
                                \/ <<context.family, f>> \in Incompatible -> -25
      [] OTHER -> 0

DifferentTrace(e, context) ==
    IF NoTrace \notin {context.trace, TraceOf[e]} /\ TraceOf[e] # context.trace
    THEN -20 ELSE 0

Near(inc, e, context, lookback) ==
    LET anchor == IF lookback THEN context.since ELSE inc.started
        apart == IF TimeOf[e] < anchor THEN anchor - TimeOf[e]
                 ELSE TimeOf[e] - anchor
    IN IF apart <= NearSeconds THEN 10 ELSE 0

ScoreAttachment(inc, e, anomalies, context, lookback) ==
    LET relationship == Relationship(inc, e, context)
        score == Min({100, relationship + Symptom(e, context)
                           + DifferentTrace(e, context)
                           + Near(inc, e, context, lookback)})
        significant == anomalies # {} \/ EvidenceRuleMatches(e, context) # {}
    IN IF ~lookback /\ TimeOf[e] > inc.last + IdleSeconds
       THEN [decision |-> "excluded", score |-> 0]
       ELSE [decision |-> IF /\ significant /\ relationship > 0
                             /\ score >= AttachThreshold
                          THEN "attached" ELSE "excluded",
             score |-> score]

-----------------------------------------------------------------------------
(* Fault: only the opening event sets the start of the incident.            *)
AttachKeepStart(inc, e, anomalies) ==
    LET actionable == {a \in anomalies : a.opens} IN
    [inc EXCEPT
        !.last     = Max({@, TimeOf[e]}),
        !.count    = @ + Cardinality(actionable),
        !.affected = IF actionable = {} THEN @ ELSE @ \cup {EntityOf[e]},
        !.severity = Max({@} \cup {a.score : a \in actionable})]

(* update_started_at_if_earlier, update_last_event_at, add_anomaly_count,   *)
(* add_affected_entity, update_severity.                                   *)
Attach(inc, e, anomalies) ==
    LET actionable == {a \in anomalies : a.opens} IN
    [inc EXCEPT
        !.started  = Min({@, TimeOf[e]}),
        !.last     = Max({@, TimeOf[e]}),
        !.count    = @ + Cardinality(actionable),
        !.affected = IF actionable = {} THEN @ ELSE @ \cup {EntityOf[e]},
        !.severity = Max({@} \cup {a.score : a \in actionable})]

(* _persist_evaluation: the first decision about an event stands.           *)
PersistEvaluation(inc, e, anomalies, evaluation) ==
    IF e \in DOMAIN inc.log THEN inc
    ELSE LET logged == [inc EXCEPT !.log =
                           [f \in DOMAIN @ \cup {e} |->
                               IF f = e THEN evaluation ELSE @[f]]]
         IN IF evaluation.decision = "attached"
            THEN Attach(logged, e, anomalies) ELSE logged

OpeningAnomalies(e) ==
    {a \in AnomaliesOf[e] : a.score > OpenThreshold /\ a.opens}

(* Normal evidence in the lookback: of each (entity, signal, rule) the       *)
(* latest event, the first one if several share the timestamp.              *)
LatestNormalEvidence(window, context) ==
    {e \in window :
        /\ AnomaliesOf[e] = {}
        /\ \E r \in EvidenceRuleMatches(e, context) :
              \A f \in window :
                 /\ f # e /\ AnomaliesOf[f] = {}
                 /\ EntityOf[f] = EntityOf[e] /\ SignalOf[f] = SignalOf[e]
                 /\ r \in EvidenceRuleMatches(f, context)
                 => TimeOf[f] < TimeOf[e] \/ (TimeOf[f] = TimeOf[e] /\ e < f)}

LookbackWindow(e, accepted) ==
    {f \in accepted \ {e} : TimeOf[f] >= TimeOf[e] - LookbackSeconds
                            /\ TimeOf[f] <= TimeOf[e]}

(* A prior event of the lookback.                                          *)
TakePrior(inc, f, context) ==
    PersistEvaluation(inc, f, AnomaliesOf[f],
                      ScoreAttachment(inc, f, AnomaliesOf[f], context, TRUE))

TakeAll(opened, prior, context) ==
    LET taken[k \in 0..Len(prior)] ==
            IF k = 0 THEN opened ELSE TakePrior(taken[k - 1], prior[k], context)
    IN taken[Len(prior)]

Fresh(e) ==
    [status |-> "open", primary |-> EntityOf[e], started |-> TimeOf[e],
     last |-> TimeOf[e], severity |-> 0, count |-> 0,
     affected |-> {EntityOf[e]}, opener |-> e, log |-> << >>]

Opened(e) ==
    PersistEvaluation(Fresh(e), e, OpeningAnomalies(e),
                      ScoreAttachment(Fresh(e), e, OpeningAnomalies(e),
                                      OpeningContext(e), FALSE))

Priors(e, accepted) ==
    LET window == LookbackWindow(e, accepted) IN
    {f \in window : AnomaliesOf[f] # {}}
        \cup LatestNormalEvidence(window, OpeningContext(e))

(* _open_incident                                                          *)
OpenIncident(e, accepted) ==
    TakeAll(Opened(e), InOrder(Priors(e, accepted)), OpeningContext(e))

-----------------------------------------------------------------------------
Init ==
    /\ db = [incidents |-> << >>, stored |-> {}]
    /\ tx = [incidents |-> << >>, stored |-> {}]
    /\ todo = << >>

Idle == todo = << >> /\ tx = db

(* A batch of accepted events is stored and detected.                       *)
ReceiveBatch ==
    /\ Idle
    /\ \E batch \in SUBSET (Events \ db.stored) \ {{}} :
          /\ tx' = [tx EXCEPT !.stored = @ \cup batch]
          /\ todo' = InOrder(batch)
    /\ UNCHANGED db

(* Fault: closed incidents are considered like any other.                   *)
ListAll(incidents) == DOMAIN incidents

ListOpen(incidents) == {i \in DOMAIN incidents : incidents[i].status \in Active}

Evaluate(i, e) ==
    ScoreAttachment(tx.incidents[i], e, AnomaliesOf[e],
                    ContextForIncident(tx.incidents[i]), FALSE)

Attachable(e) ==
    {i \in ListOpen(tx.incidents) : Evaluate(i, e).decision = "attached"}

(* max by (score, last_event_at), over list_open, latest start first.       *)
Better(i, j, e) ==
    LET a == tx.incidents[i]  b == tx.incidents[j]
        s == Evaluate(i, e).score  t == Evaluate(j, e).score
    IN \/ s > t
       \/ s = t /\ a.last > b.last
       \/ s = t /\ a.last = b.last /\ a.started > b.started
       \/ s = t /\ a.last = b.last /\ a.started = b.started /\ i < j

(* Fault: every incident that can take the event takes it.                  *)
DecideForAll(i, e) == Evaluate(i, e)

(* What is recorded for an active incident: BETTER_INCIDENT_MATCH excludes  *)
(* all that could take the event but the best.                              *)
Decide(i, e) ==
    IF \E j \in Attachable(e) \ {i} : i \in Attachable(e) /\ Better(j, i, e)
    THEN [Evaluate(i, e) EXCEPT !.decision = "excluded"]
    ELSE Evaluate(i, e)

LogDecisions(e) ==
    [i \in DOMAIN tx.incidents |->
        IF i \in ListOpen(tx.incidents)
        THEN PersistEvaluation(tx.incidents[i], e, AnomaliesOf[e], Decide(i, e))
        ELSE tx.incidents[i]]

Opens(e) == Attachable(e) = {} /\ OpeningAnomalies(e) # {}

(* process_anomalies for the next event of the batch.                       *)
ProcessAnomalies ==
    /\ todo # << >>
    /\ LET e == Head(todo) IN
          /\ Opens(e) => Len(tx.incidents) < MaxIncidents
          /\ tx' = [tx EXCEPT !.incidents =
                       IF Opens(e)
                       THEN Append(LogDecisions(e), OpenIncident(e, tx.stored))
                       ELSE LogDecisions(e)]
    /\ todo' = Tail(todo)
    /\ UNCHANGED db

Commit ==
    /\ todo = << >> /\ tx # db
    /\ db' = tx
    /\ UNCHANGED <<tx, todo>>

(* Fault: the incidents of a failed batch stay.                             *)
BatchFailsInPart ==
    /\ ~Idle
    /\ tx' = [tx EXCEPT !.stored = db.stored]
    /\ todo' = << >>
    /\ UNCHANGED db

(* A detector, a turn or the commit fails: nothing of the batch remains.    *)
BatchFails ==
    /\ ~Idle
    /\ tx' = db
    /\ todo' = << >>
    /\ UNCHANGED db

(* A publication makes an incident investigating, a review closes it.       *)
ChangeStatus ==
    /\ Idle
    /\ \E i \in ListOpen(db.incidents), status \in {"investigating", "closed"} :
          /\ db.incidents[i].status # status
          /\ db' = [db EXCEPT !.incidents[i].status = status]
    /\ tx' = db'
    /\ UNCHANGED todo

Next ==
    \/ ReceiveBatch \/ ProcessAnomalies \/ Commit \/ BatchFails
    \/ ChangeStatus

Spec == Init /\ [][Next]_vars

-----------------------------------------------------------------------------
(* The variables have the types their comments announce.                   *)
TypeOK ==
    /\ db.stored \subseteq Events /\ tx.stored \subseteq Events
    /\ \A image \in {db, tx} : \A i \in DOMAIN image.incidents :
          LET inc == image.incidents[i] IN
          /\ [inc EXCEPT !.log = << >>]
                \in [status : Active \cup {"closed"},
                     primary : {EntityOf[e] : e \in Events},
                     started : Nat, last : Nat, severity : 0..100, count : Nat,
                     affected : SUBSET {EntityOf[e] : e \in Events},
                     opener : Events, log : {<< >>}]
          /\ DOMAIN inc.log \subseteq image.stored
          /\ \A e \in DOMAIN inc.log : inc.log[e] \in Decision
    /\ todo \in Seq(Events)

ActionableOf(inc, e) ==
    IF e = inc.opener THEN OpeningAnomalies(e)
    ELSE {a \in AnomaliesOf[e] : a.opens}

(* The summary of an incident is that of its attached events, however they  *)
(* came to it: it spans exactly their timestamps, its severity is the       *)
(* greatest actionable score, its count and its affected entities are those *)
(* of the actionable anomalies.                                            *)
SummaryOfAttached ==
    \A i \in DOMAIN tx.incidents :
        LET inc == tx.incidents[i]
            times == {TimeOf[e] : e \in Attached(inc)}
            scores == UNION {{a.score : a \in ActionableOf(inc, e)} :
                                e \in Attached(inc)}
        IN /\ inc.opener \in Attached(inc)
           /\ inc.started = Min(times) /\ inc.last = Max(times)
           /\ inc.severity = Max(scores)
           /\ inc.count = Cardinality(UNION
                 {{e} \X ActionableOf(inc, e) : e \in Attached(inc)})
           /\ inc.affected = {EntityOf[e] : e \in
                  {f \in Attached(inc) : ActionableOf(inc, f) # {}}}

(* An event of the batch had its turn; a batch that fails stores nothing.   *)
Turn == todo # << >> /\ todo' = Tail(todo) /\ tx'.stored = tx.stored

(* A turn leaves a complete record: every incident that was active has a    *)
(* decision about the event.  At most one incident gained it, and an event  *)
(* with an opening anomaly is in one, unless an earlier lookback had        *)
(* decided about it already.                                               *)
TurnDecides ==
    [][Turn =>
          LET e == Head(todo)
              old(i) == i \in DOMAIN tx.incidents
              gained == {i \in DOMAIN tx'.incidents :
                            /\ e \in Attached(tx'.incidents[i])
                            /\ old(i) => e \notin Attached(tx.incidents[i])}
              known == \E i \in DOMAIN tx.incidents :
                           e \in DOMAIN tx.incidents[i].log
          IN /\ \A i \in ListOpen(tx.incidents) :
                   e \in DOMAIN tx'.incidents[i].log
             /\ Cardinality(gained) <= 1
             /\ OpeningAnomalies(e) # {} /\ ~known => gained # {}]_vars

(* A closed incident receives nothing more, whatever its score would be.    *)
ClosedReceivesNothing ==
    [][\A i \in DOMAIN tx.incidents :
          tx.incidents[i].status = "closed" =>
              tx'.incidents[i] = tx.incidents[i]]_vars

(* An event with an opening anomaly belongs to some incident once it had    *)
(* its turn: it attaches to an active one or opens one.                     *)
OpeningAnomaliesLand ==
    \A e \in tx.stored \ ToSet(todo) :
        OpeningAnomalies(e) # {} =>
            \E i \in DOMAIN tx.incidents : e \in Attached(tx.incidents[i])
=============================================================================
