--------------------------- MODULE ReviewSubmission ---------------------------
(***************************************************************************)
(* Human reviews of one incident: ReviewService.submit, racing with other  *)
(* submissions and with the publication of new analysis runs.              *)
(*                                                                         *)
(* A submission reads the committed database statement by statement, with  *)
(* no lock at all, and keeps the incident row it loaded.  Its INSERT takes *)
(* SQLite's writer lock, and from there to the commit nobody else writes,  *)
(* so that part is one step.  A publication is one step too: it becomes    *)
(* visible with its commit.                                                *)
(***************************************************************************)
EXTENDS Integers, Sequences, FiniteSets

CONSTANTS
    Submissions,   \* POST /incidents/{id}/review requests
    Actions,       \* client_action_id values
    Hypotheses,    \* hypotheses of a run; each has one missing-evidence item
    MaxRuns,       \* bound on published runs
    NoHypothesis,  \* null confirmed_hypothesis_id
    NoReview       \* no review in the answer

ASSUME NoHypothesisAssumption == NoHypothesis \notin Hypotheses
ASSUME MaxRunsAssumption == MaxRuns \in Nat \ {0}

VARIABLES
    incident,   \* the committed incident row
    runStatus,  \* status of the published runs, in order of publication
    reviews,    \* the committed reviews
    recompute,  \* the incident row a recompute request has loaded
    pc,         \* where each submission is
    request,    \* what each submission asks for
    loaded,     \* current_analysis_run_id of the incident row it loaded
    answer      \* what the client was answered

vars == <<incident, runStatus, reviews, recompute, pc, request, loaded, answer>>

Decisions == {"confirmed", "rejected", "evidence_requested"}
Terminal == {"confirmed", "rejected"}
IncidentStatus == {"open", "investigating", "resolved", "rejected"}
Closed == {"resolved", "rejected"}

Review == [action : Actions, run : 1..MaxRuns, hypothesis : Hypotheses,
           decision : Decisions]

(* What a client asks for; 0 is a run that it made up or that was deleted.  *)
Request == [action : Actions, run : 0..MaxRuns, hypothesis : Hypotheses,
            decision : Decisions]

IncidentRow == [status : IncidentStatus, current : 0..MaxRuns,
                confirmed : Hypotheses \cup {NoHypothesis}]

Codes == {"none", "created", "replayed", "INCIDENT_CLOSED", "STALE_ANALYSIS",
          "ANALYSIS_NOT_AVAILABLE", "REVIEW_CONFLICT", "INTERNAL_ERROR"}

NoRecompute == [status |-> "none", current |-> 0]
NoAnswer == [code |-> "none", review |-> NoReview]

-----------------------------------------------------------------------------
(* Queries.                                                                *)

ByClientAction(a) == {v \in reviews : v.action = a}

TerminalFor(revs, h, run) ==
    {v \in revs : v.hypothesis = h /\ v.run = run /\ v.decision \in Terminal}

EvidenceRequestsFor(h, run) ==
    {v \in reviews : /\ v.hypothesis = h
                     /\ v.run = run
                     /\ v.decision = "evidence_requested"}

(* Every hypothesis of the run has a rejection as its one terminal review.  *)
AllRejected(revs, run) ==
    \A h \in Hypotheses :
        \E v \in TerminalFor(revs, h, run) : v.decision = "rejected"

(* The loop over the hypotheses cannot but meet one with two terminal       *)
(* reviews, an error: none before it is still to be rejected.               *)
Ambiguous(revs, run) ==
    /\ \E h \in Hypotheses : Cardinality(TerminalFor(revs, h, run)) > 1
    /\ \A h \in Hypotheses :
          \/ Cardinality(TerminalFor(revs, h, run)) > 1
          \/ \E v \in TerminalFor(revs, h, run) : v.decision = "rejected"

-----------------------------------------------------------------------------
Init ==
    /\ incident = [status |-> "open", current |-> 0, confirmed |-> NoHypothesis]
    /\ runStatus = << >>
    /\ reviews = {}
    /\ recompute = NoRecompute
    /\ pc = [s \in Submissions |-> "new"]
    /\ request = [s \in Submissions |-> NoReview]
    /\ loaded = [s \in Submissions |-> 0]
    /\ answer = [s \in Submissions |-> NoAnswer]

Goto(s, label) == pc' = [pc EXCEPT ![s] = label]

Answer(s, code, review) ==
    /\ answer' = [answer EXCEPT ![s] = [code |-> code, review |-> review]]
    /\ Goto(s, "done")

Refuse(s, code) == Answer(s, code, NoReview)

Database == <<incident, runStatus, reviews, recompute>>

(* The client has seen some published run, or none.                        *)
Receive(s) ==
    /\ pc[s] = "new"
    /\ \E v \in Request :
          /\ v.run <= Len(runStatus)
          /\ request' = [request EXCEPT ![s] = v]
    /\ Goto(s, "action")
    /\ UNCHANGED <<Database, loaded, answer>>

LookupAction(s) ==
    /\ pc[s] = "action"
    /\ \/ \E v \in ByClientAction(request[s].action) : Answer(s, "replayed", v)
       \/ /\ ByClientAction(request[s].action) = {}
          /\ Goto(s, "incident")
          /\ UNCHANGED answer
    /\ UNCHANGED <<Database, request, loaded>>

LoadIncident(s) ==
    /\ pc[s] = "incident"
    /\ \/ /\ incident.status \in Closed
          /\ Refuse(s, "INCIDENT_CLOSED")
          /\ UNCHANGED loaded
       \/ /\ incident.status \notin Closed
          /\ incident.current = 0
          /\ Refuse(s, "ANALYSIS_NOT_AVAILABLE")
          /\ UNCHANGED loaded
       \/ /\ incident.status \notin Closed
          /\ incident.current # 0
          /\ loaded' = [loaded EXCEPT ![s] = incident.current]
          /\ Goto(s, "run")
          /\ UNCHANGED answer
    /\ UNCHANGED <<Database, request>>

RunIsCurrent(s) ==
    /\ request[s].run = loaded[s]
    /\ runStatus[loaded[s]] = "current"

CheckRun(s) ==
    /\ pc[s] = "run"
    /\ \/ ~RunIsCurrent(s) /\ Refuse(s, "STALE_ANALYSIS")
       \/ RunIsCurrent(s) /\ Goto(s, "terminal") /\ UNCHANGED answer
    /\ UNCHANGED <<Database, request, loaded>>

(* scalar_one_or_none: two rows are an error.                              *)
LookupTerminal(s) ==
    /\ pc[s] = "terminal"
    /\ LET found == TerminalFor(reviews, request[s].hypothesis, loaded[s]) IN
          \/ Cardinality(found) > 1 /\ Refuse(s, "INTERNAL_ERROR")
          \/ \E v \in found :
                /\ found = {v}
                /\ IF v.decision = request[s].decision
                   THEN Answer(s, "replayed", v)
                   ELSE Refuse(s, "REVIEW_CONFLICT")
          \/ /\ found = {}
             /\ Goto(s, IF request[s].decision = "evidence_requested"
                        THEN "item" ELSE "recheck")
             /\ UNCHANGED answer
    /\ UNCHANGED <<Database, request, loaded>>

LookupItem(s) ==
    /\ pc[s] = "item"
    /\ LET found == EvidenceRequestsFor(request[s].hypothesis, loaded[s]) IN
          \/ Cardinality(found) > 1 /\ Refuse(s, "INTERNAL_ERROR")
          \/ \E v \in found : found = {v} /\ Answer(s, "replayed", v)
          \/ found = {} /\ Goto(s, "recheck") /\ UNCHANGED answer
    /\ UNCHANGED <<Database, request, loaded>>

(* persist_idempotent looks the client action up once more.                *)
RecheckAction(s) ==
    /\ pc[s] = "recheck"
    /\ \/ \E v \in ByClientAction(request[s].action) : Answer(s, "replayed", v)
       \/ /\ ByClientAction(request[s].action) = {}
          /\ Goto(s, "persist")
          /\ UNCHANGED answer
    /\ UNCHANGED <<Database, request, loaded>>

(* The unique (incident_id, client_action_id) index rejects the INSERT; the *)
(* session is rolled back and the winner's row answered.                    *)
InsertRejected(s) ==
    /\ pc[s] = "persist"
    /\ \E v \in ByClientAction(request[s].action) : Answer(s, "replayed", v)
    /\ UNCHANGED <<Database, request, loaded>>

(* Fault: one rejection closes the incident, whatever the other hypotheses. *)
ReviewedOnAnyRejection(row, v, revs) ==
    CASE v.decision = "confirmed" ->
            [row EXCEPT !.status = "resolved", !.confirmed = v.hypothesis]
      [] v.decision = "rejected" -> [row EXCEPT !.status = "rejected"]
      [] OTHER -> row

(* What the review does to the incident row.                               *)
Reviewed(row, v, revs) ==
    CASE v.decision = "confirmed" ->
            [row EXCEPT !.status = "resolved", !.confirmed = v.hypothesis]
      [] v.decision = "rejected" /\ AllRejected(revs, v.run) ->
            [row EXCEPT !.status = "rejected"]
      [] OTHER -> row

(* Fault: no unique index on the client action.                            *)
PersistUnchecked(s) ==
    /\ pc[s] = "persist"
    /\ LET v == [request[s] EXCEPT !.run = loaded[s]]
           revs == reviews \cup {v}
       IN /\ ~(v.decision = "rejected" /\ Ambiguous(revs, v.run))
          /\ reviews' = revs
          /\ incident' = Reviewed(incident, v, revs)
          /\ Answer(s, "created", v)
    /\ UNCHANGED <<runStatus, recompute, request, loaded>>

(* Insert, audit, change of status and commit.                             *)
Persist(s) ==
    /\ pc[s] = "persist"
    /\ ByClientAction(request[s].action) = {}
    /\ LET v == [request[s] EXCEPT !.run = loaded[s]]
           revs == reviews \cup {v}
       IN /\ ~(v.decision = "rejected" /\ Ambiguous(revs, v.run))
          /\ reviews' = revs
          /\ incident' = Reviewed(incident, v, revs)
          /\ Answer(s, "created", v)
    /\ UNCHANGED <<runStatus, recompute, request, loaded>>

(* Fault: a locked database is tried again without end.                     *)
PersistRetried(s) ==
    /\ pc[s] = "persist"
    /\ Goto(s, "recheck")
    /\ UNCHANGED <<Database, request, loaded, answer>>

(* The writer lock is not had in time, a statement or the commit fails, or  *)
(* the status rule meets two terminal reviews: all is rolled back.          *)
PersistFails(s) ==
    /\ pc[s] = "persist"
    /\ Refuse(s, "INTERNAL_ERROR")
    /\ UNCHANGED <<Database, request, loaded>>

-----------------------------------------------------------------------------
(* Publication.                                                            *)

Supersede(runs) ==
    [k \in 1..Len(runs) |-> IF k = incident.current THEN "superseded"
                            ELSE runs[k]]

(* Fault: the pointer is counted from the revisions after the INSERT.       *)
PublishAsOneAhead(status) ==
    /\ Len(runStatus) < MaxRuns
    /\ runStatus' = Append(Supersede(runStatus), "current")
    /\ incident' = [incident EXCEPT !.current = Len(runStatus') + 1,
                                    !.status = status]

PublishAs(status) ==
    /\ Len(runStatus) < MaxRuns
    /\ runStatus' = Append(Supersede(runStatus), "current")
    /\ incident' = [incident EXCEPT !.current = Len(runStatus) + 1,
                                    !.status = status]

(* An ingestion attaches an event to an active incident, which it loads     *)
(* under the writer lock, and publishes.                                    *)
PublishOnIngestion ==
    /\ incident.status \notin Closed
    /\ PublishAs("investigating")
    /\ UNCHANGED <<reviews, recompute, pc, request, loaded, answer>>

(* POST /incidents/{id}/recompute loads the incident, of any status.       *)
RecomputeLoads ==
    /\ recompute = NoRecompute
    /\ recompute' = [status |-> incident.status, current |-> incident.current]
    /\ UNCHANGED <<incident, runStatus, reviews, pc, request, loaded, answer>>

(* The ORM writes status = 'investigating' unless the row it loaded said so. *)
(* If another run became current meanwhile the publication is rejected.     *)
RecomputePublishes ==
    /\ recompute # NoRecompute
    /\ recompute.current = incident.current
    /\ PublishAs(IF recompute.status = "investigating" THEN incident.status
                 ELSE "investigating")
    /\ recompute' = NoRecompute
    /\ UNCHANGED <<reviews, pc, request, loaded, answer>>

(* Unchanged inputs, or a failed analysis.                                 *)
RecomputeEnds ==
    /\ recompute # NoRecompute
    /\ recompute' = NoRecompute
    /\ UNCHANGED <<incident, runStatus, reviews, pc, request, loaded, answer>>

Step(s) ==
    \/ LookupAction(s) \/ LoadIncident(s) \/ CheckRun(s) \/ LookupTerminal(s)
    \/ LookupItem(s) \/ RecheckAction(s) \/ InsertRejected(s) \/ Persist(s)
    \/ PersistFails(s)

Next ==
    \/ \E s \in Submissions : Receive(s) \/ Step(s)
    \/ PublishOnIngestion
    \/ RecomputeLoads \/ RecomputePublishes \/ RecomputeEnds

Fairness == \A s \in Submissions : WF_vars(Step(s))

Spec == Init /\ [][Next]_vars /\ Fairness

-----------------------------------------------------------------------------
(* The variables have the types their comments announce.                   *)
TypeOK ==
    /\ incident \in IncidentRow
    /\ runStatus \in Seq({"current", "superseded"})
    /\ reviews \subseteq Review
    /\ pc \in [Submissions -> {"new", "action", "incident", "run", "terminal",
                               "item", "recheck", "persist", "done"}]
    /\ request \in [Submissions -> Request \cup {NoReview}]
    /\ loaded \in [Submissions -> 0..MaxRuns]
    /\ answer \in [Submissions ->
                      [code : Codes, review : Review \cup {NoReview}]]

(* A client action is recorded once, however often and however concurrently *)
(* it is submitted, and every submission that is not refused is answered    *)
(* with a stored review that carries its action or repeats its decision.    *)
ActionsAreIdempotent ==
    /\ \A v, w \in reviews : v.action = w.action => v = w
    /\ \A s \in Submissions :
          answer[s].code \in {"created", "replayed"} =>
             LET v == answer[s].review IN
             /\ v \in reviews
             /\ \/ v.action = request[s].action
                \/ /\ v.hypothesis = request[s].hypothesis
                   /\ v.run = request[s].run
                   /\ v.decision = request[s].decision

(* An incident is closed by reviews only: a resolved one by a confirmation  *)
(* of the recorded hypothesis, a rejected one by the rejection of every     *)
(* hypothesis of one run (submit's status rules).                           *)
ClosedByReview ==
    /\ incident.status = "resolved" =>
          \E v \in reviews : /\ v.decision = "confirmed"
                             /\ v.hypothesis = incident.confirmed
    /\ incident.status = "rejected" =>
          \E run \in 1..Len(runStatus) : AllRejected(reviews, run)

(* Every submission is answered.                                           *)
SubmissionsEnd == \A s \in Submissions : pc[s] # "new" ~> pc[s] = "done"

(* Terminal decisions on one hypothesis of one run do not conflict.         *)
TerminalDecisionsAgree ==
    \A v, w \in reviews :
        (/\ v.decision \in Terminal
         /\ w.decision \in Terminal
         /\ v.hypothesis = w.hypothesis
         /\ v.run = w.run) => v.decision = w.decision

(* A closed incident is not reopened.                                      *)
ClosedStaysClosed == [][incident.status \in Closed
                           => incident'.status \in Closed]_vars
=============================================================================
