------------------------ MODULE ReviewSubmissionProofs ------------------------
(***************************************************************************)
(* Proofs about ReviewSubmission, for any number of submissions, client     *)
(* actions, hypotheses and runs.                                           *)
(*                                                                         *)
(* The properties speak of what is stored and answered.  They are inductive *)
(* together with LocalInv, what a submission knows at each statement: its   *)
(* reads take no lock, so all it may rely on at the INSERT is what cannot   *)
(* be taken back.                                                          *)
(***************************************************************************)
EXTENDS ReviewSubmission, SequenceTheorems, TLAPS

Checked == {"terminal", "item", "recheck", "persist"}

Labels == {"new", "action", "incident", "run", "done"} \cup Checked

(* The locals of a submission: no answer before the end, a run that exists  *)
(* once the incident is loaded, and that it asked for once that is checked.  *)
LocalInv ==
    /\ Len(runStatus) <= MaxRuns
    /\ incident.current <= Len(runStatus)
    /\ \A s \in Submissions :
          /\ pc[s] # "done" => answer[s] = NoAnswer
          /\ pc[s] \notin {"new", "done"} => request[s] \in Request
          /\ pc[s] \in Checked \cup {"run"} => loaded[s] \in 1..Len(runStatus)
          /\ pc[s] \in Checked => request[s].run = loaded[s]
          /\ pc[s] = "item" => request[s].decision = "evidence_requested"

ReviewInv == TypeOK /\ LocalInv /\ ActionsAreIdempotent /\ ClosedByReview

-----------------------------------------------------------------------------
(* The initial states satisfy the invariant.                               *)
LEMMA ReviewInit == Init => ReviewInv
<1> SUFFICES ASSUME Init PROVE ReviewInv
  OBVIOUS
<1> USE DEF Init, NoAnswer
<1>1. TypeOK
  BY MaxRunsAssumption
  DEF TypeOK, IncidentRow, IncidentStatus, Codes
<1>2. LocalInv
  BY MaxRunsAssumption DEF LocalInv, Checked
<1>3. ActionsAreIdempotent
  BY DEF ActionsAreIdempotent
<1>4. ClosedByReview
  BY DEF ClosedByReview
<1> QED
  BY <1>1, <1>2, <1>3, <1>4 DEF ReviewInv

(* A statement that only reads: nothing is stored, and s either goes on or   *)
(* is answered, with an error or with a stored review that is its own or     *)
(* says the same.                                                          *)
Reads(s) ==
    /\ UNCHANGED <<Database, request, loaded>>
    /\ \/ /\ \E label \in Checked :
                /\ Goto(s, label)
                /\ label = "item" => request[s].decision = "evidence_requested"
          /\ UNCHANGED answer
          /\ loaded[s] \in 1..Len(runStatus)
          /\ request[s].run = loaded[s]
       \/ /\ Goto(s, "incident")
          /\ UNCHANGED answer
       \/ \E code \in Codes \ {"created", "replayed"} : Refuse(s, code)
       \/ \E v \in reviews :
             /\ Answer(s, "replayed", v)
             /\ \/ v.action = request[s].action
                \/ /\ v.hypothesis = request[s].hypothesis
                   /\ v.run = request[s].run
                   /\ v.decision = request[s].decision

(* A read of a submission disturbs no other.                               *)
LEMMA ReadsKeep ==
    ASSUME ReviewInv, NEW s \in Submissions, pc[s] \notin {"new", "done"},
           Reads(s)
    PROVE  ReviewInv'
<1> USE DEF ReviewInv, Reads, Database, Goto, Answer, Refuse
<1>1. TypeOK /\ LocalInv /\ ActionsAreIdempotent /\ ClosedByReview
  OBVIOUS
<1>2. pc' \in [Submissions -> Labels]
  BY <1>1 DEF TypeOK, Checked, Labels
<1>a. answer' \in [Submissions -> [code : Codes, review : Review \cup {NoReview}]]
  <2>1. \A code \in Codes, w \in Review \cup {NoReview} :
           [code |-> code, review |-> w]
              \in [code : Codes, review : Review \cup {NoReview}]
    OBVIOUS
  <2>2. "replayed" \in Codes /\ reviews \subseteq Review
    BY <1>1 DEF Codes, TypeOK
  <2> HIDE DEF Codes
  <2> QED
    BY <1>1, <2>1, <2>2 DEF TypeOK
<1>3. TypeOK'
  BY <1>1, <1>2, <1>a DEF TypeOK, Checked, Labels
<1>4. LocalInv'
  BY <1>1 DEF LocalInv, TypeOK, Checked
<1>5. ActionsAreIdempotent'
  BY <1>1, SMTT(30) DEF ActionsAreIdempotent, TypeOK, Codes
<1>6. ClosedByReview'
  BY <1>1 DEF ClosedByReview, AllRejected, TerminalFor
<1> QED
  BY <1>3, <1>4, <1>5, <1>6

(* Receive: the request is chosen once and for all.                        *)
LEMMA ReceiveKeeps ==
    ASSUME ReviewInv, NEW s \in Submissions, Receive(s)
    PROVE  ReviewInv'
<1> USE DEF ReviewInv, Receive, Database, Goto
<1>1. TypeOK /\ LocalInv /\ ActionsAreIdempotent /\ ClosedByReview
  OBVIOUS
<1>2. TypeOK'
  BY <1>1 DEF TypeOK
<1>3. LocalInv'
  BY <1>1 DEF LocalInv, TypeOK, Checked
<1>4. answer[s].code = "none"
  BY <1>1 DEF LocalInv, NoAnswer
<1>5. ActionsAreIdempotent'
  BY <1>1, <1>4 DEF ActionsAreIdempotent, TypeOK
<1>6. ClosedByReview'
  BY <1>1 DEF ClosedByReview, AllRejected, TerminalFor
<1> QED
  BY <1>2, <1>3, <1>5, <1>6

(* LoadIncident: the pointer names a published run.                        *)
LEMMA LoadIncidentKeeps ==
    ASSUME ReviewInv, NEW s \in Submissions, LoadIncident(s)
    PROVE  ReviewInv'
<1>1. TypeOK /\ LocalInv /\ ActionsAreIdempotent /\ ClosedByReview
  BY DEF ReviewInv
<1>2. CASE /\ \E code \in Codes \ {"created", "replayed"} : Refuse(s, code)
           /\ UNCHANGED loaded
  <2>1. Reads(s)
    BY <1>2 DEF LoadIncident, Reads, Database
  <2> QED
    BY <2>1, ReadsKeep DEF LoadIncident
<1>3. CASE /\ incident.current # 0
           /\ loaded' = [loaded EXCEPT ![s] = incident.current]
           /\ Goto(s, "run")
           /\ UNCHANGED answer
  <2>1. incident.current \in 1..Len(runStatus)
    <3>1. incident.current \in 0..MaxRuns /\ Len(runStatus) \in Nat
      BY <1>1 DEF TypeOK, IncidentRow
    <3> QED
      BY <1>1, <1>3, <3>1, MaxRunsAssumption DEF LocalInv
  <2> USE <1>3 DEF LoadIncident, Database, Goto
  <2>2. TypeOK'
    BY <1>1 DEF TypeOK, IncidentRow
  <2>3. LocalInv'
    BY <1>1, <2>1 DEF LocalInv, TypeOK, Checked
  <2>4. ActionsAreIdempotent'
    BY <1>1 DEF ActionsAreIdempotent, TypeOK
  <2>5. ClosedByReview'
    BY <1>1 DEF ClosedByReview, AllRejected, TerminalFor
  <2> QED
    BY <2>2, <2>3, <2>4, <2>5 DEF ReviewInv
<1> QED
  BY <1>2, <1>3 DEF LoadIncident, Codes

(* A review that is new and well formed is stored; what it does to the      *)
(* incident is backed by it.                                               *)
LEMMA PersistKeeps ==
    ASSUME ReviewInv, NEW s \in Submissions, Persist(s)
    PROVE  ReviewInv'
<1> USE DEF Goto, Answer, ByClientAction
<1>1. TypeOK /\ LocalInv /\ ActionsAreIdempotent /\ ClosedByReview
  BY DEF ReviewInv
<1> DEFINE v == [request[s] EXCEPT !.run = loaded[s]]
           revs == reviews \cup {v}
<1>2. /\ pc[s] = "persist"
      /\ \A w \in reviews : w.action # request[s].action
      /\ reviews' = revs
      /\ incident' = Reviewed(incident, v, revs)
      /\ answer' = [answer EXCEPT ![s] = [code |-> "created", review |-> v]]
      /\ pc' = [pc EXCEPT ![s] = "done"]
      /\ UNCHANGED <<runStatus, recompute, request, loaded>>
  BY DEF Persist
<1>3. request[s] \in Request /\ loaded[s] \in 1..Len(runStatus)
  BY <1>1, <1>2 DEF LocalInv, Checked
<1>4. Len(runStatus) \in 0..MaxRuns
  BY <1>1, MaxRunsAssumption DEF TypeOK, LocalInv
<1>5. /\ v \in Review
      /\ v.action = request[s].action
      /\ v.run = loaded[s]
      /\ v.hypothesis = request[s].hypothesis
  <2>1. v = [action |-> request[s].action, run |-> loaded[s],
             hypothesis |-> request[s].hypothesis,
             decision |-> request[s].decision]
    BY <1>3 DEF Request
  <2>2. /\ request[s].action \in Actions
        /\ request[s].hypothesis \in Hypotheses
        /\ request[s].decision \in Decisions
    BY <1>3 DEF Request
  <2>3. loaded[s] \in 1..MaxRuns
    BY <1>3, <1>4, MaxRunsAssumption
  <2> HIDE DEF v
  <2> QED
    BY <2>1, <2>2, <2>3 DEF Review
<1>6. TypeOK'
  <2>1. incident' \in IncidentRow
    BY <1>1, <1>2, <1>5 DEF TypeOK, IncidentRow, IncidentStatus, Reviewed, Review
  <2>2. answer' \in [Submissions ->
                        [code : Codes, review : Review \cup {NoReview}]]
    <3>1. [code |-> "created", review |-> v]
             \in [code : Codes, review : Review \cup {NoReview}]
      BY <1>5 DEF Codes
    <3> HIDE DEF v
    <3> QED
      BY <1>1, <1>2, <3>1 DEF TypeOK
  <2> HIDE DEF v
  <2> QED
    BY <1>1, <1>2, <1>5, <2>1, <2>2 DEF TypeOK
<1>7. LocalInv'
  <2>1. incident'.current = incident.current
    BY <1>1, <1>2 DEF Reviewed, TypeOK, IncidentRow
  <2> QED
    BY <1>1, <1>2, <2>1 DEF LocalInv, TypeOK, Checked
<1>8. ActionsAreIdempotent'
  <2> HIDE DEF v
  <2>1. \A w, x \in revs : w.action = x.action => w = x
    BY <1>1, <1>2, <1>5 DEF ActionsAreIdempotent
  <2>2. \A t \in Submissions \ {s} : answer'[t] = answer[t]
    BY <1>2
  <2>3. answer'[s].review = v /\ v \in revs
    BY <1>1, <1>2 DEF TypeOK
  <2> QED
    BY <1>1, <1>2, <1>5, <2>1, <2>2, <2>3 DEF ActionsAreIdempotent
<1>9. ClosedByReview'
  <2>1. \A run : AllRejected(reviews, run) => AllRejected(revs, run)
    BY DEF AllRejected, TerminalFor
  <2>2. CASE v.decision = "confirmed"
    <3>1. incident' = [incident EXCEPT !.status = "resolved",
                                       !.confirmed = v.hypothesis]
      BY <1>2, <2>2 DEF Reviewed
    <3>2. incident'.status = "resolved" /\ incident'.confirmed = v.hypothesis
      BY <1>1, <3>1 DEF TypeOK, IncidentRow
    <3> HIDE DEF v
    <3> QED
      BY <1>2, <2>2, <3>2 DEF ClosedByReview
  <2>3. CASE v.decision = "rejected" /\ AllRejected(revs, v.run)
    <3>1. incident' = [incident EXCEPT !.status = "rejected"]
      BY <1>2, <2>3 DEF Reviewed
    <3>2. incident'.status = "rejected"
      BY <1>1, <3>1 DEF TypeOK, IncidentRow
    <3>3. v.run \in 1..Len(runStatus)
      BY <1>3, <1>5
    <3> HIDE DEF v
    <3> QED
      BY <1>2, <2>3, <3>2, <3>3 DEF ClosedByReview
  <2>4. CASE /\ v.decision # "confirmed"
             /\ ~(v.decision = "rejected" /\ AllRejected(revs, v.run))
    <3>1. incident' = incident
      BY <1>2, <2>4 DEF Reviewed
    <3> HIDE DEF v
    <3> QED
      BY <1>1, <1>2, <2>1, <3>1 DEF ClosedByReview
  <2> QED
    BY <2>2, <2>3, <2>4
<1> QED
  BY <1>6, <1>7, <1>8, <1>9 DEF ReviewInv

(* A statement of a submission.                                            *)
LEMMA StepKeeps ==
    ASSUME ReviewInv, NEW s \in Submissions, Step(s)
    PROVE  ReviewInv'
<1>1. TypeOK /\ LocalInv
  BY DEF ReviewInv
<1> USE DEF Codes, Checked, Database, ByClientAction
<1>2. CASE LookupAction(s)
  <2>1. pc[s] = "action" /\ Reads(s)
    BY <1>2 DEF LookupAction, Reads
  <2> QED
    BY <2>1, ReadsKeep
<1>3. CASE LoadIncident(s)
  BY <1>3, LoadIncidentKeeps
<1>4. CASE CheckRun(s)
  <2>1. pc[s] = "run" /\ Reads(s)
    BY <1>1, <1>4 DEF CheckRun, RunIsCurrent, Reads, LocalInv
  <2> QED
    BY <2>1, ReadsKeep
<1>5. CASE LookupTerminal(s)
  <2> DEFINE found == TerminalFor(reviews, request[s].hypothesis, loaded[s])
  <2>1. /\ pc[s] = "terminal"
        /\ loaded[s] \in 1..Len(runStatus) /\ request[s].run = loaded[s]
    BY <1>1, <1>5 DEF LookupTerminal, LocalInv
  <2>2. \A v \in found : /\ v \in reviews
                         /\ v.hypothesis = request[s].hypothesis
                         /\ v.run = request[s].run
    BY <2>1 DEF TerminalFor
  <2>3. Reads(s)
    <3> HIDE DEF found
    <3> QED
      BY <1>5, <2>1, <2>2 DEF LookupTerminal, Reads, found
  <2> QED
    BY <2>1, <2>3, ReadsKeep
<1>6. CASE LookupItem(s)
  <2> DEFINE found == EvidenceRequestsFor(request[s].hypothesis, loaded[s])
  <2>1. /\ pc[s] = "item"
        /\ loaded[s] \in 1..Len(runStatus) /\ request[s].run = loaded[s]
        /\ request[s].decision = "evidence_requested"
    BY <1>1, <1>6 DEF LookupItem, LocalInv
  <2>2. \A v \in found : /\ v \in reviews
                         /\ v.hypothesis = request[s].hypothesis
                         /\ v.run = request[s].run
                         /\ v.decision = request[s].decision
    BY <2>1 DEF EvidenceRequestsFor
  <2>3. Reads(s)
    BY <1>6, <2>1, <2>2 DEF LookupItem, Reads
  <2> QED
    BY <2>1, <2>3, ReadsKeep
<1>7. CASE RecheckAction(s)
  <2>1. pc[s] = "recheck" /\ Reads(s)
    BY <1>1, <1>7 DEF RecheckAction, Reads, LocalInv
  <2> QED
    BY <2>1, ReadsKeep
<1>8. CASE InsertRejected(s)
  <2>1. pc[s] = "persist" /\ Reads(s)
    BY <1>8 DEF InsertRejected, Reads
  <2> QED
    BY <2>1, ReadsKeep
<1>9. CASE Persist(s)
  BY <1>9, PersistKeeps
<1>10. CASE PersistFails(s)
  <2>1. pc[s] = "persist" /\ Reads(s)
    BY <1>10 DEF PersistFails, Reads
  <2> QED
    BY <2>1, ReadsKeep
<1> QED
  BY <1>2, <1>3, <1>4, <1>5, <1>6, <1>7, <1>8, <1>9, <1>10 DEF Step

-----------------------------------------------------------------------------
(* A publication appends a run and moves the pointer to it; it never closes *)
(* an incident, at most it reopens one.                                    *)
LEMMA PublishKeeps ==
    ASSUME ReviewInv, NEW status \in {"investigating", incident.status},
           PublishAs(status), UNCHANGED <<reviews, pc, request, loaded, answer>>
    PROVE  ReviewInv'
<1>1. TypeOK /\ LocalInv /\ ActionsAreIdempotent /\ ClosedByReview
  BY DEF ReviewInv
<1>2. /\ Supersede(runStatus) \in Seq({"current", "superseded"})
      /\ Len(Supersede(runStatus)) = Len(runStatus)
  BY <1>1 DEF TypeOK, Supersede
<1>3. /\ runStatus' \in Seq({"current", "superseded"})
      /\ Len(runStatus') = Len(runStatus) + 1
      /\ Len(runStatus) \in Nat /\ Len(runStatus) < MaxRuns
  <2> DEFINE old == Supersede(runStatus)
  <2>1. runStatus' = Append(old, "current") /\ Len(runStatus) < MaxRuns
    BY DEF PublishAs
  <2> HIDE DEF old
  <2> QED
    BY <1>1, <1>2, <2>1 DEF TypeOK, old
<1>4. /\ incident' \in IncidentRow
      /\ incident'.current = Len(runStatus')
      /\ incident'.status = status
      /\ incident'.confirmed = incident.confirmed
  <2>1. incident' = [incident EXCEPT !.current = Len(runStatus) + 1,
                                     !.status = status]
    BY DEF PublishAs
  <2>2. incident \in IncidentRow /\ status \in IncidentStatus
    BY <1>1 DEF TypeOK, IncidentRow, IncidentStatus
  <2>3. Len(runStatus) + 1 \in 0..MaxRuns
    BY <1>3, MaxRunsAssumption
  <2> QED
    BY <1>3, <2>1, <2>2, <2>3 DEF IncidentRow
<1>5. TypeOK'
  BY <1>1, <1>3, <1>4 DEF TypeOK
<1>6. LocalInv'
  BY <1>1, <1>3, <1>4, MaxRunsAssumption DEF LocalInv, TypeOK, Checked
<1>7. ActionsAreIdempotent'
  BY <1>1 DEF ActionsAreIdempotent
<1>8. ClosedByReview'
  BY <1>1, <1>3, <1>4 DEF ClosedByReview, AllRejected, TerminalFor
<1> QED
  BY <1>5, <1>6, <1>7, <1>8 DEF ReviewInv

(* Every step of the system keeps the invariant.                           *)
LEMMA ReviewNext == ReviewInv /\ [Next]_vars => ReviewInv'
<1> SUFFICES ASSUME ReviewInv, [Next]_vars PROVE ReviewInv'
  OBVIOUS
<1>1. ASSUME NEW s \in Submissions, Receive(s) PROVE ReviewInv'
  BY <1>1, ReceiveKeeps
<1>2. ASSUME NEW s \in Submissions, Step(s) PROVE ReviewInv'
  BY <1>2, StepKeeps
<1>3. CASE PublishOnIngestion
  BY <1>3, PublishKeeps DEF PublishOnIngestion
<1>4. CASE RecomputePublishes
  <2> DEFINE status == IF recompute.status = "investigating"
                       THEN incident.status ELSE "investigating"
  <2>1. PublishAs(status) /\ status \in {"investigating", incident.status}
    BY <1>4 DEF RecomputePublishes
  <2> HIDE DEF status
  <2> QED
    BY <1>4, <2>1, PublishKeeps DEF RecomputePublishes
<1>5. CASE UNCHANGED <<incident, runStatus, reviews, pc, request, loaded, answer>>
  BY <1>5
  DEF ReviewInv, TypeOK, LocalInv, ActionsAreIdempotent, ClosedByReview,
      AllRejected, TerminalFor
<1> QED
  BY <1>1, <1>2, <1>3, <1>4, <1>5
  DEF Next, vars, RecomputeLoads, RecomputeEnds

-----------------------------------------------------------------------------
(* The invariant holds in every reachable state.                           *)
THEOREM ReviewInvariant == Spec => []ReviewInv
<1> QED
  BY ReviewInit, ReviewNext, PTL DEF Spec

(* The variables keep their types (ReviewService.submit).                  *)
THEOREM ReviewsTyped == Spec => []TypeOK
<1>1. ReviewInv => TypeOK
  BY DEF ReviewInv
<1> QED
  BY <1>1, ReviewInvariant, PTL

(* However many submissions race, a client action is recorded once, and     *)
(* created or replayed answers are stored reviews (persist_idempotent).     *)
THEOREM ActionsRecordedOnce == Spec => []ActionsAreIdempotent
<1>1. ReviewInv => ActionsAreIdempotent
  BY DEF ReviewInv
<1> QED
  BY <1>1, ReviewInvariant, PTL

(* Only reviews close an incident: a confirmation of the hypothesis that is  *)
(* recorded, or rejections of all hypotheses of one run, whatever is        *)
(* published meanwhile (submit's status rules).                            *)
THEOREM ReviewsClose == Spec => []ClosedByReview
<1>1. ReviewInv => ClosedByReview
  BY DEF ReviewInv
<1> QED
  BY <1>1, ReviewInvariant, PTL
=============================================================================
