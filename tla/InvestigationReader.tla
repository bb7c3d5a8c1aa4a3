------------------------- MODULE InvestigationReader -------------------------
(***************************************************************************)
(* Readers of an analysis while revisions are published and the demo is     *)
(* reset: the GET handlers of api/incidents.py that follow the pointer of    *)
(* an incident.                                                            *)
(*                                                                         *)
(* A reader never takes the writer lock, so each of its statements reads    *)
(* the database as committed at that moment; what it read before stays in   *)
(* its session.  Incidents and runs have fresh ids after a reset: a reader   *)
(* from an earlier epoch finds none of its rows.                            *)
(*                                                                         *)
(* A reset waits here until no other request is in flight; the races        *)
(* of resets with writers are in SimulatorEngine.  Reviews are read last    *)
(* and may be any that exist by then; they are left out.                    *)
(***************************************************************************)
EXTENDS AnalysisPublication

CONSTANTS
    Readers,      \* GET requests, each with its own thread and session
    MaxEpoch      \* bound on resets of the demo

ASSUME MaxEpochAssumption == MaxEpoch \in Nat

VARIABLES
    epoch,   \* how often the demo was reset
    page     \* the local variables of each reader

readerVars == <<epoch, page>>

allVars == <<vars, readerVars>>

-----------------------------------------------------------------------------
Endpoints == {"investigation", "timeline", "explanation"}

(* Fault: the explanation is read before what it explains.                  *)
StatementsExplanationFirst(endpoint) ==
    CASE endpoint = "investigation" ->
            <<"run", "explanation", "evidence", "evaluations", "events",
              "hypotheses", "recommendations">>
      [] endpoint = "timeline" -> <<"run", "evidence", "evaluations", "events">>
      [] endpoint = "explanation" -> <<"run", "hypotheses", "explanation">>

(* What a handler reads after the incident, in its order.                   *)
Statements(endpoint) ==
    CASE endpoint = "investigation" ->
            <<"run", "evidence", "evaluations", "events", "hypotheses",
              "recommendations", "explanation">>
      [] endpoint = "timeline" -> <<"run", "evidence", "evaluations", "events">>
      [] endpoint = "explanation" -> <<"run", "hypotheses", "explanation">>

Children == {"evidence", "hypotheses", "recommendations", "explanation"}

Outcomes == {"unasked", "reading", "ANSWERED", "NOT_FOUND",
             "ANALYSIS_NOT_AVAILABLE", "STALE_ANALYSIS"}

Page == [endpoint : Endpoints \cup {"none"},
         next     : Nat,                   \* index in Statements(endpoint)
         inc      : Incidents \cup {NoIncident},
         epoch    : Nat,
         run      : Nat,                   \* the pointer, read once
         inputs   : SUBSET Events,         \* that the run analysed
         rows     : SUBSET Children,       \* children that were found
         timeline : SUBSET Events,
         outcome  : Outcomes]

EmptyPage == [endpoint |-> "none", next |-> 0, inc |-> NoIncident, epoch |-> 0,
              run |-> 0, inputs |-> {}, rows |-> {}, timeline |-> {},
              outcome |-> "unasked"]

-----------------------------------------------------------------------------
(* The children of a run are committed together with its publication, and   *)
(* those of a failed run are rolled back.                                   *)
Published(i, n) == db.runs[i][n].status \in {"current", "superseded"}

SameDemo(r) == page[r].epoch = epoch

ChildrenFound(r) == SameDemo(r) /\ Published(page[r].inc, page[r].run)

At(r, statement) ==
    /\ page[r].outcome = "reading"
    /\ page[r].next \in 1..Len(Statements(page[r].endpoint))
    /\ Statements(page[r].endpoint)[page[r].next] = statement
    /\ UNCHANGED <<vars, epoch>>

Continue(r, p) == page' = [page EXCEPT ![r] = [p EXCEPT !.next = @ + 1]]

Respond(r, outcome) == page' = [page EXCEPT ![r].outcome = outcome]

(* _current_context reads the incident, and with it the pointer.            *)
Request(r) ==
    /\ page[r] = EmptyPage
    /\ \E endpoint \in Endpoints, i \in Incidents :
          LET opened == [EmptyPage EXCEPT !.endpoint = endpoint, !.inc = i,
                             !.epoch = epoch, !.run = db.current[i]]
              outcome == CASE db.status[i] = "absent" -> "NOT_FOUND"
                           [] db.status[i] # "absent" /\ db.current[i] = 0 ->
                                 "ANALYSIS_NOT_AVAILABLE"
                           [] OTHER -> "reading"
          IN page' = [page EXCEPT ![r] =
                        [opened EXCEPT !.next = 1, !.outcome = outcome]]
    /\ UNCHANGED <<vars, epoch>>

PointsToCurrent(r) ==
    SameDemo(r) /\ page[r].run \in CurrentRevisions(db, page[r].inc)

ReadRun(r) ==
    /\ At(r, "run")
    /\ PointsToCurrent(r)
    /\ Continue(r, [page[r] EXCEPT
                      !.inputs = db.runs[page[r].inc][page[r].run].fp.events])

(* Fault: an error code that the API does not have.                         *)
ReadRunStaleMislabelled(r) ==
    /\ At(r, "run")
    /\ ~PointsToCurrent(r)
    /\ Respond(r, "STALE_RUN")

(* The run was superseded, or deleted by a reset, since the pointer was read. *)
ReadRunStale(r) ==
    /\ At(r, "run")
    /\ ~PointsToCurrent(r)
    /\ Respond(r, "STALE_ANALYSIS")

(* Missing rows are an empty list, but an explanation has to be of a        *)
(* hypothesis: the one of the incident, or else the first that is found.    *)
ReadChildren(r) ==
    \E child \in Children \ {"explanation"} :
        /\ At(r, child)
        /\ IF /\ page[r].endpoint = "explanation"
              /\ ~ChildrenFound(r)
           THEN Respond(r, "NOT_FOUND")
           ELSE Continue(r, [page[r] EXCEPT
                               !.rows = IF ChildrenFound(r) THEN @ \cup {child}
                                        ELSE @])

(* _timeline_items_for_run: the decisions of the incident, then one event   *)
(* after the other.                                                        *)
ReadEvaluations(r) ==
    /\ At(r, "evaluations")
    /\ Continue(r, [page[r] EXCEPT
                      !.timeline = IF SameDemo(r) THEN db.attached[page[r].inc]
                                   ELSE {}])

ReadEvents(r) ==
    /\ At(r, "events")
    /\ \E found \in SUBSET page[r].timeline :
          /\ SameDemo(r) => found = page[r].timeline
          /\ Continue(r, [page[r] EXCEPT !.timeline = found])

ReadExplanation(r) ==
    /\ At(r, "explanation")
    /\ IF ChildrenFound(r)
       THEN Continue(r, [page[r] EXCEPT !.rows = @ \cup {"explanation"}])
       ELSE Respond(r, "NOT_FOUND")

Answer(r) ==
    /\ page[r].outcome = "reading"
    /\ page[r].next > Len(Statements(page[r].endpoint))
    /\ Respond(r, "ANSWERED")
    /\ UNCHANGED <<vars, epoch>>

Read(r) ==
    \/ ReadRun(r) \/ ReadRunStale(r) \/ ReadChildren(r) \/ ReadEvaluations(r)
    \/ ReadEvents(r) \/ ReadExplanation(r) \/ Answer(r)

(* reset_service deletes every row in one transaction.                     *)
Reset ==
    /\ epoch < MaxEpoch
    /\ \A q \in Requests : pc[q] \in {"new", "done"}
    /\ epoch' = epoch + 1
    /\ CommitAs(EmptyImage)
    /\ UNCHANGED <<savepoint, orchestratorLock, version, pc, job, page>>

ReaderInit == epoch = 0 /\ page = [r \in Readers |-> EmptyPage]

AllInit == Init /\ ReaderInit

AllNext ==
    \/ Next /\ UNCHANGED readerVars
    \/ \E r \in Readers : Request(r) \/ Read(r)
    \/ Reset

AllSpec == AllInit /\ [][AllNext]_allVars

-----------------------------------------------------------------------------
(* The readers' variables have the types their comments announce.          *)
ReaderTypeOK ==
    /\ epoch \in 0..MaxEpoch
    /\ page \in [Readers -> Page]

(* An investigation that is answered is whole, and of one run, even if a    *)
(* publication or a reset commits between its statements: all children of   *)
(* the run, and a timeline with every event it analysed.  It rests on the   *)
(* pointer being read once and first and the explanation last.              *)
AnswersAreWhole ==
    \A r \in Readers :
        page[r].outcome = "ANSWERED" /\ page[r].endpoint = "investigation" =>
            /\ page[r].rows = Children
            /\ page[r].inputs \subseteq page[r].timeline

(* A reader is told STALE_ANALYSIS only if the pointer it read has moved:   *)
(* asking again does not meet the same run.                                *)
StaleIsOvertaken ==
    \A r \in Readers :
        page[r].outcome = "STALE_ANALYSIS" =>
            ~SameDemo(r) \/ db.current[page[r].inc] # page[r].run
=============================================================================
