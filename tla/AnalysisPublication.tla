------------------------- MODULE AnalysisPublication -------------------------
(***************************************************************************)
(* Publication of analysis revisions by AnalysisOrchestrator.              *)
(*                                                                         *)
(* Every HTTP request runs in a thread of its own with a SQLAlchemy        *)
(* session of its own.  Two locks order the requests:                      *)
(*                                                                         *)
(*   - orchestratorLock, the orchestrator's threading.Lock;                *)
(*   - writer, SQLite's single writer lock.  A session takes it with its   *)
(*     first INSERT or UPDATE and keeps it until commit or rollback.       *)
(*     Statements before that point read the committed database, one       *)
(*     statement at a time.                                                *)
(*                                                                         *)
(* An ingestion request takes the writer lock first (it stores the event)  *)
(* and the orchestrator lock second; a recompute request takes them in the *)
(* other order, after reading the incident without either.  Both release   *)
(* the orchestrator lock before the session commits.                       *)
(*                                                                         *)
(* The database is a value, an image.  db is the committed image and tx    *)
(* the image of the session that holds the writer lock.                    *)
(***************************************************************************)
EXTENDS Integers, Sequences, FiniteSets

CONSTANTS
    Requests,     \* HTTP requests, each with its own thread and session
    Incidents,    \* incident identifiers
    Events,       \* accepted representative events
    MaxVersion,   \* bound on edits of the rule catalogues
    NoRequest,    \* nobody holds the lock
    NoIncident    \* no incident chosen yet

ASSUME NoRequestAssumption == NoRequest \notin Requests
ASSUME NoIncidentAssumption == NoIncident \notin Incidents
ASSUME MaxVersionAssumption == MaxVersion \in Nat

VARIABLES
    db,               \* committed database image
    tx,               \* image seen by the session holding the writer lock
    savepoint,        \* tx as it was at session.begin_nested()
    writer,           \* the request whose session holds the writer lock
    orchestratorLock, \* the request holding AnalysisOrchestrator._lock
    version,          \* version of the topology and catalogue files
    pc,               \* where each request is
    job               \* the local variables of each request

vars == <<db, tx, savepoint, writer, orchestratorLock, version, pc, job>>

-----------------------------------------------------------------------------
(* Rows.  The revision of a run is its position in runs[i]; 0 is a null     *)
(* current_analysis_run_id.                                                 *)

IncidentStatus == {"absent", "open", "investigating"}
RunStatus == {"building", "current", "superseded", "failed"}
Fingerprint == [events : SUBSET Events, version : Nat]
Run == [status : RunStatus, fp : Fingerprint]

Image == [stored   : SUBSET Events,
          status   : [Incidents -> IncidentStatus],
          attached : [Incidents -> SUBSET Events],
          current  : [Incidents -> Nat],
          runs     : [Incidents -> Seq(Run)]]

Job == [batch  : SUBSET Events,   \* accepted events; empty for a recompute
        todo   : SUBSET Incidents,
        inc    : Incidents \cup {NoIncident},
        loaded : Nat,             \* incident.current_analysis_run_id as loaded
        fp     : Fingerprint,
        rev    : Nat,
        result : Nat,             \* revision returned to the client
        failed : BOOLEAN]         \* an exception is propagating

EmptyImage == [stored   |-> {},
               status   |-> [i \in Incidents |-> "absent"],
               attached |-> [i \in Incidents |-> {}],
               current  |-> [i \in Incidents |-> 0],
               runs     |-> [i \in Incidents |-> << >>]]

EmptyJob == [batch |-> {}, todo |-> {}, inc |-> NoIncident, loaded |-> 0,
             fp |-> [events |-> {}, version |-> 0], rev |-> 0, result |-> 0,
             failed |-> FALSE]

-----------------------------------------------------------------------------
(* Statements on an image.                                                 *)

StoreEvents(im, E) == [im EXCEPT !.stored = @ \cup E]

(* IncidentManager's writes for a batch: added[i] are the new members of i. *)
Attach(im, affected, added) ==
    [im EXCEPT
        !.status = [i \in Incidents |->
            IF i \in affected /\ im.status[i] = "absent"
            THEN "open" ELSE im.status[i]],
        !.attached = [i \in Incidents |->
            IF i \in affected THEN im.attached[i] \cup added[i]
            ELSE im.attached[i]]]

InsertBuilding(im, i, fp) ==
    [im EXCEPT !.runs[i] = Append(@, [status |-> "building", fp |-> fp])]

SetRunStatus(im, i, r, s) == [im EXCEPT !.runs[i][r].status = s]

SetCurrentAnalysisRun(im, i, r) ==
    [im EXCEPT !.current[i] = r, !.status[i] = "investigating"]

(* Revisions of i that have status 'current'.                              *)
CurrentRevisions(im, i) ==
    {r \in 1..Len(im.runs[i]) : im.runs[i][r].status = "current"}

(* Fault: the fingerprint covers the rule versions and not the events.      *)
SameRulesAsCurrent(im, i, fp) ==
    \E r \in CurrentRevisions(im, i) : im.runs[i][r].fp.version = fp.version

(* Fault: a failed attempt with these inputs counts as well.                *)
FingerprintExists(im, i, fp) ==
    \E r \in 1..Len(im.runs[i]) : im.runs[i][r].fp = fp

FingerprintExistsAsCurrent(im, i, fp) ==
    \E r \in CurrentRevisions(im, i) : im.runs[i][r].fp = fp

NextRevision(im, i) == Len(im.runs[i]) + 1

(* What may be attached by one batch of events: an active incident takes    *)
(* events of the batch, at most one incident each; a new incident also      *)
(* looks back at everything stored.                                         *)
Attachments(im, batch) ==
    {a \in [affected : SUBSET Incidents,
            added    : [Incidents -> SUBSET im.stored]] :
        /\ Cardinality(a.affected) <= Cardinality(batch)
        /\ \A i \in Incidents \ a.affected : a.added[i] = {}
        /\ \A i \in a.affected :
              im.status[i] # "absent" => a.added[i] \subseteq batch
        /\ \A i, j \in a.affected :
              (/\ i # j
               /\ im.status[i] # "absent"
               /\ im.status[j] # "absent") => a.added[i] \cap a.added[j] = {}}

-----------------------------------------------------------------------------
(* The image a statement of r reads.                                       *)
View(r) == IF writer = r THEN tx ELSE db

WriterBusy(r) == writer \notin {NoRequest, r}

(* session.commit() and session.rollback() of the session of r.            *)
CommitAs(im) == db' = im /\ tx' = im /\ writer' = NoRequest
Rollback(r) ==
    /\ db' = db
    /\ IF writer = r THEN tx' = db /\ writer' = NoRequest
                     ELSE UNCHANGED <<tx, writer>>

Init ==
    /\ db = EmptyImage
    /\ tx = EmptyImage
    /\ savepoint = EmptyImage
    /\ writer = NoRequest
    /\ orchestratorLock = NoRequest
    /\ version = 0
    /\ pc = [r \in Requests |-> "new"]
    /\ job = [r \in Requests |-> EmptyJob]

Goto(r, label) == pc' = [pc EXCEPT ![r] = label]

(* POST /events or /events/batch: the source-record lookups that find no    *)
(* earlier event.                                                           *)
ReceiveBatch(r) ==
    /\ pc[r] = "new"
    /\ \E batch \in SUBSET (Events \ db.stored) :
          /\ batch # {}
          /\ job' = [job EXCEPT ![r].batch = batch]
    /\ Goto(r, "insert")
    /\ UNCHANGED <<db, tx, savepoint, writer, orchestratorLock, version>>

(* The first INSERT takes the writer lock, which later lookups are under.   *)
InsertEvents(r) ==
    /\ pc[r] = "insert"
    /\ writer = NoRequest
    /\ LET fresh == job[r].batch \ db.stored IN
          /\ fresh # {}
          /\ tx' = StoreEvents(db, fresh)
          /\ job' = [job EXCEPT ![r].batch = fresh]
    /\ writer' = r
    /\ Goto(r, "lock")
    /\ UNCHANGED <<db, savepoint, orchestratorLock, version>>

(* Another request stored the same source record after the lookup: the      *)
(* unique index on (source, source_record_id) rejects the INSERT.           *)
InsertRejected(r) ==
    /\ pc[r] = "insert"
    /\ writer = NoRequest
    /\ job[r].batch \cap db.stored # {}
    /\ job' = [job EXCEPT ![r].failed = TRUE, ![r].batch = {}]
    /\ Goto(r, "finish")
    /\ UNCHANGED <<db, tx, savepoint, writer, orchestratorLock, version>>

(* POST /incidents/{id}/recompute loads the incident row; the identity map  *)
(* keeps this copy for the rest of the request.                             *)
ReceiveRecompute(r) ==
    /\ pc[r] = "new"
    /\ \E i \in Incidents :
          /\ db.status[i] # "absent"
          /\ job' = [job EXCEPT ![r].todo = {i}, ![r].loaded = db.current[i]]
    /\ Goto(r, "lock")
    /\ UNCHANGED <<db, tx, savepoint, writer, orchestratorLock, version>>

AcquireLock(r) ==
    /\ pc[r] = "lock"
    /\ orchestratorLock = NoRequest
    /\ orchestratorLock' = r
    /\ Goto(r, IF job[r].batch = {} THEN "inputs" ELSE "detect")
    /\ UNCHANGED <<db, tx, savepoint, writer, version, job>>

(* Detection and incident management of every event of the batch.          *)
DetectAndAttach(r) ==
    /\ pc[r] = "detect"
    /\ \E a \in Attachments(tx, job[r].batch) :
          /\ tx' = Attach(tx, a.affected, a.added)
          /\ job' = [job EXCEPT ![r].todo = a.affected]
    /\ Goto(r, "inputs")
    /\ UNCHANGED <<db, savepoint, writer, orchestratorLock, version>>

(* A detector or the incident manager raises.                              *)
DetectFails(r) ==
    /\ pc[r] = "detect"
    /\ job' = [job EXCEPT ![r].failed = TRUE]
    /\ Goto(r, "unlock")
    /\ UNCHANGED <<db, tx, savepoint, writer, orchestratorLock, version>>

(* Reads the attached events and the catalogue files of the next affected   *)
(* incident.  An ingestion has loaded the incident under the writer lock.   *)
ReadInputs(r) ==
    /\ pc[r] = "inputs"
    /\ \E i \in job[r].todo :
          job' = [job EXCEPT
              ![r].inc = i,
              ![r].todo = @ \ {i},
              ![r].loaded = IF writer = r THEN tx.current[i] ELSE @,
              ![r].fp = [events |-> View(r).attached[i], version |-> version]]
    /\ Goto(r, "compare")
    /\ UNCHANGED <<db, tx, savepoint, writer, orchestratorLock, version>>

AllAnalysed(r) ==
    /\ pc[r] = "inputs"
    /\ job[r].todo = {}
    /\ Goto(r, "unlock")
    /\ UNCHANGED <<db, tx, savepoint, writer, orchestratorLock, version, job>>

(* The idempotent no-op answers with the pointer loaded with the incident.  *)
SkipUnchanged(r) ==
    /\ pc[r] = "compare"
    /\ FingerprintExistsAsCurrent(View(r), job[r].inc, job[r].fp)
    /\ job' = [job EXCEPT ![r].result = job[r].loaded]
    /\ Goto(r, "inputs")
    /\ UNCHANGED <<db, tx, savepoint, writer, orchestratorLock, version>>

InputsChanged(r) ==
    /\ pc[r] = "compare"
    /\ ~FingerprintExistsAsCurrent(View(r), job[r].inc, job[r].fp)
    /\ Goto(r, "revision")
    /\ UNCHANGED <<db, tx, savepoint, writer, orchestratorLock, version, job>>

ReadRevision(r) ==
    /\ pc[r] = "revision"
    /\ job' = [job EXCEPT ![r].rev = NextRevision(View(r), job[r].inc)]
    /\ Goto(r, "create")
    /\ UNCHANGED <<db, tx, savepoint, writer, orchestratorLock, version>>

(* INSERT of the building run, then SAVEPOINT.                             *)
CreateRun(r) ==
    /\ pc[r] = "create"
    /\ ~WriterBusy(r)
    /\ job[r].rev = NextRevision(View(r), job[r].inc)
    /\ tx' = InsertBuilding(View(r), job[r].inc, job[r].fp)
    /\ savepoint' = tx'
    /\ writer' = r
    /\ Goto(r, "analyse")
    /\ UNCHANGED <<db, orchestratorLock, version, job>>

(* The revision was taken meanwhile: unique (incident_id, revision).  The   *)
(* INSERT is outside the try block, so no failed run is recorded.           *)
CreateRejected(r) ==
    /\ pc[r] = "create"
    /\ ~WriterBusy(r)
    /\ job[r].rev # NextRevision(View(r), job[r].inc)
    /\ job' = [job EXCEPT ![r].failed = TRUE]
    /\ Goto(r, "unlock")
    /\ UNCHANGED <<db, tx, savepoint, writer, orchestratorLock, version>>

(* Fault: a locked database is tried again without end.                     *)
RetryForever(r) ==
    /\ WriterBusy(r)
    /\ pc[r] \in {"insert", "create"}
    /\ UNCHANGED vars

(* busy_timeout expires while another session holds the writer lock.       *)
WriterTimeout(r) ==
    /\ WriterBusy(r)
    /\ \/ pc[r] = "insert" /\ Goto(r, "finish")
       \/ pc[r] = "create" /\ Goto(r, "unlock")
    /\ job' = [job EXCEPT ![r].failed = TRUE, ![r].batch = {}]
    /\ UNCHANGED <<db, tx, savepoint, writer, orchestratorLock, version>>

(* Fault: the failed run gets a status that is not a run status.            *)
FailRunMislabelled(r) ==
    /\ CommitAs(SetRunStatus(savepoint, job[r].inc, job[r].rev, "error"))
    /\ job' = [job EXCEPT ![r].failed = TRUE]
    /\ Goto(r, "unlock")
    /\ UNCHANGED <<savepoint, orchestratorLock, version>>

(* Fault: the savepoint is rolled back and the run is left building.        *)
FailRunUnmarked(r) ==
    /\ CommitAs(savepoint)
    /\ job' = [job EXCEPT ![r].failed = TRUE]
    /\ Goto(r, "unlock")
    /\ UNCHANGED <<savepoint, orchestratorLock, version>>

(* Fault: no savepoint, so what the publication did is committed too.       *)
FailRunWithoutSavepoint(r) ==
    /\ CommitAs(SetRunStatus(tx, job[r].inc, job[r].rev, "failed"))
    /\ job' = [job EXCEPT ![r].failed = TRUE]
    /\ Goto(r, "unlock")
    /\ UNCHANGED <<savepoint, orchestratorLock, version>>

(* ROLLBACK TO the savepoint, mark the run failed, commit; if the commit    *)
(* fails, roll everything back.  The exception is raised again.             *)
FailRun(r) ==
    /\ LET failed == SetRunStatus(savepoint, job[r].inc, job[r].rev, "failed")
       IN CommitAs(failed) \/ CommitAs(db)
    /\ job' = [job EXCEPT ![r].failed = TRUE]
    /\ Goto(r, "unlock")
    /\ UNCHANGED <<savepoint, orchestratorLock, version>>

(* The engine returns children that pass validation, and they are inserted. *)
Analyse(r) ==
    /\ pc[r] = "analyse"
    /\ Goto(r, "supersede")
    /\ UNCHANGED <<db, tx, savepoint, writer, orchestratorLock, version, job>>

(* The engine raises, a validator rejects its output, or a statement of the *)
(* publication fails.                                                       *)
PublicationFails(r) ==
    /\ pc[r] \in {"analyse", "supersede", "mark", "point"}
    /\ FailRun(r)

(* Fault: supersedes whatever run is current by now.                        *)
SupersedeLatest(r) ==
    /\ pc[r] = "supersede"
    /\ tx' = IF tx.current[job[r].inc] = 0 THEN tx
             ELSE SetRunStatus(tx, job[r].inc, tx.current[job[r].inc],
                               "superseded")
    /\ Goto(r, "mark")
    /\ UNCHANGED <<db, savepoint, writer, orchestratorLock, version, job>>

(* run_repo.supersede of the run the loaded incident points to.            *)
Supersede(r) ==
    /\ pc[r] = "supersede"
    /\ tx' = IF job[r].loaded = 0 THEN tx
             ELSE SetRunStatus(tx, job[r].inc, job[r].loaded, "superseded")
    /\ Goto(r, "mark")
    /\ UNCHANGED <<db, savepoint, writer, orchestratorLock, version, job>>

(* Fault: no unique index keeps a second run from becoming current.         *)
MarkCurrentUnchecked(r) ==
    /\ pc[r] = "mark"
    /\ tx' = SetRunStatus(tx, job[r].inc, job[r].rev, "current")
    /\ Goto(r, "point")
    /\ UNCHANGED <<db, savepoint, writer, orchestratorLock, version, job>>

MarkCurrent(r) ==
    /\ pc[r] = "mark"
    /\ CurrentRevisions(tx, job[r].inc) = {}
    /\ tx' = SetRunStatus(tx, job[r].inc, job[r].rev, "current")
    /\ Goto(r, "point")
    /\ UNCHANGED <<db, savepoint, writer, orchestratorLock, version, job>>

(* A second 'current' row is rejected by the partial unique index.         *)
MarkRejected(r) ==
    /\ pc[r] = "mark"
    /\ CurrentRevisions(tx, job[r].inc) # {}
    /\ FailRun(r)

SetPointer(r) ==
    /\ pc[r] = "point"
    /\ tx' = SetCurrentAnalysisRun(tx, job[r].inc, job[r].rev)
    /\ job' = [job EXCEPT ![r].result = job[r].rev]
    /\ Goto(r, "inputs")
    /\ UNCHANGED <<db, savepoint, writer, orchestratorLock, version>>

(* Leaving the with-block releases the lock before the session ends.       *)
ReleaseLock(r) ==
    /\ pc[r] = "unlock"
    /\ orchestratorLock' = NoRequest
    /\ Goto(r, "finish")
    /\ UNCHANGED <<db, tx, savepoint, writer, version, job>>

(* session_scope: commit, or roll back after an exception.                 *)
CommitSession(r) ==
    /\ pc[r] = "finish"
    /\ ~job[r].failed
    /\ IF writer = r THEN CommitAs(tx) ELSE UNCHANGED <<db, tx, writer>>
    /\ Goto(r, "done")
    /\ UNCHANGED <<savepoint, orchestratorLock, version, job>>

(* An exception reached session_scope, or the commit itself failed.        *)
RollbackSession(r) ==
    /\ pc[r] = "finish"
    /\ job[r].failed \/ writer = r
    /\ Rollback(r)
    /\ job' = [job EXCEPT ![r].failed = TRUE]
    /\ Goto(r, "done")
    /\ UNCHANGED <<savepoint, orchestratorLock, version>>

(* The process dies: every open transaction and both locks are gone.       *)
Crash ==
    /\ \E r \in Requests : pc[r] \notin {"new", "done"}
    /\ pc' = [r \in Requests |-> IF pc[r] = "new" THEN "new" ELSE "done"]
    /\ tx' = db
    /\ writer' = NoRequest
    /\ orchestratorLock' = NoRequest
    /\ UNCHANGED <<db, savepoint, version, job>>

(* Somebody edits a fixture file, which compute_fingerprint reads anew.    *)
EditCatalogue ==
    /\ version < MaxVersion
    /\ version' = version + 1
    /\ UNCHANGED <<db, tx, savepoint, writer, orchestratorLock, pc, job>>

(* No request is in flight; there may be none left to receive.             *)
Idle ==
    /\ \A r \in Requests : pc[r] \in {"new", "done"}
    /\ UNCHANGED vars

Receive(r) == ReceiveBatch(r) \/ ReceiveRecompute(r)

Step(r) ==
    \/ InsertEvents(r) \/ InsertRejected(r) \/ AcquireLock(r)
    \/ DetectAndAttach(r) \/ DetectFails(r)
    \/ ReadInputs(r) \/ AllAnalysed(r) \/ SkipUnchanged(r) \/ InputsChanged(r)
    \/ ReadRevision(r) \/ CreateRun(r) \/ CreateRejected(r) \/ WriterTimeout(r)
    \/ Analyse(r) \/ PublicationFails(r)
    \/ Supersede(r) \/ MarkCurrent(r) \/ MarkRejected(r) \/ SetPointer(r)
    \/ ReleaseLock(r) \/ CommitSession(r) \/ RollbackSession(r)

Next ==
    \/ \E r \in Requests : Receive(r) \/ Step(r)
    \/ Crash
    \/ EditCatalogue
    \/ Idle

(* Threads are scheduled, lock holders run on, and a busy wait ends.       *)
Fairness == \A r \in Requests : WF_vars(Step(r))

Spec == Init /\ [][Next]_vars

-----------------------------------------------------------------------------
(* The variables have the types their comments announce.                   *)
TypeOK ==
    /\ db \in Image
    /\ tx \in Image
    /\ savepoint \in Image
    /\ writer \in Requests \cup {NoRequest}
    /\ orchestratorLock \in Requests \cup {NoRequest}
    /\ version \in 0..MaxVersion
    /\ pc \in [Requests -> {"new", "insert", "lock", "detect", "inputs",
                            "compare", "revision", "create", "analyse",
                            "supersede", "mark", "point", "unlock", "finish",
                            "done"}]
    /\ job \in [Requests -> Job]

(* What every reader sees: an incident's pointer names its one current run, *)
(* whichever requests raced, failed, timed out or died.  It rests on the    *)
(* savepoint, the partial unique index and the pointer loaded beforehand.   *)
PointerIsCurrent ==
    \A i \in Incidents :
        CurrentRevisions(db, i) =
            IF db.current[i] = 0 THEN {} ELSE {db.current[i]}

(* A run never stays 'building' in the committed database: not after a      *)
(* failure at any point of the publication, and not after a crash.          *)
NoCommittedBuilding ==
    \A i \in Incidents : \A r \in 1..Len(db.runs[i]) :
        db.runs[i][r].status # "building"

(* Nothing is attached behind the back of the analysis: the events that an  *)
(* incident holds in the committed database are the inputs of one of its    *)
(* runs, published or failed (_run_pipeline).  The one exception is a batch  *)
(* that stopped at another incident, whose failed run tells of it.          *)
AttachedIsAnalysed ==
    \A i \in Incidents :
        db.attached[i] # {} =>
            \/ \E r \in 1..Len(db.runs[i]) :
                  db.runs[i][r].fp.events = db.attached[i]
            \/ \E j \in Incidents \ {i} : \E r \in 1..Len(db.runs[j]) :
                  db.runs[j][r].status = "failed"

(* Nothing is skipped but what is served: when a request finds its inputs    *)
(* unchanged (_run_rca_and_publish), the committed run that readers are      *)
(* given was computed from exactly these inputs.  The answer may be older,   *)
(* since the pointer was loaded before the writer lock, but it names a run   *)
(* of this incident that was published, or nothing.                         *)
ServedIfUnchanged(r) ==
    pc[r] = "compare" /\ pc'[r] = "inputs" =>
        LET i      == job[r].inc
            served == db.current[i]
            answer == job'[r].result
        IN /\ served # 0 /\ db.runs[i][served].fp = job[r].fp
           /\ answer # 0 =>
                 /\ answer <= served
                 /\ db.runs[i][answer].status \in {"current", "superseded"}

UnchangedIsServed == [][\A r \in Requests : ServedIfUnchanged(r)]_vars

(* The committed runs, seen as a log of attempts, and the pointer implement *)
(* RevisionLog.                                                             *)
Log == [i \in Incidents |-> [r \in 1..Len(db.runs[i]) |->
           [published |-> db.runs[i][r].status \in {"current", "superseded"},
            fp        |-> db.runs[i][r].fp]]]

Revisions == INSTANCE RevisionLog
                 WITH log <- Log, current <- db.current,
                      Fingerprints <- [events : SUBSET Events,
                                       version : 0..MaxVersion]

RevisionLogSpec == Revisions!Spec

(* Every request that was received ends.  Ingestion takes the writer lock   *)
(* and then the orchestrator lock, recompute the other way round: only the  *)
(* busy timeout gets two such requests past each other.                     *)
RequestsEnd == \A r \in Requests : pc[r] # "new" ~> pc[r] = "done"
=============================================================================
