---------------------- MODULE AnalysisPublicationProofs ----------------------
(***************************************************************************)
(* Proofs about AnalysisPublication, for any number of requests,           *)
(* incidents, events and catalogue edits.                                  *)
(*                                                                         *)
(* PointerIsCurrent is not inductive: while a publication is under way the *)
(* writer's image has a building run, then no current run, then a current  *)
(* run the pointer does not name yet.  The invariant PublicationInv says   *)
(* which of these holds at which step, and that nobody commits meanwhile.  *)
(*                                                                         *)
(* The second half shows that the module implements RevisionLog, that all  *)
(* attached events are analysed, and what an unchanged request is told.    *)
(***************************************************************************)
EXTENDS AnalysisPublication, SequenceTheorems, TLAPS

Publishing == {"analyse", "supersede", "mark", "point"}

(* The incident of the job is chosen.                                      *)
Analysing == Publishing \cup {"compare", "revision", "create"}

JobInv == \A r \in Requests : pc[r] \in Analysing => job[r].inc \in Incidents

-----------------------------------------------------------------------------
(* Facts about the statements on an image.                                 *)

(* An update of a run's status keeps the image well formed and touches one  *)
(* row only; a revision that does not exist changes nothing (the repository *)
(* writes one row, found by its primary key).                               *)
LEMMA SetRunStatusFacts ==
    ASSUME NEW im \in Image, NEW i \in Incidents, NEW r \in Nat,
           NEW s \in RunStatus
    PROVE  LET new == SetRunStatus(im, i, r, s) IN
           /\ new \in Image
           /\ new.current = im.current
           /\ \A j \in Incidents : j # i => new.runs[j] = im.runs[j]
           /\ Len(new.runs[i]) = Len(im.runs[i])
           /\ \A k \in 1..Len(im.runs[i]) :
                 new.runs[i][k].status = IF k = r THEN s
                                         ELSE im.runs[i][k].status
<1> DEFINE old == im.runs[i]
           rows == [old EXCEPT ![r].status = s]
           new == SetRunStatus(im, i, r, s)
<1>1. old \in Seq(Run) /\ Len(old) \in Nat /\ DOMAIN old = 1..Len(old)
  BY DEF Image
<1>2. \A k \in 1..Len(old) : old[k] \in Run
  BY <1>1, ElementOfSeq
<1>3. rows = [k \in 1..Len(old) |->
                 IF k = r THEN [old[k] EXCEPT !.status = s] ELSE old[k]]
  BY <1>1
<1>4. \A k \in 1..Len(old) :
         /\ rows[k] \in Run
         /\ rows[k].status = IF k = r THEN s ELSE old[k].status
  BY <1>2, <1>3 DEF Run
<1>5. rows \in [1..Len(old) -> Run]
  BY <1>3, <1>4
<1>6. rows \in Seq(Run) /\ Len(rows) = Len(old)
  BY <1>1, <1>5, <1>3
<1>7. new = [im EXCEPT !.runs = [im.runs EXCEPT ![i] = rows]]
  BY DEF SetRunStatus, Image
<1>8. new \in Image
  BY <1>6, <1>7, ZenonT(40) DEF Image
<1> QED
  BY <1>4, <1>6, <1>7, <1>8 DEF Image

(* The INSERT of a building run appends one row and touches no other.       *)
LEMMA InsertBuildingFacts ==
    ASSUME NEW im \in Image, NEW i \in Incidents, NEW fp \in Fingerprint
    PROVE  LET new == InsertBuilding(im, i, fp) IN
           /\ new \in Image
           /\ new.current = im.current
           /\ \A j \in Incidents : j # i => new.runs[j] = im.runs[j]
           /\ Len(new.runs[i]) = Len(im.runs[i]) + 1
           /\ \A k \in 1..Len(im.runs[i]) : new.runs[i][k] = im.runs[i][k]
           /\ new.runs[i][Len(im.runs[i]) + 1].status = "building"
<1> DEFINE old == im.runs[i]
           row == [status |-> "building", fp |-> fp]
           rows == Append(old, row)
           new == InsertBuilding(im, i, fp)
<1>1. old \in Seq(Run) /\ row \in Run
  BY DEF Image, Run, RunStatus
<1>2. /\ rows \in Seq(Run)
      /\ Len(rows) = Len(old) + 1
      /\ \A k \in 1..Len(old) : rows[k] = old[k]
      /\ rows[Len(old) + 1] = row
  BY <1>1
<1>3. new = [im EXCEPT !.runs = [im.runs EXCEPT ![i] = rows]]
  BY DEF InsertBuilding, Image
<1>4. new \in Image
  <2>1. ASSUME NEW rs \in Seq(Run)
        PROVE  [im EXCEPT !.runs = [im.runs EXCEPT ![i] = rs]] \in Image
    BY DEF Image
  <2> QED
    BY ONLY <1>2, <1>3, <2>1
<1> HIDE DEF rows
<1>5. /\ new.current = im.current
      /\ new.runs = [im.runs EXCEPT ![i] = rows]
  BY <1>3 DEF Image
<1> HIDE DEF new, row
<1>6. /\ \A j \in Incidents : j # i => new.runs[j] = im.runs[j]
      /\ new.runs[i] = rows
  BY <1>5 DEF Image
<1>7. row.status = "building"
  BY DEF row
<1>8. /\ Len(rows) = Len(old) + 1
      /\ \A k \in 1..Len(old) : rows[k] = old[k]
      /\ rows[Len(old) + 1].status = "building"
  BY <1>2, <1>7
<1> QED
  BY <1>4, <1>5, <1>6, <1>8 DEF new

(* Swapping the pointer leaves every run row alone.                        *)
LEMMA SetCurrentFacts ==
    ASSUME NEW im \in Image, NEW i \in Incidents, NEW r \in Nat
    PROVE  LET new == SetCurrentAnalysisRun(im, i, r) IN
           /\ new \in Image
           /\ new.runs = im.runs
           /\ new.current = [im.current EXCEPT ![i] = r]
  BY DEF SetCurrentAnalysisRun, Image, IncidentStatus

(* Storing and attaching events leaves runs and pointers alone.            *)
LEMMA AttachFacts ==
    ASSUME NEW im \in Image, NEW batch \in SUBSET Events,
           NEW a \in Attachments(im, batch)
    PROVE  LET new == Attach(im, a.affected, a.added) IN
           /\ new \in Image
           /\ new.runs = im.runs
           /\ new.current = im.current
  BY DEF Attachments, Attach, Image, IncidentStatus

(* Storing accepted events leaves runs and pointers alone.                 *)
LEMMA StoreEventsFacts ==
    ASSUME NEW im \in Image, NEW E \in SUBSET Events
    PROVE  LET new == StoreEvents(im, E) IN
           /\ new \in Image
           /\ new.runs = im.runs
           /\ new.current = im.current
  BY DEF StoreEvents, Image

(* The next revision of an incident is a positive number.                  *)
LEMMA NextRevisionType ==
    ASSUME NEW im \in Image, NEW i \in Incidents
    PROVE  NextRevision(im, i) \in Nat
  BY DEF NextRevision, Image

-----------------------------------------------------------------------------
(* Type correctness.                                                       *)

(* The initial state, an empty database and no request, is well typed.      *)
LEMMA InitTypes == Init => TypeOK /\ JobInv
<1> SUFFICES ASSUME Init PROVE TypeOK /\ JobInv
  OBVIOUS
<1>1. EmptyImage \in Image
  BY DEF EmptyImage, Image, IncidentStatus
<1>2. EmptyJob \in Job
  BY DEF EmptyJob, Job, Fingerprint
<1> QED
  BY <1>1, <1>2, MaxVersionAssumption
     DEF Init, TypeOK, JobInv, Analysing, Publishing

(* Failing a run restores the savepoint, and so keeps the types.           *)
LEMMA FailRunTypes ==
    ASSUME TypeOK, JobInv, NEW r \in Requests, pc[r] \in Publishing, FailRun(r)
    PROVE  TypeOK' /\ JobInv'
<1> DEFINE new == SetRunStatus(savepoint, job[r].inc, job[r].rev, "failed")
<1>1. job[r] \in Job /\ job[r].inc \in Incidents /\ job[r].rev \in Nat
  BY DEF TypeOK, JobInv, Job, Analysing
<1>2. savepoint \in Image /\ "failed" \in RunStatus
  BY DEF TypeOK, RunStatus
<1>3. new \in Image
  BY <1>1, <1>2, SetRunStatusFacts
<1>4. db' \in Image /\ tx' \in Image /\ writer' = NoRequest
  <2> HIDE DEF new
  <2> QED
    BY <1>3 DEF FailRun, CommitAs, TypeOK, new
<1>5. job' \in [Requests -> Job]
  BY <1>1 DEF FailRun, TypeOK, Job
<1>6. JobInv'
  BY <1>1 DEF FailRun, Goto, TypeOK, JobInv, Analysing, Publishing
<1>7. /\ savepoint' \in Image
      /\ orchestratorLock' \in Requests \cup {NoRequest}
      /\ version' \in 0..MaxVersion
  BY DEF FailRun, TypeOK
<1>8. pc' = [pc EXCEPT ![r] = "unlock"]
  BY DEF FailRun, Goto
<1> QED
  BY <1>4, <1>5, <1>6, <1>7, <1>8 DEF TypeOK

(* Every step of a request keeps the types.                                *)
LEMMA RequestTypes ==
    ASSUME TypeOK, JobInv, NEW r \in Requests, Receive(r) \/ Step(r)
    PROVE  TypeOK' /\ JobInv'
<1> USE DEF Goto, JobInv, Analysing, Publishing
<1>0. job[r] \in Job /\ View(r) \in Image
  BY DEF TypeOK, View
<1>1. CASE ReceiveBatch(r)
  BY <1>0, <1>1 DEF ReceiveBatch, TypeOK, Job
<1>2. CASE ReceiveRecompute(r)
  <2>1. PICK i \in Incidents :
           job' = [job EXCEPT ![r].todo = {i}, ![r].loaded = db.current[i]]
    BY <1>2 DEF ReceiveRecompute
  <2>2. db.current[i] \in Nat
    BY DEF TypeOK, Image
  <2>3. job' \in [Requests -> Job]
    BY <1>0, <2>1, <2>2 DEF TypeOK, Job
  <2> QED
    BY <1>2, <2>3 DEF ReceiveRecompute, TypeOK
<1>3. CASE InsertEvents(r)
  <2> DEFINE fresh == job[r].batch \ db.stored
  <2>1. fresh \in SUBSET Events
    BY <1>0 DEF Job
  <2>2. tx' \in Image
    BY <1>3, <2>1, StoreEventsFacts DEF InsertEvents, TypeOK
  <2>3. job' \in [Requests -> Job]
    BY <1>0, <1>3, <2>1 DEF InsertEvents, TypeOK, Job
  <2> QED
    BY <1>0, <1>3, <2>2, <2>3 DEF InsertEvents, TypeOK
<1>4. CASE InsertRejected(r)
  BY <1>0, <1>4 DEF InsertRejected, TypeOK, Job
<1>5. CASE AcquireLock(r)
  <2>1. job[r].batch = {} \/ job[r].batch # {}
    OBVIOUS
  <2> QED
    BY <1>5, <2>1 DEF AcquireLock, TypeOK
<1>6. CASE DetectAndAttach(r)
  <2>1. PICK a \in Attachments(tx, job[r].batch) :
           /\ tx' = Attach(tx, a.affected, a.added)
           /\ job' = [job EXCEPT ![r].todo = a.affected]
    BY <1>6 DEF DetectAndAttach
  <2>2. a.affected \in SUBSET Incidents
    BY DEF Attachments
  <2>3. tx' \in Image
    BY <1>0, <2>1, AttachFacts DEF TypeOK, Job
  <2>4. job' \in [Requests -> Job]
    BY <1>0, <2>1, <2>2 DEF TypeOK, Job
  <2> QED
    BY <1>6, <2>3, <2>4 DEF DetectAndAttach, TypeOK
<1>7. CASE DetectFails(r)
  BY <1>0, <1>7 DEF DetectFails, TypeOK, Job
<1>8. CASE ReadInputs(r)
  <2>1. PICK i \in job[r].todo :
          job' = [job EXCEPT
              ![r].inc = i,
              ![r].todo = @ \ {i},
              ![r].loaded = IF writer = r THEN tx.current[i] ELSE @,
              ![r].fp = [events |-> View(r).attached[i], version |-> version]]
    BY <1>8 DEF ReadInputs
  <2>2. i \in Incidents
    BY <1>0 DEF Job
  <2>3. tx.current[i] \in Nat
    BY <2>2 DEF TypeOK, Image
  <2>4. [events |-> View(r).attached[i], version |-> version] \in Fingerprint
    BY <1>0, <2>2, MaxVersionAssumption DEF TypeOK, Image, Fingerprint
  <2>5. job' \in [Requests -> Job] /\ job'[r].inc = i
    BY <1>0, <2>1, <2>2, <2>3, <2>4 DEF TypeOK, Job
  <2>6. \A q \in Requests \ {r} : job'[q] = job[q]
    BY <2>1 DEF TypeOK
  <2> QED
    BY <1>8, <2>2, <2>5, <2>6 DEF ReadInputs, TypeOK
<1>9. CASE AllAnalysed(r)
  BY <1>9 DEF AllAnalysed, TypeOK
<1>10. CASE SkipUnchanged(r)
  BY <1>0, <1>10 DEF SkipUnchanged, TypeOK, Job
<1>11. CASE InputsChanged(r)
  BY <1>11 DEF InputsChanged, TypeOK
<1>12. CASE ReadRevision(r)
  <2>1. NextRevision(View(r), job[r].inc) \in Nat
    BY <1>0, <1>12, NextRevisionType DEF ReadRevision
  <2> QED
    BY <1>0, <1>12, <2>1 DEF ReadRevision, TypeOK, Job
<1>13. CASE CreateRun(r)
  <2>1. InsertBuilding(View(r), job[r].inc, job[r].fp) \in Image
    BY <1>0, <1>13, InsertBuildingFacts DEF CreateRun, Job
  <2> QED
    BY <1>13, <2>1 DEF CreateRun, TypeOK
<1>14. CASE CreateRejected(r)
  BY <1>0, <1>14 DEF CreateRejected, TypeOK, Job
<1>15. CASE WriterTimeout(r)
  BY <1>0, <1>15 DEF WriterTimeout, TypeOK, Job
<1>16. CASE Analyse(r)
  BY <1>16 DEF Analyse, TypeOK
<1>17. CASE PublicationFails(r)
  BY <1>17, FailRunTypes DEF PublicationFails
<1>18. CASE Supersede(r)
  <2>1. tx' \in Image
    BY <1>0, <1>18, SetRunStatusFacts DEF Supersede, TypeOK, Job, RunStatus
  <2> QED
    BY <1>18, <2>1 DEF Supersede, TypeOK
<1>19. CASE MarkCurrent(r)
  <2>1. tx' \in Image
    BY <1>0, <1>19, SetRunStatusFacts DEF MarkCurrent, TypeOK, Job, RunStatus
  <2> QED
    BY <1>19, <2>1 DEF MarkCurrent, TypeOK
<1>20. CASE MarkRejected(r)
  BY <1>20, FailRunTypes DEF MarkRejected
<1>21. CASE SetPointer(r)
  <2>1. tx' \in Image
    BY <1>0, <1>21, SetCurrentFacts DEF SetPointer, TypeOK, Job
  <2> QED
    BY <1>0, <1>21, <2>1 DEF SetPointer, TypeOK, Job
<1>22. CASE ReleaseLock(r)
  BY <1>22 DEF ReleaseLock, TypeOK
<1>23. CASE CommitSession(r)
  BY <1>23 DEF CommitSession, CommitAs, TypeOK
<1>24. CASE RollbackSession(r)
  BY <1>0, <1>24 DEF RollbackSession, Rollback, TypeOK, Job
<1> QED
  BY <1>1, <1>2, <1>3, <1>4, <1>5, <1>6, <1>7, <1>8, <1>9, <1>10, <1>11,
     <1>12, <1>13, <1>14, <1>15, <1>16, <1>17, <1>18, <1>19, <1>20, <1>21,
     <1>22, <1>23, <1>24 DEF Receive, Step

(* Every step of the system keeps the types.                               *)
LEMMA TypeStep == TypeOK /\ JobInv /\ [Next]_vars => TypeOK' /\ JobInv'
<1> SUFFICES ASSUME TypeOK, JobInv, [Next]_vars PROVE TypeOK' /\ JobInv'
  OBVIOUS
<1>1. ASSUME NEW r \in Requests, Receive(r) \/ Step(r)
      PROVE  TypeOK' /\ JobInv'
  BY <1>1, RequestTypes
<1>2. CASE Crash
  BY <1>2 DEF Crash, TypeOK, JobInv, Analysing, Publishing
<1>3. CASE EditCatalogue
  BY <1>3, MaxVersionAssumption DEF EditCatalogue, TypeOK, JobInv
<1>4. CASE UNCHANGED vars
  BY <1>4 DEF vars, TypeOK, JobInv
<1> QED
  BY <1>1, <1>2, <1>3, <1>4 DEF Next, Idle

(* Every variable keeps its type, and a request that analyses has an        *)
(* incident.                                                                *)
THEOREM TypeCorrect == Spec => [](TypeOK /\ JobInv)
<1>1. Init => TypeOK /\ JobInv
  BY InitTypes
<1>2. (TypeOK /\ JobInv) /\ [Next]_vars => (TypeOK /\ JobInv)'
  BY TypeStep
<1> QED
  BY <1>1, <1>2, PTL DEF Spec

-----------------------------------------------------------------------------
(* The pointer and the current run.                                        *)

(* Row k of i, with c the pointer that goes with it.                        *)
SettledRow(im, i, k, c) ==
    /\ im.runs[i][k].status # "building"
    /\ im.runs[i][k].status = "current" <=> k = c

Settled(im, i) ==
    /\ im.current[i] \in 0..Len(im.runs[i])
    /\ \A k \in 1..Len(im.runs[i]) : SettledRow(im, i, k, im.current[i])

ImageSettled(im) == \A i \in Incidents : Settled(im, i)

OthersSettled(im, i) == \A j \in Incidents \ {i} : Settled(im, j)

(* After the INSERT: the last run is building, the rest is as it was.       *)
Building(im, i, rev) ==
    /\ OthersSettled(im, i)
    /\ rev = Len(im.runs[i])
    /\ im.current[i] \in 0..(rev - 1)
    /\ \A k \in 1..(rev - 1) : SettledRow(im, i, k, im.current[i])
    /\ im.runs[i][rev].status = "building"

(* After the supersede: no run but the new one is building.                *)
Superseded(im, i, rev) ==
    /\ OthersSettled(im, i)
    /\ rev = Len(im.runs[i])
    /\ \A k \in 1..(rev - 1) : im.runs[i][k].status # "building"

(* After mark_current: the new run, which the pointer does not name yet, is *)
(* the only current one.                                                    *)
Marked(im, i, rev) ==
    /\ OthersSettled(im, i)
    /\ rev = Len(im.runs[i])
    /\ \A k \in 1..rev : SettledRow(im, i, k, rev)

(* An ingestion has held the writer lock since it stored its events.       *)
HoldsWriter(r) ==
    \/ pc[r] = "detect"
    \/ pc[r] = "lock" /\ job[r].batch # {}

(* What holds of the images because of where request r is.                  *)
StageInv(r) ==
    /\ pc[r] \in Publishing =>
          /\ writer = r
          /\ Building(savepoint, job[r].inc, job[r].rev)
    /\ pc[r] \in {"analyse", "supersede"} => tx = savepoint
    /\ pc[r] = "mark" => Superseded(tx, job[r].inc, job[r].rev)
    /\ pc[r] = "point" => Marked(tx, job[r].inc, job[r].rev)
    /\ writer = r /\ pc[r] \notin Publishing => ImageSettled(tx)
    /\ HoldsWriter(r) => writer = r
    /\ pc[r] = "new" => job[r].batch = {}

PublicationInv ==
    /\ ImageSettled(db)
    /\ writer = NoRequest => tx = db
    /\ \A r \in Requests : StageInv(r)

(* Two images with the same runs and pointers are settled alike.            *)
LEMMA SettledByRuns ==
    ASSUME NEW im, NEW new, new.runs = im.runs, new.current = im.current,
           ImageSettled(im)
    PROVE  ImageSettled(new)
  BY DEF ImageSettled, Settled, SettledRow

(* The empty database has no run and so no pointer to mislead.             *)
LEMMA InitPublication == Init => PublicationInv
<1> SUFFICES ASSUME Init PROVE PublicationInv
  OBVIOUS
<1>1. ImageSettled(EmptyImage)
  BY DEF EmptyImage, ImageSettled, Settled, SettledRow
<1> QED
  BY <1>1, NoRequestAssumption
     DEF Init, PublicationInv, StageInv, Publishing, HoldsWriter, EmptyJob

(* Inserting a building run into a settled image.                          *)
LEMMA BuildingCreated ==
    ASSUME NEW im \in Image, NEW i \in Incidents, NEW fp \in Fingerprint,
           ImageSettled(im)
    PROVE  Building(InsertBuilding(im, i, fp), i, NextRevision(im, i))
<1> DEFINE new == InsertBuilding(im, i, fp)
           rev == NextRevision(im, i)
<1>1. Len(im.runs[i]) \in Nat /\ rev = Len(im.runs[i]) + 1
  BY DEF Image, NextRevision
<1>2. /\ new.current = im.current
      /\ \A j \in Incidents : j # i => new.runs[j] = im.runs[j]
      /\ Len(new.runs[i]) = Len(im.runs[i]) + 1
      /\ \A k \in 1..Len(im.runs[i]) : new.runs[i][k] = im.runs[i][k]
      /\ new.runs[i][Len(im.runs[i]) + 1].status = "building"
  BY InsertBuildingFacts
<1> HIDE DEF new, rev
<1>3. OthersSettled(new, i)
  BY <1>2 DEF OthersSettled, ImageSettled, Settled, SettledRow
<1>4. ASSUME NEW k \in 1..Len(im.runs[i])
      PROVE  SettledRow(new, i, k, new.current[i])
  <2>1. SettledRow(im, i, k, im.current[i])
    BY DEF ImageSettled, Settled
  <2>2. new.runs[i][k] = im.runs[i][k] /\ new.current[i] = im.current[i]
    BY <1>2
  <2> QED
    BY <2>1, <2>2 DEF SettledRow
<1> QED
  BY <1>1, <1>2, <1>3, <1>4 DEF Building, ImageSettled, Settled, new, rev

(* Marking the building run failed leaves the prior pointer in charge.      *)
LEMMA FailureSettles ==
    ASSUME NEW im \in Image, NEW i \in Incidents, NEW rev \in Nat,
           Building(im, i, rev)
    PROVE  ImageSettled(SetRunStatus(im, i, rev, "failed"))
<1> DEFINE new == SetRunStatus(im, i, rev, "failed")
<1>1. /\ new.current = im.current
      /\ \A j \in Incidents : j # i => new.runs[j] = im.runs[j]
      /\ Len(new.runs[i]) = Len(im.runs[i])
      /\ \A k \in 1..Len(im.runs[i]) :
            new.runs[i][k].status = IF k = rev THEN "failed"
                                    ELSE im.runs[i][k].status
  BY SetRunStatusFacts DEF RunStatus
<1> HIDE DEF new
<1>2. OthersSettled(new, i)
  BY <1>1, SMTT(30) DEF Building, OthersSettled, Settled, SettledRow
<1>3. ASSUME NEW k \in 1..Len(im.runs[i])
      PROVE  SettledRow(new, i, k, im.current[i])
  <2>1. CASE k = rev
    BY <1>1, <2>1, SMTT(30) DEF Building, SettledRow
  <2>2. CASE k # rev
    <3>1. k \in 1..(rev - 1)
      BY <2>2 DEF Building
    <3> QED
      BY <1>1, <2>2, <3>1 DEF Building, SettledRow
  <2> QED
    BY <2>1, <2>2
<1>4. Settled(new, i)
  BY <1>1, <1>3 DEF Building, Settled
<1> QED
  BY <1>2, <1>4 DEF ImageSettled, OthersSettled, new

(* Superseding any run never creates a building one.                       *)
LEMMA SupersedeStage ==
    ASSUME NEW im \in Image, NEW i \in Incidents, NEW rev \in Nat,
           NEW r \in Nat, Building(im, i, rev)
    PROVE  Superseded(SetRunStatus(im, i, r, "superseded"), i, rev)
<1> DEFINE new == SetRunStatus(im, i, r, "superseded")
<1>1. /\ new.current = im.current
      /\ \A j \in Incidents : j # i => new.runs[j] = im.runs[j]
      /\ Len(new.runs[i]) = Len(im.runs[i])
      /\ \A k \in 1..Len(im.runs[i]) :
            new.runs[i][k].status = IF k = r THEN "superseded"
                                    ELSE im.runs[i][k].status
  BY SetRunStatusFacts DEF RunStatus
<1> HIDE DEF new
<1>2. OthersSettled(new, i)
  BY <1>1 DEF Building, OthersSettled, Settled, SettledRow
<1>3. ASSUME NEW k \in 1..(rev - 1)
      PROVE  new.runs[i][k].status # "building"
  <2>1. k \in 1..Len(im.runs[i])
    BY DEF Building
  <2> QED
    BY <1>1, <2>1 DEF Building, SettledRow
<1> QED
  BY <1>1, <1>2, <1>3 DEF Building, Superseded, new

(* With no other current row, marking makes the new run the only one.       *)
LEMMA MarkStage ==
    ASSUME NEW im \in Image, NEW i \in Incidents, NEW rev \in Nat,
           Superseded(im, i, rev), CurrentRevisions(im, i) = {}
    PROVE  Marked(SetRunStatus(im, i, rev, "current"), i, rev)
<1> DEFINE new == SetRunStatus(im, i, rev, "current")
<1>1. /\ new.current = im.current
      /\ \A j \in Incidents : j # i => new.runs[j] = im.runs[j]
      /\ Len(new.runs[i]) = Len(im.runs[i])
      /\ \A k \in 1..Len(im.runs[i]) :
            new.runs[i][k].status = IF k = rev THEN "current"
                                    ELSE im.runs[i][k].status
  BY SetRunStatusFacts DEF RunStatus
<1> HIDE DEF new
<1>2. OthersSettled(new, i)
  BY <1>1 DEF Superseded, OthersSettled, Settled, SettledRow
<1>3. \A k \in 1..rev : SettledRow(new, i, k, rev)
  BY <1>1 DEF Superseded, SettledRow, CurrentRevisions
<1> QED
  BY <1>1, <1>2, <1>3 DEF Superseded, Marked, new

(* Moving the pointer to the marked run settles the image again.           *)
LEMMA PointerSettles ==
    ASSUME NEW im \in Image, NEW i \in Incidents, NEW rev \in Nat,
           Marked(im, i, rev)
    PROVE  ImageSettled(SetCurrentAnalysisRun(im, i, rev))
<1> DEFINE new == SetCurrentAnalysisRun(im, i, rev)
<1>0. im.current \in [Incidents -> Nat]
  BY DEF Image
<1>1. /\ new.runs = im.runs
      /\ new.current = [im.current EXCEPT ![i] = rev]
      /\ im.current \in [Incidents -> Nat]
  BY <1>0, SetCurrentFacts
<1> HIDE DEF new
<1>2. OthersSettled(new, i)
  BY <1>1 DEF Marked, OthersSettled, Settled, SettledRow
<1>3. Settled(new, i)
  BY <1>1 DEF Marked, Settled, SettledRow
<1> QED
  BY <1>2, <1>3 DEF ImageSettled, OthersSettled, new

(* A step of r that writes no image and stays clear of publication.         *)
LEMMA QuietStep ==
    ASSUME TypeOK, PublicationInv, NEW r \in Requests,
           pc[r] \notin Publishing, pc'[r] \notin Publishing,
           HoldsWriter(r)' => writer = r, pc'[r] # "new",
           UNCHANGED <<db, tx, savepoint, writer>>,
           \A q \in Requests \ {r} : pc'[q] = pc[q] /\ job'[q] = job[q]
    PROVE  PublicationInv'
<1>1. StageInv(r)'
  BY DEF PublicationInv, StageInv, Publishing
<1>2. ASSUME NEW q \in Requests \ {r} PROVE StageInv(q)'
  BY DEF PublicationInv, StageInv, HoldsWriter
<1> QED
  BY <1>1, <1>2 DEF PublicationInv

(* A step of the writer r: the other requests hold no stage.               *)
LEMMA WriterStep ==
    ASSUME TypeOK, PublicationInv, NEW r \in Requests,
           writer = r, writer' \in {r, NoRequest},
           \A q \in Requests \ {r} : pc'[q] = pc[q] /\ job'[q] = job[q]
    PROVE  \A q \in Requests \ {r} : StageInv(q)'
<1> SUFFICES ASSUME NEW q \in Requests \ {r} PROVE StageInv(q)'
  OBVIOUS
<1>1. /\ pc[q] \notin Publishing /\ ~HoldsWriter(q)
      /\ pc[q] = "new" => job[q].batch = {}
  BY DEF PublicationInv, StageInv
<1>2. writer' # q
  BY NoRequestAssumption
<1> QED
  BY <1>1, <1>2 DEF StageInv, Publishing, HoldsWriter

(* A failed publication commits the failed run and settles the incident.    *)
LEMMA FailRunStep ==
    ASSUME TypeOK, JobInv, PublicationInv, NEW r \in Requests,
           pc[r] \in Publishing, FailRun(r)
    PROVE  PublicationInv'
<1> DEFINE failed == SetRunStatus(savepoint, job[r].inc, job[r].rev, "failed")
<1>1. /\ job[r].inc \in Incidents
      /\ job[r].rev \in Nat
      /\ savepoint \in Image
  BY DEF TypeOK, JobInv, Analysing, Job
<1>2. writer = r /\ Building(savepoint, job[r].inc, job[r].rev)
  BY DEF PublicationInv, StageInv
<1>3. ImageSettled(failed)
  BY <1>1, <1>2, FailureSettles
<1> HIDE DEF failed
<1>4. /\ db' = tx'
      /\ db' = failed \/ db' = db
      /\ writer' = NoRequest
      /\ pc' = [pc EXCEPT ![r] = "unlock"]
      /\ \A q \in Requests \ {r} : job'[q] = job[q]
  BY DEF FailRun, CommitAs, Goto, failed, TypeOK
<1>5. ImageSettled(db)'
  BY <1>3, <1>4 DEF PublicationInv, ImageSettled, Settled, SettledRow
<1>6. \A q \in Requests \ {r} : StageInv(q)'
  BY <1>2, <1>4, WriterStep DEF TypeOK
<1>7. StageInv(r)'
  BY <1>4, NoRequestAssumption DEF StageInv, TypeOK, Publishing, HoldsWriter
<1> QED
  BY <1>4, <1>5, <1>6, <1>7 DEF PublicationInv

(* Steps outside the publication stages that write an image.               *)
LEMMA SessionStep ==
    ASSUME TypeOK, JobInv, PublicationInv, NEW r \in Requests,
           \/ InsertEvents(r) \/ DetectAndAttach(r) \/ CreateRun(r)
           \/ CommitSession(r) \/ RollbackSession(r)
    PROVE  PublicationInv'
<1>0. /\ job[r] \in Job
      /\ db \in Image /\ tx \in Image /\ View(r) \in Image
      /\ ImageSettled(db)
      /\ r # NoRequest
  BY NoRequestAssumption DEF TypeOK, View, PublicationInv
<1>1. CASE InsertEvents(r)
  <2> DEFINE fresh == job[r].batch \ db.stored
  <2>1. fresh \in SUBSET Events
    BY <1>0 DEF Job
  <2>2. /\ tx' = StoreEvents(db, fresh)
        /\ writer = NoRequest /\ writer' = r /\ db' = db
        /\ pc[r] = "insert" /\ pc' = [pc EXCEPT ![r] = "lock"]
        /\ \A q \in Requests \ {r} : job'[q] = job[q]
    BY <1>1 DEF InsertEvents, Goto, TypeOK
  <2> HIDE DEF fresh
  <2>3. ImageSettled(tx')
    BY <1>0, <2>1, <2>2, StoreEventsFacts, SettledByRuns
  <2>4. StageInv(r)'
    BY <2>2, <2>3
       DEF StageInv, TypeOK, Publishing, ImageSettled, Settled, SettledRow
  <2>5. ASSUME NEW q \in Requests \ {r} PROVE StageInv(q)'
    BY <1>0, <2>2, <2>5, NoRequestAssumption
       DEF PublicationInv, StageInv, TypeOK, HoldsWriter, Publishing
  <2> QED
    BY <1>0, <2>2, <2>4, <2>5 DEF PublicationInv
<1>2. CASE DetectAndAttach(r)
  <2>1. PICK a \in Attachments(tx, job[r].batch) :
           tx' = Attach(tx, a.affected, a.added)
    BY <1>2 DEF DetectAndAttach
  <2>2. /\ writer' = writer /\ db' = db
        /\ pc[r] = "detect" /\ pc' = [pc EXCEPT ![r] = "inputs"]
        /\ \A q \in Requests \ {r} : job'[q] = job[q]
    BY <1>2 DEF DetectAndAttach, Goto, TypeOK
  <2>3. writer = r /\ ImageSettled(tx)
    BY <2>2 DEF PublicationInv, StageInv, HoldsWriter, Publishing
  <2>4. ImageSettled(tx')
    BY <1>0, <2>1, <2>3, AttachFacts, SettledByRuns DEF Job
  <2>5. StageInv(r)'
    BY <2>2, <2>3, <2>4 DEF StageInv, TypeOK, Publishing, HoldsWriter,
                            ImageSettled, Settled, SettledRow
  <2>6. \A q \in Requests \ {r} : StageInv(q)'
    BY <2>2, <2>3, WriterStep DEF TypeOK
  <2> QED
    BY <1>0, <2>2, <2>3, <2>5, <2>6 DEF PublicationInv
<1>3. CASE CreateRun(r)
  <2> DEFINE i == job[r].inc
             rev == job[r].rev
  <2>1. /\ writer \in {NoRequest, r} /\ writer' = r /\ db' = db
        /\ tx' = InsertBuilding(View(r), i, job[r].fp) /\ savepoint' = tx'
        /\ rev = NextRevision(View(r), i)
        /\ pc[r] = "create" /\ pc' = [pc EXCEPT ![r] = "analyse"]
        /\ job' = job
    BY <1>3 DEF CreateRun, Goto, WriterBusy
  <2>2. i \in Incidents /\ job[r].fp \in Fingerprint
    BY <1>0, <2>1 DEF JobInv, Analysing, Job
  <2>3. ImageSettled(View(r))
    BY <2>1 DEF View, PublicationInv, StageInv, Publishing
  <2>4. Building(tx', i, rev)
    BY <1>0, <2>1, <2>2, <2>3, BuildingCreated
  <2>5. StageInv(r)'
    BY <2>1, <2>4 DEF StageInv, TypeOK, Publishing, HoldsWriter
  <2>6. ASSUME NEW q \in Requests \ {r} PROVE StageInv(q)'
    BY <1>0, <2>1, <2>6, NoRequestAssumption
       DEF PublicationInv, StageInv, TypeOK, HoldsWriter, Publishing
  <2> QED
    BY <1>0, <2>1, <2>5, <2>6 DEF PublicationInv
<1>4. CASE CommitSession(r)
  <2>1. /\ pc[r] = "finish" /\ pc' = [pc EXCEPT ![r] = "done"]
        /\ job' = job /\ savepoint' = savepoint
    BY <1>4 DEF CommitSession, Goto
  <2>2. CASE writer = r
    <3>1. db' = tx /\ tx' = tx /\ writer' = NoRequest
      BY <1>4, <2>2 DEF CommitSession, CommitAs
    <3>2. ImageSettled(tx)
      BY <2>1, <2>2 DEF PublicationInv, StageInv, Publishing
    <3>3. StageInv(r)'
      BY <1>0, <2>1, <3>1 DEF StageInv, TypeOK, Publishing, HoldsWriter
    <3>4. \A q \in Requests \ {r} : StageInv(q)'
      BY <2>1, <2>2, <3>1, WriterStep DEF TypeOK
    <3> QED
      BY <3>1, <3>2, <3>3, <3>4 DEF PublicationInv
  <2>3. CASE writer # r
    BY <1>4, <2>1, <2>3, QuietStep
       DEF CommitSession, TypeOK, Publishing, HoldsWriter
  <2> QED
    BY <2>2, <2>3
<1>5. CASE RollbackSession(r)
  <2>1. /\ pc[r] = "finish" /\ pc' = [pc EXCEPT ![r] = "done"]
        /\ \A q \in Requests \ {r} : job'[q] = job[q]
        /\ savepoint' = savepoint /\ db' = db
    BY <1>5 DEF RollbackSession, Rollback, Goto, TypeOK
  <2>2. CASE writer = r
    <3>1. tx' = db /\ writer' = NoRequest
      BY <1>5, <2>2 DEF RollbackSession, Rollback
    <3>2. StageInv(r)'
      BY <1>0, <2>1, <3>1 DEF StageInv, TypeOK, Publishing, HoldsWriter
    <3>3. \A q \in Requests \ {r} : StageInv(q)'
      BY <2>1, <2>2, <3>1, WriterStep DEF TypeOK
    <3> QED
      BY <1>0, <2>1, <3>1, <3>2, <3>3 DEF PublicationInv
  <2>3. CASE writer # r
    BY <1>5, <2>1, <2>3, QuietStep
       DEF RollbackSession, Rollback, TypeOK, Publishing, HoldsWriter
  <2> QED
    BY <2>2, <2>3
<1> QED
  BY <1>1, <1>2, <1>3, <1>4, <1>5

(* The steps of an analysis under way.                                     *)
LEMMA PublishingStep ==
    ASSUME TypeOK, JobInv, PublicationInv, NEW r \in Requests,
           \/ Analyse(r) \/ Supersede(r) \/ MarkCurrent(r) \/ SetPointer(r)
           \/ PublicationFails(r) \/ MarkRejected(r)
    PROVE  PublicationInv'
<1> DEFINE i == job[r].inc
           rev == job[r].rev
<1>0. /\ pc[r] \in Publishing
      /\ i \in Incidents /\ rev \in Nat /\ job[r].loaded \in Nat
      /\ tx \in Image /\ savepoint \in Image
  BY DEF TypeOK, JobInv, Job, Analyse, Supersede, MarkCurrent, SetPointer,
         PublicationFails, MarkRejected, Publishing, Analysing
<1>1. /\ writer = r /\ r # NoRequest
      /\ Building(savepoint, i, rev)
      /\ ImageSettled(db)
  BY <1>0, NoRequestAssumption DEF PublicationInv, StageInv
<1>2. CASE PublicationFails(r) \/ MarkRejected(r)
  BY <1>0, <1>2, FailRunStep DEF PublicationFails, MarkRejected
<1>3. ASSUME db' = db, writer' = writer, StageInv(r)',
             \A q \in Requests \ {r} : pc'[q] = pc[q] /\ job'[q] = job[q]
      PROVE  PublicationInv'
  BY <1>1, <1>3, WriterStep DEF PublicationInv
<1>4. CASE Analyse(r)
  <2>1. /\ pc[r] = "analyse" /\ pc' = [pc EXCEPT ![r] = "supersede"]
        /\ UNCHANGED <<db, tx, savepoint, writer, job>>
    BY <1>4 DEF Analyse, Goto
  <2>2. StageInv(r)'
    BY <1>1, <2>1 DEF PublicationInv, StageInv, TypeOK, Publishing, HoldsWriter
  <2> QED
    BY <1>3, <2>1, <2>2 DEF TypeOK
<1>5. CASE Supersede(r)
  <2>1. /\ pc[r] = "supersede" /\ pc' = [pc EXCEPT ![r] = "mark"]
        /\ tx' = IF job[r].loaded = 0 THEN tx
                 ELSE SetRunStatus(tx, i, job[r].loaded, "superseded")
        /\ UNCHANGED <<db, savepoint, writer, job>>
    BY <1>5 DEF Supersede, Goto
  <2>2. tx = savepoint
    BY <2>1 DEF PublicationInv, StageInv
  <2>3. Superseded(tx, i, rev)
    BY <1>1, <2>2 DEF Building, Superseded, SettledRow
  <2>4. Superseded(tx', i, rev)
    BY <1>0, <1>1, <2>1, <2>2, <2>3, SupersedeStage
  <2>5. StageInv(r)'
    BY <1>1, <2>1, <2>4
       DEF PublicationInv, StageInv, TypeOK, Publishing, HoldsWriter
  <2> QED
    BY <1>3, <2>1, <2>5 DEF TypeOK
<1>6. CASE MarkCurrent(r)
  <2>1. /\ pc[r] = "mark" /\ pc' = [pc EXCEPT ![r] = "point"]
        /\ CurrentRevisions(tx, i) = {}
        /\ tx' = SetRunStatus(tx, i, rev, "current")
        /\ UNCHANGED <<db, savepoint, writer, job>>
    BY <1>6 DEF MarkCurrent, Goto
  <2>2. Superseded(tx, i, rev)
    BY <2>1 DEF PublicationInv, StageInv
  <2>3. Marked(tx', i, rev)
    BY <1>0, <2>1, <2>2, MarkStage
  <2>4. StageInv(r)'
    BY <1>1, <2>1, <2>3
       DEF PublicationInv, StageInv, TypeOK, Publishing, HoldsWriter
  <2> QED
    BY <1>3, <2>1, <2>4 DEF TypeOK
<1>7. CASE SetPointer(r)
  <2>1. /\ pc[r] = "point" /\ pc' = [pc EXCEPT ![r] = "inputs"]
        /\ tx' = SetCurrentAnalysisRun(tx, i, rev)
        /\ UNCHANGED <<db, savepoint, writer>>
        /\ \A q \in Requests \ {r} : job'[q] = job[q]
    BY <1>7 DEF SetPointer, Goto, TypeOK
  <2>2. Marked(tx, i, rev)
    BY <2>1 DEF PublicationInv, StageInv
  <2>3. ImageSettled(tx')
    BY <1>0, <2>1, <2>2, PointerSettles
  <2>4. StageInv(r)'
    BY <1>1, <2>1, <2>3 DEF StageInv, TypeOK, Publishing, HoldsWriter,
                            ImageSettled, Settled, SettledRow
  <2> QED
    BY <1>3, <2>1, <2>4 DEF TypeOK
<1> QED
  BY <1>2, <1>4, <1>5, <1>6, <1>7

(* The steps that read, wait, give up or move a lock.                      *)
LEMMA ReadingStep ==
    ASSUME TypeOK, JobInv, PublicationInv, NEW r \in Requests,
           \/ Receive(r) \/ InsertRejected(r) \/ AcquireLock(r)
           \/ DetectFails(r) \/ ReadInputs(r) \/ AllAnalysed(r)
           \/ SkipUnchanged(r) \/ InputsChanged(r) \/ ReadRevision(r)
           \/ CreateRejected(r) \/ WriterTimeout(r) \/ ReleaseLock(r)
    PROVE  PublicationInv'
<1>1. /\ pc[r] \notin Publishing
      /\ UNCHANGED <<db, tx, savepoint, writer>>
  BY DEF Receive, ReceiveBatch, ReceiveRecompute, InsertRejected, AcquireLock,
         DetectFails, ReadInputs, AllAnalysed, SkipUnchanged, InputsChanged,
         ReadRevision, CreateRejected, WriterTimeout, ReleaseLock, Publishing
<1>2. \A q \in Requests \ {r} : pc'[q] = pc[q] /\ job'[q] = job[q]
  BY DEF Receive, ReceiveBatch, ReceiveRecompute, InsertRejected, AcquireLock,
         DetectFails, ReadInputs, AllAnalysed, SkipUnchanged, InputsChanged,
         ReadRevision, CreateRejected, WriterTimeout, ReleaseLock, Goto, TypeOK
<1>3. /\ pc'[r] \notin Publishing \cup {"new"}
      /\ HoldsWriter(r)' => writer = r
  <2>1. CASE AcquireLock(r)
    BY <2>1 DEF AcquireLock, Goto, TypeOK, PublicationInv, StageInv,
                HoldsWriter, Publishing
  <2>2. CASE ReceiveRecompute(r)
    <3>1. pc'[r] = "lock"
      BY <2>2 DEF ReceiveRecompute, Goto, TypeOK
    <3>2. job'[r].batch = job[r].batch
      BY <2>2 DEF ReceiveRecompute, TypeOK, Job
    <3>3. pc[r] = "new" /\ job[r].batch = {}
      BY <2>2 DEF ReceiveRecompute, PublicationInv, StageInv
    <3> QED
      BY <3>1, <3>2, <3>3 DEF HoldsWriter, Publishing
  <2>3. CASE ReceiveBatch(r) \/ InsertRejected(r) \/ DetectFails(r)
    BY <2>3 DEF ReceiveBatch, InsertRejected, DetectFails, Goto, TypeOK,
                HoldsWriter, Publishing
  <2>4. CASE ReadInputs(r) \/ AllAnalysed(r) \/ SkipUnchanged(r)
    BY <2>4 DEF ReadInputs, AllAnalysed, SkipUnchanged, Goto, TypeOK,
                HoldsWriter, Publishing
  <2>5. CASE InputsChanged(r) \/ ReadRevision(r) \/ CreateRejected(r)
    BY <2>5 DEF InputsChanged, ReadRevision, CreateRejected, Goto, TypeOK,
                HoldsWriter, Publishing
  <2>6. CASE WriterTimeout(r) \/ ReleaseLock(r)
    BY <2>6 DEF WriterTimeout, ReleaseLock, Goto, TypeOK, HoldsWriter,
                Publishing
  <2> QED
    BY <2>1, <2>2, <2>3, <2>4, <2>5, <2>6 DEF Receive
<1> QED
  BY <1>1, <1>2, <1>3, QuietStep

(* Every step of the system keeps the publication invariant.               *)
LEMMA PublicationStep ==
    TypeOK /\ JobInv /\ PublicationInv /\ [Next]_vars => PublicationInv'
<1> SUFFICES ASSUME TypeOK, JobInv, PublicationInv, [Next]_vars
             PROVE  PublicationInv'
  OBVIOUS
<1>1. ASSUME NEW r \in Requests, Receive(r) \/ Step(r)
      PROVE  PublicationInv'
  BY <1>1, SessionStep, PublishingStep, ReadingStep DEF Step
<1>2. CASE Crash
  <2>1. /\ db' = db /\ tx' = db /\ writer' = NoRequest /\ job' = job
        /\ \A q \in Requests : pc'[q] \in {"new", "done"}
        /\ \A q \in Requests : pc'[q] = "new" => pc[q] = "new"
    BY <1>2 DEF Crash, TypeOK
  <2>2. \A q \in Requests : StageInv(q)'
    BY <2>1, NoRequestAssumption
       DEF PublicationInv, StageInv, Publishing, HoldsWriter
  <2> QED
    BY <2>1, <2>2 DEF PublicationInv
<1>3. CASE EditCatalogue \/ UNCHANGED vars
  <2>1. UNCHANGED <<db, tx, savepoint, writer, pc, job>>
    BY <1>3 DEF EditCatalogue, vars
  <2>2. \A q \in Requests : StageInv(q)' = StageInv(q)
    BY ONLY <2>1 DEF StageInv, HoldsWriter, ImageSettled, Settled, SettledRow,
                     OthersSettled, Building, Superseded, Marked
  <2>3. ImageSettled(db)' = ImageSettled(db)
    BY ONLY <2>1 DEF ImageSettled, Settled, SettledRow
  <2> QED
    BY <2>1, <2>2, <2>3 DEF PublicationInv
<1> QED
  BY <1>1, <1>2, <1>3 DEF Next, Idle

(* The inductive invariant of the publication holds throughout.            *)
LEMMA PublicationInvariant == Spec => []PublicationInv
<1>1. Init => PublicationInv
  BY InitPublication
<1>2. TypeOK /\ JobInv /\ PublicationInv /\ [Next]_vars => PublicationInv'
  BY PublicationStep
<1> QED
  BY <1>1, <1>2, TypeCorrect, PTL DEF Spec

(* An incident's pointer always names its one current run, if it names any: *)
(* the promise of _atomic_publish to every reader.                          *)
THEOREM PointerIsAlwaysCurrent == Spec => []PointerIsCurrent
<1>1. TypeOK /\ PublicationInv => PointerIsCurrent
  BY DEF TypeOK, PublicationInv, ImageSettled, Settled, SettledRow,
         PointerIsCurrent, CurrentRevisions, Image
<1> QED
  BY <1>1, TypeCorrect, PublicationInvariant, PTL

(* No failure, timeout or crash leaves a committed run 'building'.          *)
THEOREM NeverCommittedBuilding == Spec => []NoCommittedBuilding
<1>1. PublicationInv => NoCommittedBuilding
  BY DEF PublicationInv, ImageSettled, Settled, SettledRow,
         NoCommittedBuilding
<1> QED
  BY <1>1, PublicationInvariant, PTL

-----------------------------------------------------------------------------
(***************************************************************************)
(* AnalysisPublication implements RevisionLog, for any number of requests,  *)
(* incidents, events and catalogue edits.                                  *)
(*                                                                         *)
(* A commit is one step of the log, but it is prepared by many: HistoryInv  *)
(* says, for each place a request can be in, what its image would add to    *)
(* the log if it were committed, and what its stale reads are still worth.  *)
(* A publication is safe although the pointer, the inputs and the revision  *)
(* of a recompute are read before it holds the writer lock: it passes the   *)
(* partial unique index only if the pointer it loaded is still the          *)
(* committed one, and then no run was published since.                     *)
(***************************************************************************)

IsPublished(run) == run.status \in {"current", "superseded"}

-----------------------------------------------------------------------------
(* What an image adds to the log of another.                               *)

KeepsRows(old, new, i) ==
    \A k \in 1..Len(old.runs[i]) :
        /\ new.runs[i][k].fp = old.runs[i][k].fp
        /\ IsPublished(new.runs[i][k]) <=> IsPublished(old.runs[i][k])

Leaves(old, new, i) ==
    /\ Len(new.runs[i]) = Len(old.runs[i])
    /\ KeepsRows(old, new, i)
    /\ new.current[i] = old.current[i]

AppendsOne(old, new, i) ==
    /\ Len(new.runs[i]) = Len(old.runs[i]) + 1
    /\ KeepsRows(old, new, i)

LastRun(im, i) == im.runs[i][Len(im.runs[i])]

AddsFailed(old, new, i) ==
    /\ AppendsOne(old, new, i)
    /\ ~IsPublished(LastRun(new, i))
    /\ new.current[i] = old.current[i]

(* Inputs fp extend those of the run that is served.                       *)
ExtendsServed(im, i, fp) ==
    im.current[i] # 0 => Revisions!Extends(fp, im.runs[i][im.current[i]].fp)

AddsPublished(old, new, i) ==
    /\ AppendsOne(old, new, i)
    /\ IsPublished(LastRun(new, i))
    /\ ExtendsServed(old, i, LastRun(new, i).fp)
    /\ new.current[i] = Len(new.runs[i])

AddsAtMostOne(old, new, i) ==
    Leaves(old, new, i) \/ AddsFailed(old, new, i) \/ AddsPublished(old, new, i)

AttachedGrows(old, new) ==
    \A i \in Incidents : old.attached[i] \subseteq new.attached[i]

Continues(old, new) ==
    /\ AttachedGrows(old, new)
    /\ \A i \in Incidents : AddsAtMostOne(old, new, i)

(* The inputs of every run are attached and of a version that was reached.  *)
Covered(im) ==
    \A i \in Incidents : \A k \in 1..Len(im.runs[i]) :
        /\ im.runs[i][k].fp.events \subseteq im.attached[i]
        /\ im.runs[i][k].fp.version <= version

-----------------------------------------------------------------------------
(* What a recompute loaded without a lock: one incident, whose pointer can  *)
(* only have advanced since.                                               *)
LoadedInv(r) ==
    writer # r =>
        /\ pc[r] \in {"lock", "inputs"} =>
              /\ \A i, j \in job[r].todo : i = j
              /\ \A i \in job[r].todo : job[r].loaded <= db.current[i]
        /\ pc[r] \in {"compare", "revision", "create"} => job[r].todo = {}

(* The inputs that were read extend those of the loaded run, and differ     *)
(* from them unless another run has replaced it.                           *)
InputsInv(r) ==
    LET i == job[r].inc
        loaded == job[r].loaded
        fp == job[r].fp
    IN pc[r] \in Analysing =>
        /\ i \notin job[r].todo
        /\ loaded <= db.current[i]
        /\ fp.events \subseteq View(r).attached[i]
        /\ fp.version <= version
        /\ loaded # 0 =>
              /\ db.runs[i][loaded].fp.events \subseteq fp.events
              /\ db.runs[i][loaded].fp.version <= fp.version
              /\ pc[r] # "compare" /\ db.current[i] = loaded =>
                    db.runs[i][loaded].fp # fp

(* The session of the writer, between two publications: no more than one    *)
(* attempt of each incident, and none yet of those still to analyse.        *)
SessionInv(r) ==
    writer = r =>
        /\ pc[r] \notin {"new", "insert", "done"}
        /\ Covered(tx)
        /\ \A i \in job[r].todo : Leaves(db, tx, i)
        /\ pc[r] \in {"lock", "detect"} =>
              \A i \in Incidents : Leaves(db, tx, i)
        /\ pc[r] \in {"compare", "revision", "create"} =>
              Leaves(db, tx, job[r].inc)
        /\ pc[r] \notin Publishing => Continues(db, tx)

(* The savepoint has the building run and nothing else that is new for its  *)
(* incident.                                                               *)
SavepointInv(r) ==
    LET i == job[r].inc
    IN pc[r] \in Publishing =>
        /\ Covered(savepoint)
        /\ AttachedGrows(db, savepoint)
        /\ \A j \in Incidents \ {i} : AddsAtMostOne(db, savepoint, j)
        /\ AppendsOne(db, savepoint, i)
        /\ savepoint.current[i] = db.current[i]
        /\ LastRun(savepoint, i).fp = job[r].fp

(* Two images that differ in the statuses of one incident's runs only.      *)
DifferInStatus(old, new, i) ==
    /\ new.attached = old.attached
    /\ new.current = old.current
    /\ \A j \in Incidents \ {i} : new.runs[j] = old.runs[j]
    /\ Len(new.runs[i]) = Len(old.runs[i])
    /\ \A k \in 1..Len(old.runs[i]) : new.runs[i][k].fp = old.runs[i][k].fp

(* The publication since the savepoint: the loaded run is superseded, and   *)
(* once the new run is marked it was the served one.                        *)
PublishingInv(r) ==
    LET i == job[r].inc
        loaded == job[r].loaded
    IN /\ pc[r] = "mark" =>
            /\ DifferInStatus(savepoint, tx, i)
            /\ \A k \in 1..(job[r].rev - 1) :
                  tx.runs[i][k].status = IF k = loaded THEN "superseded"
                                         ELSE savepoint.runs[i][k].status
       /\ pc[r] = "point" =>
            /\ DifferInStatus(savepoint, tx, i)
            /\ KeepsRows(db, tx, i)
            /\ ExtendsServed(db, i, job[r].fp)

RequestHistory(r) ==
    /\ LoadedInv(r)
    /\ InputsInv(r)
    /\ SessionInv(r)
    /\ SavepointInv(r)
    /\ PublishingInv(r)

HistoryInv ==
    /\ Covered(db)
    /\ \A r \in Requests : RequestHistory(r)

-----------------------------------------------------------------------------
(* Facts about the statements on an image, beside those of                  *)
(* AnalysisPublicationProofs.                                              *)

(* An update of a run's status changes nothing but a status.               *)
LEMMA SetRunStatusDiffers ==
    ASSUME NEW im \in Image, NEW i \in Incidents, NEW r \in Nat,
           NEW s \in RunStatus
    PROVE  DifferInStatus(im, SetRunStatus(im, i, r, s), i)
<1> DEFINE old == im.runs[i]
           rows == [old EXCEPT ![r].status = s]
           new == SetRunStatus(im, i, r, s)
<1>1. old \in Seq(Run) /\ DOMAIN old = 1..Len(old)
  BY DEF Image
<1>2. \A k \in 1..Len(old) : old[k] \in Run
  BY <1>1, ElementOfSeq
<1>3. \A k \in 1..Len(old) : rows[k].fp = old[k].fp
  BY <1>1, <1>2 DEF Run
<1>4. new = [im EXCEPT !.runs = [im.runs EXCEPT ![i] = rows]]
  BY DEF SetRunStatus, Image
<1>5. new.attached = im.attached /\ new.runs[i] = rows
  BY <1>4 DEF Image
<1>6. /\ new.current = im.current
      /\ \A j \in Incidents : j # i => new.runs[j] = im.runs[j]
      /\ Len(new.runs[i]) = Len(im.runs[i])
  BY SetRunStatusFacts
<1> QED
  BY <1>3, <1>5, <1>6 DEF DifferInStatus

(* What one run's status is after the update.                              *)
LEMMA SetRunStatusOf ==
    ASSUME NEW im \in Image, NEW i \in Incidents, NEW r \in Nat,
           NEW s \in RunStatus, NEW k \in 1..Len(im.runs[i])
    PROVE  LET row == SetRunStatus(im, i, r, s).runs[i][k] IN
           /\ k = r => row.status = s
           /\ k # r => row.status = im.runs[i][k].status
  BY SetRunStatusFacts

(* Marking a run failed fails that run only.                               *)
LEMMA MarkFailedOf ==
    ASSUME NEW im \in Image, NEW i \in Incidents, NEW r \in Nat
    PROVE  \A k \in 1..Len(im.runs[i]) :
              LET row == SetRunStatus(im, i, r, "failed").runs[i][k] IN
              /\ k = r => row.status = "failed"
              /\ k # r => row.status = im.runs[i][k].status
  BY SetRunStatusFacts DEF RunStatus

(* The INSERT appends the building run with the inputs that were read.      *)
LEMMA InsertBuildingAppends ==
    ASSUME NEW im \in Image, NEW i \in Incidents, NEW fp \in Fingerprint
    PROVE  LET new == InsertBuilding(im, i, fp) IN
           /\ new.attached = im.attached
           /\ AppendsOne(im, new, i)
           /\ LastRun(new, i).fp = fp
<1> DEFINE old == im.runs[i]
           row == [status |-> "building", fp |-> fp]
           rows == Append(old, row)
           new == InsertBuilding(im, i, fp)
<1>1. old \in Seq(Run) /\ row \in Run
  BY DEF Image, Run, RunStatus
<1>2. /\ Len(rows) = Len(old) + 1
      /\ \A k \in 1..Len(old) : rows[k] = old[k]
      /\ rows[Len(old) + 1] = row
  BY <1>1
<1>3. new = [im EXCEPT !.runs = [im.runs EXCEPT ![i] = rows]]
  BY DEF InsertBuilding, Image
<1> HIDE DEF rows
<1>4. new.attached = im.attached /\ new.runs[i] = rows
  BY <1>3 DEF Image
<1> HIDE DEF new, row
<1>5. row.fp = fp
  BY DEF row
<1>6. LastRun(new, i).fp = fp
  BY <1>2, <1>4, <1>5 DEF LastRun
<1>7. AppendsOne(im, new, i)
  BY <1>2, <1>4 DEF AppendsOne, KeepsRows
<1> QED
  BY <1>4, <1>6, <1>7 DEF new

(* Events are only ever added to an incident.                              *)
LEMMA AttachGrows ==
    ASSUME NEW im \in Image, NEW batch \in SUBSET Events,
           NEW a \in Attachments(im, batch)
    PROVE  AttachedGrows(im, Attach(im, a.affected, a.added))
  BY DEF AttachedGrows, Attach, Image

(* Neither storing events nor moving a pointer attaches any.               *)
LEMMA QuietStatements ==
    ASSUME NEW im \in Image
    PROVE  /\ \A E : StoreEvents(im, E).attached = im.attached
           /\ \A i, r : SetCurrentAnalysisRun(im, i, r).attached = im.attached
  BY DEF StoreEvents, SetCurrentAnalysisRun, Image

-----------------------------------------------------------------------------
(* Facts about what an image adds.                                         *)

(* The runs of an incident are counted by a natural number.                *)
LEMMA LenRuns ==
    ASSUME NEW im \in Image, NEW i \in Incidents
    PROVE  /\ Len(im.runs[i]) \in Nat
           /\ im.current[i] \in Nat
           /\ \A k \in 1..Len(im.runs[i]) : im.runs[i][k] \in Run
  BY ElementOfSeq DEF Image

(* An image adds nothing to itself, nor to one with the same runs and       *)
(* pointers.                                                               *)
LEMMA SameRunsLeave ==
    ASSUME NEW old, NEW new, new.runs = old.runs, new.current = old.current
    PROVE  \A i \in Incidents : Leaves(old, new, i)
  BY DEF Leaves, KeepsRows

(* Committing nothing continues the database.                               *)
LEMMA ContinuesItself ==
    ASSUME NEW im
    PROVE  Continues(im, im)
  BY SameRunsLeave DEF Continues, AttachedGrows, AddsAtMostOne

(* What an image adds depends on the runs and pointers only.               *)
LEMMA AddsByRuns ==
    ASSUME NEW old, NEW mid, NEW new, NEW i,
           new.runs[i] = mid.runs[i], new.current[i] = mid.current[i]
    PROVE  /\ Leaves(old, mid, i) => Leaves(old, new, i)
           /\ AddsAtMostOne(old, mid, i) => AddsAtMostOne(old, new, i)
  BY DEF Leaves, AddsAtMostOne, AddsFailed, AddsPublished, AppendsOne,
         KeepsRows, LastRun

(* A status says nothing of the inputs.                                    *)
LEMMA CoveredByStatus ==
    ASSUME NEW old, NEW new, NEW i \in Incidents,
           Covered(old), DifferInStatus(old, new, i)
    PROVE  Covered(new)
<1>1. ASSUME NEW j \in Incidents, NEW k \in 1..Len(new.runs[j])
      PROVE  /\ k \in 1..Len(old.runs[j])
             /\ new.runs[j][k].fp = old.runs[j][k].fp
             /\ new.attached = old.attached
  <2>1. CASE j = i
    BY <2>1 DEF DifferInStatus
  <2>2. CASE j # i
    BY <2>2 DEF DifferInStatus
  <2> QED
    BY <2>1, <2>2
<1> QED
  BY <1>1 DEF Covered

(* A pointer never goes back, and what was recorded of a run stays.         *)
LEMMA ContinuesKeeps ==
    ASSUME NEW old \in Image, NEW new \in Image, ImageSettled(old),
           Continues(old, new), NEW i \in Incidents
    PROVE  /\ old.attached[i] \subseteq new.attached[i]
           /\ old.current[i] <= new.current[i]
           /\ old.current[i] \in 0..Len(old.runs[i])
           /\ Len(old.runs[i]) <= Len(new.runs[i])
           /\ KeepsRows(old, new, i)
<1>1. old.attached[i] \subseteq new.attached[i]
  BY DEF Continues, AttachedGrows
<1>2. /\ Len(old.runs[i]) \in Nat
      /\ old.current[i] \in 0..Len(old.runs[i])
  BY LenRuns DEF ImageSettled, Settled
<1>3. AddsAtMostOne(old, new, i)
  BY DEF Continues
<1> QED
  BY <1>1, <1>2, <1>3
     DEF AddsAtMostOne, Leaves, AddsFailed, AddsPublished, AppendsOne

-----------------------------------------------------------------------------
(* The steps of the system.                                                *)

(* No request is in flight and no run exists.                              *)
LEMMA InitHistory == Init => HistoryInv
<1> SUFFICES ASSUME Init PROVE HistoryInv
  OBVIOUS
<1>1. Covered(db)
  BY DEF Init, EmptyImage, Covered
<1>2. ASSUME NEW r \in Requests PROVE RequestHistory(r)
  BY NoRequestAssumption
     DEF Init, RequestHistory, LoadedInv, InputsInv, SessionInv, SavepointInv,
         PublishingInv, Analysing, Publishing
<1> QED
  BY <1>1, <1>2 DEF HistoryInv

(* What holds of request q survives the steps of the others: a commit only  *)
(* adds to what q has read, and nobody else commits while q writes.         *)
LEMMA OtherHistory ==
    ASSUME TypeOK, TypeOK', JobInv, PublicationInv, HistoryInv,
           NEW q \in Requests,
           Continues(db, db'), version <= version',
           pc'[q] = pc[q], job'[q] = job[q],
           \/ writer # q /\ writer' # q
           \/ UNCHANGED <<db, tx, savepoint, writer>>
    PROVE  RequestHistory(q)'
<1>0. /\ RequestHistory(q)
      /\ db \in Image /\ db' \in Image
      /\ tx \in Image /\ savepoint \in Image
      /\ version \in Nat /\ version' \in Nat
      /\ job[q] \in Job
      /\ pc[q] \in Analysing => job[q].inc \in Incidents
      /\ ImageSettled(db)
  BY MaxVersionAssumption DEF TypeOK, JobInv, HistoryInv, PublicationInv
<1>1. CASE UNCHANGED <<db, tx, savepoint, writer>>
  <2>1. ASSUME NEW im \in Image, Covered(im)
        PROVE  \A i \in Incidents : \A k \in 1..Len(im.runs[i]) :
                  /\ im.runs[i][k].fp.events \subseteq im.attached[i]
                  /\ im.runs[i][k].fp.version <= version'
    BY <1>0, <2>1, LenRuns DEF Covered, Run, Fingerprint
  <2>2. LoadedInv(q)' /\ PublishingInv(q)'
    BY <1>0, <1>1 DEF RequestHistory, LoadedInv, PublishingInv
  <2>3. InputsInv(q)'
    <3>1. InputsInv(q) /\ View(q)' = View(q)
      BY <1>0, <1>1 DEF RequestHistory, View
    <3>2. job[q].fp.version \in Nat
      BY <1>0 DEF Job, Fingerprint
    <3>3. job[q].fp.version <= version => job[q].fp.version <= version'
      BY <1>0, <3>2
    <3> QED
      BY <1>1, <3>1, <3>3 DEF InputsInv
  <2>4. SessionInv(q)'
    <3>1. writer = q => Covered(tx)'
      BY <1>0, <1>1, <2>1 DEF RequestHistory, SessionInv, Covered
    <3> QED
      BY <1>0, <1>1, <3>1 DEF RequestHistory, SessionInv
  <2>5. SavepointInv(q)'
    <3>1. pc[q] \in Publishing => Covered(savepoint)'
      BY <1>0, <1>1, <2>1 DEF RequestHistory, SavepointInv, Covered
    <3> QED
      BY <1>0, <1>1, <3>1 DEF RequestHistory, SavepointInv
  <2> QED
    BY <2>2, <2>3, <2>4, <2>5 DEF RequestHistory
<1>2. CASE writer # q /\ writer' # q
  <2>1. pc[q] \notin Publishing
    BY <1>2 DEF PublicationInv, StageInv
  <2>2. SessionInv(q)' /\ SavepointInv(q)' /\ PublishingInv(q)'
    BY <1>2, <2>1 DEF SessionInv, SavepointInv, PublishingInv, Publishing
  <2>3. \A i \in Incidents :
           /\ db.attached[i] \subseteq db'.attached[i]
           /\ db.current[i] \in Nat /\ db'.current[i] \in Nat
           /\ db.current[i] <= db'.current[i]
           /\ db.current[i] \in 0..Len(db.runs[i])
           /\ KeepsRows(db, db', i)
    BY <1>0, ContinuesKeeps, LenRuns
  <2>4. job[q].loaded \in Nat /\ job[q].todo \subseteq Incidents
    BY <1>0 DEF Job
  <2>5. LoadedInv(q)'
    <3>1. ASSUME NEW i \in Incidents, job[q].loaded <= db.current[i]
          PROVE  job[q].loaded <= db'.current[i]
      BY <2>3, <2>4, <3>1
    <3> QED
      BY <1>0, <1>2, <2>4, <3>1 DEF RequestHistory, LoadedInv
  <2>6. InputsInv(q)'
    <3> DEFINE i == job[q].inc
               loaded == job[q].loaded
    <3> SUFFICES ASSUME pc[q] \in Analysing PROVE InputsInv(q)'
      BY DEF InputsInv
    <3>1. i \in Incidents /\ View(q) = db /\ View(q)' = db'
      BY <1>0, <1>2 DEF View
    <3>2. /\ i \notin job[q].todo
          /\ loaded <= db.current[i]
          /\ job[q].fp.events \subseteq db.attached[i]
          /\ job[q].fp.version <= version
          /\ loaded # 0 =>
              /\ db.runs[i][loaded].fp.events \subseteq job[q].fp.events
              /\ db.runs[i][loaded].fp.version <= job[q].fp.version
              /\ pc[q] # "compare" /\ db.current[i] = loaded =>
                    db.runs[i][loaded].fp # job[q].fp
      BY <1>0, <3>1 DEF RequestHistory, InputsInv
    <3>3. job[q].fp.version \in Nat
      BY <1>0 DEF Job, Fingerprint
    <3>4. loaded # 0 => loaded \in 1..Len(db.runs[i])
      <4>1. loaded \in Nat
        BY <1>0 DEF Job
      <4>2. loaded <= db.current[i]
        BY <3>2
      <4>3. db.current[i] \in 0..Len(db.runs[i])
        BY <1>0, <3>1 DEF ImageSettled, Settled
      <4>4. Len(db.runs[i]) \in Nat
        BY <1>0, <3>1, LenRuns
      <4> QED
        BY ONLY <4>1, <4>2, <4>3, <4>4
    <3>5. loaded # 0 => db'.runs[i][loaded].fp = db.runs[i][loaded].fp
      BY <2>3, <3>1, <3>4 DEF KeepsRows
    <3>6. loaded <= db'.current[i] /\ (db'.current[i] = loaded =>
                                         db.current[i] = loaded)
      BY <2>3, <2>4, <3>1, <3>2, SMTT(30)
    <3>7. job[q].fp.version <= version'
      BY <1>0, <3>2, <3>3, SMTT(30)
    <3>8. job[q].fp.events \subseteq db'.attached[i]
      BY <2>3, <3>1, <3>2
    <3> QED
      BY <3>1, <3>2, <3>5, <3>6, <3>7, <3>8 DEF InputsInv
  <2> QED
    BY <2>2, <2>5, <2>6 DEF RequestHistory
<1> QED
  BY <1>1, <1>2

(* A step of request r preserves the invariant when it does for r.         *)
LEMMA OwnHistory ==
    ASSUME TypeOK, TypeOK', JobInv, PublicationInv, HistoryInv,
           NEW r \in Requests,
           Continues(db, db'), Covered(db)', version' = version,
           \A q \in Requests \ {r} :
              /\ pc'[q] = pc[q] /\ job'[q] = job[q]
              /\ \/ writer # q /\ writer' # q
                 \/ UNCHANGED <<db, tx, savepoint, writer>>,
           RequestHistory(r)'
    PROVE  HistoryInv'
<1>1. version <= version'
  BY MaxVersionAssumption DEF TypeOK
<1>2. ASSUME NEW q \in Requests \ {r} PROVE RequestHistory(q)'
  <2>1. /\ pc'[q] = pc[q] /\ job'[q] = job[q]
        /\ \/ writer # q /\ writer' # q
           \/ UNCHANGED <<db, tx, savepoint, writer>>
    OBVIOUS
  <2> QED
    BY ONLY TypeOK, TypeOK', JobInv, PublicationInv, HistoryInv,
            Continues(db, db'), q \in Requests, <1>1, <2>1, OtherHistory
<1> QED
  BY <1>2 DEF HistoryInv

(* A step that writes no image.                                            *)
LEMMA QuietHistory ==
    ASSUME TypeOK, TypeOK', JobInv, PublicationInv, HistoryInv,
           NEW r \in Requests,
           UNCHANGED <<db, tx, savepoint, writer, version>>,
           \A q \in Requests \ {r} : pc'[q] = pc[q] /\ job'[q] = job[q],
           RequestHistory(r)'
    PROVE  HistoryInv' /\ Continues(db, db')
<1>1. Continues(db, db')
  BY ContinuesItself
<1>2. Covered(db)'
  BY DEF HistoryInv, Covered
<1> QED
  BY <1>1, <1>2, OwnHistory

(* Requests that give up, or have nothing left to analyse.                 *)
LEMMA EndingStep ==
    ASSUME TypeOK, TypeOK', JobInv, PublicationInv, HistoryInv,
           NEW r \in Requests,
           \/ ReceiveBatch(r) \/ InsertRejected(r) \/ DetectFails(r)
           \/ AllAnalysed(r) \/ CreateRejected(r) \/ WriterTimeout(r)
           \/ ReleaseLock(r)
    PROVE  HistoryInv' /\ Continues(db, db')
<1>1. /\ UNCHANGED <<db, tx, savepoint, writer, version>>
      /\ \A q \in Requests \ {r} : pc'[q] = pc[q] /\ job'[q] = job[q]
  BY DEF ReceiveBatch, InsertRejected, DetectFails, AllAnalysed,
         CreateRejected, WriterTimeout, ReleaseLock, Goto, TypeOK
<1>2. job[r] \in Job
  BY DEF TypeOK
<1>3. job'[r].todo = job[r].todo
  BY <1>2 DEF ReceiveBatch, InsertRejected, DetectFails, AllAnalysed,
              CreateRejected, WriterTimeout, ReleaseLock, TypeOK, Job
<1>4. /\ pc[r] \notin Publishing
      /\ \/ pc[r] = "new" /\ pc'[r] = "insert"
         \/ pc'[r] \in {"unlock", "finish"}
  BY DEF ReceiveBatch, InsertRejected, DetectFails, AllAnalysed,
         CreateRejected, WriterTimeout, ReleaseLock, Goto, TypeOK, Publishing
<1>5. RequestHistory(r)
  BY DEF HistoryInv
<1>6. LoadedInv(r)' /\ InputsInv(r)' /\ SavepointInv(r)' /\ PublishingInv(r)'
  BY <1>4 DEF LoadedInv, InputsInv, SavepointInv, PublishingInv, Publishing,
              Analysing
<1>7. SessionInv(r)'
  <2>1. Covered(tx)' <=> Covered(tx)
    BY <1>1 DEF Covered
  <2> QED
    BY <1>1, <1>3, <1>4, <1>5, <2>1, SMTT(30) DEF RequestHistory, SessionInv
<1> QED
  BY <1>1, <1>6, <1>7, QuietHistory DEF RequestHistory

(* A recompute loads the pointer and takes the lock.                       *)
LEMMA LoadingStep ==
    ASSUME TypeOK, TypeOK', JobInv, PublicationInv, HistoryInv,
           NEW r \in Requests, ReceiveRecompute(r) \/ AcquireLock(r)
    PROVE  HistoryInv' /\ Continues(db, db')
<1>1. /\ UNCHANGED <<db, tx, savepoint, writer, version>>
      /\ \A q \in Requests \ {r} : pc'[q] = pc[q] /\ job'[q] = job[q]
      /\ pc[r] \in {"new", "lock"}
      /\ pc'[r] \in {"lock", "inputs", "detect"}
      /\ pc[r] = "new" => pc'[r] = "lock"
  BY DEF ReceiveRecompute, AcquireLock, Goto, TypeOK
<1>2. /\ job[r] \in Job
      /\ RequestHistory(r)
      /\ \A i \in Incidents : db.current[i] \in Nat
  BY LenRuns DEF TypeOK, HistoryInv
<1>3. InputsInv(r)' /\ SavepointInv(r)' /\ PublishingInv(r)'
  BY <1>1 DEF InputsInv, SavepointInv, PublishingInv, Publishing, Analysing
<1>4. CASE ReceiveRecompute(r)
  <2>1. PICK i \in Incidents :
           job' = [job EXCEPT ![r].todo = {i}, ![r].loaded = db.current[i]]
    BY <1>4 DEF ReceiveRecompute
  <2>2. job'[r].todo = {i} /\ job'[r].loaded = db.current[i]
    BY <1>2, <2>1 DEF TypeOK, Job
  <2>3. writer # r
    BY <1>2, <1>4 DEF ReceiveRecompute, RequestHistory, SessionInv
  <2>4. LoadedInv(r)'
    <3>1. pc'[r] = "lock"
      BY <1>4 DEF ReceiveRecompute, Goto, TypeOK
    <3>2. db'.current[i] = job'[r].loaded /\ job'[r].loaded \in Nat
      BY <1>1, <1>2, <2>2
    <3> QED
      BY <2>2, <3>1, <3>2 DEF LoadedInv
  <2>5. SessionInv(r)'
    BY <1>1, <2>3 DEF SessionInv
  <2> QED
    BY <1>1, <1>3, <2>4, <2>5, QuietHistory DEF RequestHistory
<1>5. CASE AcquireLock(r)
  <2>1. job' = job /\ pc[r] = "lock"
    BY <1>5 DEF AcquireLock
  <2>2. LoadedInv(r)'
    BY <1>1, <1>2, <1>5, <2>1 DEF AcquireLock, RequestHistory, LoadedInv
  <2>3. SessionInv(r)'
    <3>1. Covered(tx)' <=> Covered(tx)
      BY <1>1 DEF Covered
    <3>2. pc'[r] \in {"inputs", "detect"}
      BY <1>5 DEF AcquireLock, Goto, TypeOK
    <3> QED
      BY <1>1, <1>2, <2>1, <3>1, <3>2, SMTT(30)
         DEF RequestHistory, SessionInv, Publishing
  <2> QED
    BY <1>1, <1>3, <2>2, <2>3, QuietHistory DEF RequestHistory
<1> QED
  BY <1>4, <1>5

(* Whatever run was current when the pointer was loaded, the inputs that    *)
(* are read now cover its inputs.                                          *)
LEMMA ReadInputsStep ==
    ASSUME TypeOK, TypeOK', JobInv, PublicationInv, HistoryInv,
           NEW r \in Requests, ReadInputs(r)
    PROVE  HistoryInv' /\ Continues(db, db')
<1>1. /\ UNCHANGED <<db, tx, savepoint, writer, version>>
      /\ \A q \in Requests \ {r} : pc'[q] = pc[q] /\ job'[q] = job[q]
      /\ pc[r] = "inputs" /\ pc'[r] = "compare"
  BY DEF ReadInputs, Goto, TypeOK
<1>2. /\ job[r] \in Job
      /\ RequestHistory(r)
      /\ db \in Image /\ tx \in Image
      /\ ImageSettled(db) /\ Covered(db)
      /\ version \in Nat
  BY MaxVersionAssumption DEF TypeOK, HistoryInv, PublicationInv
<1>3. PICK i \in job[r].todo :
        job' = [job EXCEPT
            ![r].inc = i,
            ![r].todo = @ \ {i},
            ![r].loaded = IF writer = r THEN tx.current[i] ELSE @,
            ![r].fp = [events |-> View(r).attached[i], version |-> version]]
  BY DEF ReadInputs
<1>4. i \in Incidents
  BY <1>2 DEF Job
<1>5. /\ job'[r].inc = i
      /\ job'[r].todo = job[r].todo \ {i}
      /\ job'[r].loaded = IF writer = r THEN tx.current[i] ELSE job[r].loaded
      /\ job'[r].fp.events = View(r).attached[i]
      /\ job'[r].fp.version = version
  BY <1>2, <1>3 DEF TypeOK, Job
<1>6. /\ job'[r].loaded \in Nat
      /\ job'[r].loaded <= db.current[i]
      /\ db.attached[i] \subseteq View(r).attached[i]
  <2>1. CASE writer = r
    <3>1. Leaves(db, tx, i) /\ Continues(db, tx)
      BY <1>1, <1>2, <2>1 DEF RequestHistory, SessionInv, Publishing
    <3> QED
      BY <1>2, <1>4, <1>5, <2>1, <3>1, LenRuns
         DEF Leaves, Continues, AttachedGrows, View
  <2>2. CASE writer # r
    BY <1>1, <1>2, <1>5, <2>2 DEF RequestHistory, LoadedInv, View, Job
  <2> QED
    BY <2>1, <2>2
<1>7. ASSUME job'[r].loaded # 0
      PROVE  /\ db.runs[i][job'[r].loaded].fp.events \subseteq db.attached[i]
             /\ db.runs[i][job'[r].loaded].fp.version <= version
  <2>1. db.current[i] \in 0..Len(db.runs[i]) /\ Len(db.runs[i]) \in Nat
    BY <1>2, <1>4, LenRuns DEF ImageSettled, Settled
  <2>2. job'[r].loaded \in 1..Len(db.runs[i])
    BY <1>6, <1>7, <2>1
  <2> QED
    BY <1>2, <1>4, <2>2 DEF Covered
<1>8. InputsInv(r)'
  <2>1. View(r)' = View(r)
    BY <1>1 DEF View
  <2> QED
    <3>1. version <= version
      BY <1>2
    <3> QED
      BY <1>1, <1>5, <1>6, <1>7, <2>1, <3>1 DEF InputsInv
<1>9. LoadedInv(r)'
  BY <1>1, <1>2, <1>5 DEF RequestHistory, LoadedInv
<1>10. SessionInv(r)'
  BY <1>1, <1>2, <1>5 DEF RequestHistory, SessionInv, Covered, Publishing
<1>11. SavepointInv(r)' /\ PublishingInv(r)'
  BY <1>1 DEF SavepointInv, PublishingInv, Publishing
<1> QED
  BY <1>1, <1>8, <1>9, <1>10, <1>11, QuietHistory DEF RequestHistory

(* The steps between reading the inputs and the INSERT, and the engine.     *)
LEMMA ComparingStep ==
    ASSUME TypeOK, TypeOK', JobInv, PublicationInv, HistoryInv,
           NEW r \in Requests,
           \/ SkipUnchanged(r) \/ InputsChanged(r) \/ ReadRevision(r)
           \/ Analyse(r)
    PROVE  HistoryInv' /\ Continues(db, db')
<1>1. /\ UNCHANGED <<db, tx, savepoint, writer, version>>
      /\ \A q \in Requests \ {r} : pc'[q] = pc[q] /\ job'[q] = job[q]
  BY DEF SkipUnchanged, InputsChanged, ReadRevision, Analyse, Goto, TypeOK
<1>2. /\ job[r] \in Job
      /\ RequestHistory(r)
      /\ db \in Image /\ tx \in Image
      /\ ImageSettled(db)
      /\ View(r)' = View(r)
  BY <1>1 DEF TypeOK, HistoryInv, PublicationInv, View
<1>3. /\ job'[r].inc = job[r].inc
      /\ job'[r].todo = job[r].todo
      /\ job'[r].loaded = job[r].loaded
      /\ job'[r].fp = job[r].fp
  BY <1>2 DEF SkipUnchanged, InputsChanged, ReadRevision, Analyse, TypeOK, Job
<1>4. \/ pc[r] = "compare" /\ pc'[r] \in {"inputs", "revision"}
      \/ pc[r] = "revision" /\ pc'[r] = "create"
      \/ pc[r] = "analyse" /\ pc'[r] = "supersede"
  BY DEF SkipUnchanged, InputsChanged, ReadRevision, Analyse, Goto, TypeOK
<1>5. writer = r \/ pc[r] # "analyse"
  BY DEF PublicationInv, StageInv, Publishing
<1>6. LoadedInv(r)'
  BY <1>1, <1>2, <1>3, <1>4, <1>5 DEF RequestHistory, LoadedInv
<1>7. SessionInv(r)'
  BY <1>1, <1>2, <1>3, <1>4 DEF RequestHistory, SessionInv, Covered, Publishing
<1>8. SavepointInv(r)' /\ PublishingInv(r)'
  BY <1>1, <1>2, <1>3, <1>4
     DEF RequestHistory, SavepointInv, PublishingInv, Covered, Publishing
<1>9. ASSUME pc[r] = "compare", pc'[r] = "revision", job[r].loaded # 0,
             db.current[job[r].inc] = job[r].loaded
      PROVE  db.runs[job[r].inc][job[r].loaded].fp # job[r].fp
  <2> DEFINE i == job[r].inc
             c == job[r].loaded
  <2>1. i \in Incidents
    BY <1>9 DEF JobInv, Analysing
  <2>2. ~FingerprintExistsAsCurrent(View(r), i, job[r].fp)
    BY <1>9 DEF SkipUnchanged, InputsChanged, ReadRevision, Analyse, Goto,
                TypeOK
  <2>3. CASE writer # r
    <3>1. c \in 1..Len(db.runs[i])
      BY <1>2, <1>9, <2>1, LenRuns DEF ImageSettled, Settled
    <3>2. c \in CurrentRevisions(db, i)
      BY <1>2, <1>9, <2>1, <3>1
         DEF ImageSettled, Settled, SettledRow, CurrentRevisions
    <3> QED
      BY <2>2, <2>3, <3>2 DEF FingerprintExistsAsCurrent, View
  <2>4. CASE writer = r
    <3>1. Leaves(db, tx, i) /\ ImageSettled(tx)
      BY <1>2, <1>9, <2>4
         DEF RequestHistory, SessionInv, PublicationInv, StageInv, Publishing
    <3>2. tx.current[i] = c /\ c \in 1..Len(tx.runs[i])
      BY <1>2, <1>9, <2>1, <3>1, LenRuns DEF Leaves, ImageSettled, Settled
    <3>3. c \in CurrentRevisions(tx, i)
      BY <2>1, <3>1, <3>2
         DEF ImageSettled, Settled, SettledRow, CurrentRevisions
    <3>4. tx.runs[i][c].fp # job[r].fp
      BY <2>2, <2>4, <3>3 DEF FingerprintExistsAsCurrent, View
    <3> QED
      BY <3>1, <3>2, <3>4 DEF Leaves, KeepsRows
  <2> QED
    BY <2>3, <2>4
<1>10. InputsInv(r)'
  <2> SUFFICES ASSUME pc'[r] \in Analysing PROVE InputsInv(r)'
    BY DEF InputsInv
  <2>1. pc[r] \in Analysing /\ pc'[r] # "compare"
    BY <1>4 DEF Analysing, Publishing
  <2>2. pc[r] = "compare" => pc'[r] = "revision"
    BY <1>4 DEF Analysing, Publishing
  <2>3. InputsInv(r)
    BY <1>2 DEF RequestHistory
  <2>4. /\ job[r].loaded # 0
        /\ db.current[job[r].inc] = job[r].loaded
        => db.runs[job[r].inc][job[r].loaded].fp # job[r].fp
    BY <1>9, <2>1, <2>2, <2>3 DEF InputsInv
  <2> QED
    BY <1>1, <1>2, <1>3, <2>1, <2>3, <2>4 DEF InputsInv
<1> QED
  BY <1>1, <1>6, <1>7, <1>8, <1>10, QuietHistory DEF RequestHistory

(* The writer's steps, once they are known to be right for r.              *)
LEMMA WriterHistory ==
    ASSUME TypeOK, TypeOK', JobInv, PublicationInv, HistoryInv,
           NEW r \in Requests, version' = version,
           writer \in {r, NoRequest}, writer' \in {r, NoRequest},
           \A q \in Requests \ {r} : pc'[q] = pc[q] /\ job'[q] = job[q],
           Continues(db, db'), Covered(db)', RequestHistory(r)'
    PROVE  HistoryInv' /\ Continues(db, db')
<1>1. \A q \in Requests \ {r} : writer # q /\ writer' # q
  BY NoRequestAssumption
<1> QED
  BY <1>1, OwnHistory

(* Storing and attaching events leaves the log alone.                      *)
LEMMA AttachingStep ==
    ASSUME TypeOK, TypeOK', JobInv, PublicationInv, HistoryInv,
           NEW r \in Requests, InsertEvents(r) \/ DetectAndAttach(r)
    PROVE  HistoryInv' /\ Continues(db, db')
<1>1. /\ writer \in {r, NoRequest} /\ writer' = r
      /\ \A q \in Requests \ {r} : pc'[q] = pc[q] /\ job'[q] = job[q]
      /\ pc'[r] \in {"lock", "inputs"}
      /\ UNCHANGED <<db, version>>
  BY DEF InsertEvents, DetectAndAttach, Goto, TypeOK, PublicationInv, StageInv,
         HoldsWriter
<1>2. /\ job[r] \in Job
      /\ RequestHistory(r)
      /\ db \in Image /\ tx \in Image
      /\ Covered(db)
  BY DEF TypeOK, HistoryInv
<1>3. PICK base \in {db, tx} :
        /\ AttachedGrows(base, tx')
        /\ tx'.runs = base.runs
        /\ tx'.current = base.current
        /\ \A i \in Incidents : Leaves(db, base, i)
        /\ AttachedGrows(db, base)
        /\ Covered(base)
  <2>1. CASE InsertEvents(r)
    <3> DEFINE fresh == job[r].batch \ db.stored
    <3>1. tx' = StoreEvents(db, fresh) /\ fresh \in SUBSET Events
      BY <1>2, <2>1 DEF InsertEvents, Job
    <3>2. /\ AttachedGrows(db, tx')
          /\ tx'.runs = db.runs
          /\ tx'.current = db.current
      BY <1>2, <3>1, StoreEventsFacts, QuietStatements DEF AttachedGrows
    <3> QED
      BY <1>2, <3>2, SameRunsLeave DEF AttachedGrows
  <2>2. CASE DetectAndAttach(r)
    <3>1. pc[r] = "detect" /\ writer = r
      BY <2>2 DEF DetectAndAttach, PublicationInv, StageInv, HoldsWriter
    <3>2. PICK a \in Attachments(tx, job[r].batch) :
             tx' = Attach(tx, a.affected, a.added)
      BY <2>2 DEF DetectAndAttach
    <3>3. /\ AttachedGrows(tx, tx')
          /\ tx'.runs = tx.runs
          /\ tx'.current = tx.current
      BY <1>2, <3>2, AttachFacts, AttachGrows DEF Job
    <3> QED
      BY <1>2, <3>1, <3>3
         DEF RequestHistory, SessionInv, Continues, Publishing
  <2> QED
    BY <2>1, <2>2
<1>4. \A i \in Incidents : Leaves(db, tx', i)
  BY <1>3, AddsByRuns
<1>5. Continues(db, tx')
  BY <1>3, <1>4 DEF Continues, AttachedGrows, AddsAtMostOne
<1>6. Covered(tx)'
  BY <1>1, <1>3 DEF Covered, AttachedGrows
<1>7. SessionInv(r)'
  <2>1. job'[r].todo \subseteq Incidents
    BY DEF TypeOK, Job
  <2> QED
    BY <1>1, <1>4, <1>5, <1>6, <2>1
       DEF SessionInv, Continues, AttachedGrows, AddsAtMostOne, Leaves,
           AddsFailed, AddsPublished, AppendsOne, KeepsRows, LastRun,
           ExtendsServed
<1>8. LoadedInv(r)' /\ InputsInv(r)' /\ SavepointInv(r)' /\ PublishingInv(r)'
  BY <1>1 DEF LoadedInv, InputsInv, SavepointInv, PublishingInv, Publishing,
              Analysing
<1>9. Continues(db, db') /\ Covered(db)'
  BY <1>1, <1>2, ContinuesItself DEF Covered
<1> QED
  BY <1>1, <1>7, <1>8, <1>9, WriterHistory DEF RequestHistory

(* The INSERT of the building run: the first write of a recompute.         *)
LEMMA CreateStep ==
    ASSUME TypeOK, TypeOK', JobInv, PublicationInv, HistoryInv,
           NEW r \in Requests, CreateRun(r)
    PROVE  HistoryInv' /\ Continues(db, db')
<1> DEFINE i == job[r].inc
           fp == job[r].fp
<1>1. /\ writer \in {r, NoRequest} /\ writer' = r
      /\ pc[r] = "create" /\ pc' = [pc EXCEPT ![r] = "analyse"]
      /\ job' = job
      /\ UNCHANGED <<db, version>>
      /\ tx' = InsertBuilding(View(r), i, fp) /\ savepoint' = tx'
  BY DEF CreateRun, Goto, WriterBusy
<1>2. /\ job[r] \in Job /\ fp \in Fingerprint
      /\ job[r].todo \subseteq Incidents
      /\ RequestHistory(r)
      /\ db \in Image /\ View(r) \in Image
      /\ Covered(db)
      /\ i \in Incidents
  BY <1>1 DEF TypeOK, HistoryInv, JobInv, Analysing, View, Job
<1>3. /\ Covered(View(r))
      /\ AttachedGrows(db, View(r))
      /\ \A j \in Incidents : AddsAtMostOne(db, View(r), j)
      /\ Leaves(db, View(r), i)
      /\ \A j \in job[r].todo : Leaves(db, View(r), j)
  <2>1. CASE writer = r
    BY <1>1, <1>2, <2>1
       DEF RequestHistory, SessionInv, Continues, View, Publishing
  <2>2. CASE writer # r
    <3>1. \A j \in Incidents : Leaves(db, View(r), j)
      BY <2>2, SameRunsLeave DEF View
    <3> QED
      BY <1>2, <2>2, <3>1 DEF View, AttachedGrows, AddsAtMostOne
  <2> QED
    BY <2>1, <2>2
<1>4. /\ tx'.current = View(r).current
      /\ tx'.attached = View(r).attached
      /\ \A j \in Incidents : j # i => tx'.runs[j] = View(r).runs[j]
      /\ AppendsOne(View(r), tx', i)
      /\ LastRun(tx', i).fp = fp
  BY <1>1, <1>2, InsertBuildingFacts, InsertBuildingAppends
<1>5. Len(View(r).runs[i]) \in Nat
  BY <1>2, LenRuns
<1>6. /\ i \notin job[r].todo
      /\ fp.events \subseteq View(r).attached[i]
      /\ fp.version <= version
  BY <1>1, <1>2 DEF RequestHistory, InputsInv, Analysing
<1>7. Covered(tx)'
  <2>1. ASSUME NEW k \in 1..Len(tx'.runs[i])
        PROVE  /\ tx'.runs[i][k].fp.events \subseteq tx'.attached[i]
               /\ tx'.runs[i][k].fp.version <= version
    <3>1. k \in 1..Len(View(r).runs[i]) \/ k = Len(tx'.runs[i])
      BY <1>4, <1>5 DEF AppendsOne
    <3>2. CASE k \in 1..Len(View(r).runs[i])
      BY <1>2, <1>3, <1>4, <3>2 DEF Covered, AppendsOne, KeepsRows
    <3>3. CASE k = Len(tx'.runs[i])
      BY <1>4, <1>6, <3>3 DEF LastRun
    <3> QED
      BY <3>1, <3>2, <3>3
  <2> QED
    BY <1>1, <1>3, <1>4, <2>1 DEF Covered
<1>8. \A j \in Incidents \ {i} :
         /\ Leaves(db, View(r), j) => Leaves(db, tx', j)
         /\ AddsAtMostOne(db, tx', j)
  BY <1>3, <1>4, AddsByRuns
<1>9. AppendsOne(db, tx', i) /\ tx'.current[i] = db.current[i]
  BY <1>3, <1>4 DEF Leaves, AppendsOne, KeepsRows
<1>10. AttachedGrows(db, tx')
  BY <1>3, <1>4 DEF AttachedGrows
<1>11. pc'[r] = "analyse"
  BY <1>1 DEF TypeOK
<1>12. LoadedInv(r)' /\ PublishingInv(r)'
  BY <1>1, <1>11 DEF LoadedInv, PublishingInv
<1>13. InputsInv(r)'
  <2>1. View(r)' = tx'
    BY <1>1 DEF View
  <2>2. InputsInv(r) /\ pc[r] \in Analysing
    BY <1>1, <1>2 DEF RequestHistory, Analysing
  <2> QED
    BY <1>1, <1>4, <2>1, <2>2 DEF InputsInv
<1>14. SessionInv(r)'
  <2>1. \A j \in job[r].todo : Leaves(db, tx', j)
    BY <1>2, <1>3, <1>6, <1>8
  <2>2. \A j \in job[r].todo : Leaves(db, tx, j)'
    BY <1>1, <2>1 DEF Leaves, KeepsRows
  <2> QED
    BY <1>1, <1>7, <1>11, <2>2 DEF SessionInv, Publishing
<1>15. SavepointInv(r)'
  <2>1. \A j \in Incidents \ {i} : AddsAtMostOne(db, savepoint, j)'
    BY <1>1, <1>8
  <2>2. Covered(savepoint)'
    BY <1>1, <1>7 DEF Covered
  <2> QED
    BY <1>1, <1>4, <1>9, <1>10, <2>1, <2>2 DEF SavepointInv
<1>16. Continues(db, db') /\ Covered(db)'
  BY <1>1, <1>2, ContinuesItself DEF Covered
<1> QED
  BY <1>1, <1>12, <1>13, <1>14, <1>15, <1>16, WriterHistory
     DEF RequestHistory, TypeOK

(* What holds of the writer between the savepoint and the pointer.          *)
LEMMA PublishingFacts ==
    ASSUME TypeOK, JobInv, PublicationInv, HistoryInv,
           NEW r \in Requests, pc[r] \in Publishing
    PROVE  /\ writer = r /\ r # NoRequest
           /\ job[r] \in Job /\ job[r].inc \in Incidents
           /\ job[r].loaded \in Nat /\ job[r].rev \in Nat
           /\ job[r].todo \subseteq Incidents
           /\ db \in Image /\ tx \in Image /\ savepoint \in Image
           /\ Building(savepoint, job[r].inc, job[r].rev)
           /\ Len(db.runs[job[r].inc]) \in Nat
           /\ job[r].rev = Len(db.runs[job[r].inc]) + 1
           /\ job[r].rev = Len(savepoint.runs[job[r].inc])
           /\ RequestHistory(r) /\ Covered(db)
<1>1. /\ job[r] \in Job /\ job[r].inc \in Incidents
      /\ db \in Image /\ tx \in Image /\ savepoint \in Image
      /\ RequestHistory(r) /\ Covered(db)
  BY DEF TypeOK, JobInv, HistoryInv, Analysing
<1>2. /\ job[r].loaded \in Nat /\ job[r].rev \in Nat
      /\ job[r].todo \subseteq Incidents
  BY <1>1 DEF Job
<1>3. writer = r /\ r # NoRequest /\ Building(savepoint, job[r].inc, job[r].rev)
  BY NoRequestAssumption DEF PublicationInv, StageInv
<1>4. /\ job[r].rev = Len(savepoint.runs[job[r].inc])
      /\ job[r].rev = Len(db.runs[job[r].inc]) + 1
  BY <1>1, <1>3 DEF Building, RequestHistory, SavepointInv, AppendsOne
<1> QED
  BY <1>1, <1>2, <1>3, <1>4, LenRuns

(* Changes of status since the savepoint add up.                           *)
LEMMA DifferTransitive ==
    ASSUME NEW old, NEW mid, NEW new, NEW i \in Incidents,
           DifferInStatus(old, mid, i), DifferInStatus(mid, new, i)
    PROVE  DifferInStatus(old, new, i)
  BY DEF DifferInStatus

(* An image has no change of status from itself.                            *)
LEMMA DifferReflexive ==
    ASSUME NEW im, NEW i \in Incidents
    PROVE  DifferInStatus(im, im, i)
  BY DEF DifferInStatus

(* Another status in the writer's image: what the invariant says of its     *)
(* reads, its session and its savepoint is not about statuses.             *)
LEMMA StatusHistory ==
    ASSUME TypeOK, TypeOK', JobInv, PublicationInv, HistoryInv,
           NEW r \in Requests, pc[r] \in Publishing, pc'[r] \in Publishing,
           UNCHANGED <<db, savepoint, writer, version, job>>,
           \A q \in Requests \ {r} : pc'[q] = pc[q],
           DifferInStatus(tx, tx', job[r].inc), PublishingInv(r)'
    PROVE  HistoryInv' /\ Continues(db, db')
<1> DEFINE i == job[r].inc
<1>1. /\ writer = r /\ r # NoRequest
      /\ job[r].todo \subseteq Incidents /\ i \in Incidents
      /\ RequestHistory(r) /\ Covered(db)
  BY PublishingFacts
<1>2. InputsInv(r) /\ pc[r] \in Analysing /\ pc[r] # "compare"
  BY <1>1 DEF RequestHistory, Analysing, Publishing
<1>3. LoadedInv(r)'
  BY <1>1 DEF LoadedInv
<1>4. InputsInv(r)'
  <2>1. View(r) = tx /\ View(r)' = tx'
    BY <1>1 DEF View
  <2> QED
    BY <1>1, <1>2, <2>1 DEF InputsInv, DifferInStatus
<1>5. SessionInv(r)'
  <2>1. Covered(tx) /\ \A j \in job[r].todo : Leaves(db, tx, j)
    BY <1>1 DEF RequestHistory, SessionInv
  <2>2. Covered(tx')
    BY <1>1, <2>1, CoveredByStatus
  <2>3. \A j \in job[r].todo : Leaves(db, tx', j)
    BY <1>1, <1>2, <2>1, AddsByRuns DEF InputsInv, DifferInStatus
  <2>4. Covered(tx)' /\ \A j \in job[r].todo : Leaves(db, tx, j)'
    BY <2>2, <2>3 DEF Covered, Leaves, KeepsRows
  <2> QED
    BY <2>4 DEF SessionInv, Publishing
<1>6. SavepointInv(r)'
  BY <1>1 DEF RequestHistory, SavepointInv, Covered
<1>7. Continues(db, db') /\ Covered(db)'
  BY <1>1, ContinuesItself DEF Covered
<1> QED
  BY <1>1, <1>3, <1>4, <1>5, <1>6, <1>7, WriterHistory DEF RequestHistory

(* run_repo.supersede of the run whose pointer was loaded.                 *)
LEMMA SupersedeHistory ==
    ASSUME TypeOK, TypeOK', JobInv, PublicationInv, HistoryInv,
           NEW r \in Requests, Supersede(r)
    PROVE  HistoryInv' /\ Continues(db, db')
<1> DEFINE i == job[r].inc
           loaded == job[r].loaded
<1>1. /\ pc[r] = "supersede" /\ pc'[r] = "mark"
      /\ \A q \in Requests \ {r} : pc'[q] = pc[q]
      /\ tx' = IF loaded = 0 THEN tx
               ELSE SetRunStatus(tx, i, loaded, "superseded")
      /\ UNCHANGED <<db, savepoint, writer, version, job>>
  BY DEF Supersede, Goto, TypeOK
<1>2. /\ i \in Incidents /\ loaded \in Nat
      /\ tx \in Image /\ "superseded" \in RunStatus
      /\ Len(db.runs[i]) \in Nat /\ job[r].rev = Len(db.runs[i]) + 1
      /\ job[r].rev = Len(savepoint.runs[i])
  BY <1>1, PublishingFacts DEF Publishing, RunStatus
<1>3. tx = savepoint
  BY <1>1 DEF PublicationInv, StageInv
<1>4. DifferInStatus(tx, tx', i)
  BY <1>1, <1>2, DifferReflexive, SetRunStatusDiffers
<1>5. ASSUME NEW k \in 1..(job[r].rev - 1)
      PROVE  tx'.runs[i][k].status = IF k = loaded THEN "superseded"
                                     ELSE savepoint.runs[i][k].status
  <2>1. k \in 1..Len(tx.runs[i])
    BY <1>2, <1>3
  <2>2. CASE loaded = 0
    BY <1>1, <1>3, <2>2
  <2>3. CASE loaded # 0
    <3>1. tx' = SetRunStatus(tx, i, loaded, "superseded")
      BY <1>1, <2>3
    <3>2. /\ k = loaded => tx'.runs[i][k].status = "superseded"
          /\ k # loaded => tx'.runs[i][k].status = tx.runs[i][k].status
      <4>1. /\ i \in Incidents /\ loaded \in Nat /\ tx \in Image
            /\ "superseded" \in RunStatus
        BY <1>2
      <4> QED
        BY <2>1, <3>1, <4>1, SetRunStatusOf, SMTT(30)
    <3> QED
      BY <1>3, <3>2
  <2> QED
    BY <2>2, <2>3
<1>6. PublishingInv(r)'
  BY <1>1, <1>3, <1>4, <1>5 DEF PublishingInv, DifferInStatus
<1> QED
  BY <1>1, <1>4, <1>6, StatusHistory DEF Publishing

(* mark_current passes the partial unique index only if the run that the    *)
(* pointer names is the one that was superseded.                           *)
LEMMA MarkedIsLoaded ==
    ASSUME TypeOK, JobInv, PublicationInv, HistoryInv,
           NEW r \in Requests, MarkCurrent(r)
    PROVE  LET i == job[r].inc
               rev == job[r].rev
               loaded == job[r].loaded
           IN /\ db.current[i] = loaded
              /\ \A k \in 1..(rev - 1) :
                    k = loaded => savepoint.runs[i][k].status = "current"
              /\ \A k \in 1..(rev - 1) :
                    tx'.runs[i][k].status = IF k = loaded THEN "superseded"
                                            ELSE savepoint.runs[i][k].status
              /\ DifferInStatus(tx, tx', i)
              /\ DifferInStatus(savepoint, tx', i)
<1> DEFINE i == job[r].inc
           loaded == job[r].loaded
           rev == job[r].rev
           c == db.current[i]
<1>1. /\ pc[r] = "mark"
      /\ CurrentRevisions(tx, i) = {}
      /\ tx' = SetRunStatus(tx, i, rev, "current")
  BY DEF MarkCurrent
<1>2. /\ i \in Incidents /\ loaded \in Nat /\ rev \in Nat
      /\ tx \in Image /\ savepoint \in Image /\ db \in Image
      /\ "current" \in RunStatus
      /\ Building(savepoint, i, rev)
      /\ Len(db.runs[i]) \in Nat /\ rev = Len(db.runs[i]) + 1
      /\ rev = Len(savepoint.runs[i])
      /\ RequestHistory(r)
  BY <1>1, PublishingFacts DEF Publishing, RunStatus
<1>3. /\ DifferInStatus(savepoint, tx, i)
      /\ \A k \in 1..(rev - 1) :
            tx.runs[i][k].status = IF k = loaded THEN "superseded"
                                   ELSE savepoint.runs[i][k].status
      /\ Len(tx.runs[i]) = rev
  BY <1>1, <1>2 DEF RequestHistory, PublishingInv, DifferInStatus
<1>4. /\ AppendsOne(db, savepoint, i)
      /\ savepoint.current[i] = c
  BY <1>1, <1>2 DEF RequestHistory, SavepointInv, Publishing
<1>5. loaded <= c
  BY <1>1, <1>2 DEF RequestHistory, InputsInv, Analysing, Publishing
<1>6. c \in 0..Len(db.runs[i])
  BY <1>2 DEF PublicationInv, ImageSettled, Settled
<1>7. c = loaded
  <2>1. CASE c = 0
    BY <1>2, <1>5, <1>6, <2>1
  <2>2. CASE c # 0
    <3>1. c \in 1..(rev - 1) /\ c \in 1..Len(tx.runs[i])
      BY <1>2, <1>3, <1>6, <2>2, SMTT(30)
    <3>2. savepoint.runs[i][c].status = "current"
      BY <1>2, <1>4, <3>1 DEF Building, SettledRow
    <3>3. tx.runs[i][c].status # "current"
      BY <1>1, <3>1 DEF CurrentRevisions
    <3> QED
      BY <1>3, <3>1, <3>2, <3>3
  <2> QED
    BY <2>1, <2>2
<1>8. /\ DifferInStatus(tx, tx', i)
      /\ \A k \in 1..(rev - 1) : tx'.runs[i][k].status = tx.runs[i][k].status
  <2>1. DifferInStatus(tx, tx', i)
    BY <1>1, <1>2, SetRunStatusDiffers
  <2>2. ASSUME NEW k \in 1..(rev - 1)
        PROVE  tx'.runs[i][k].status = tx.runs[i][k].status
    <3>1. k \in 1..Len(tx.runs[i]) /\ k # rev
      BY <1>2, <1>3
    <3>2. tx' = SetRunStatus(tx, i, rev, "current")
      BY <1>1
    <3>3. /\ i \in Incidents /\ rev \in Nat
          /\ tx \in Image /\ "current" \in RunStatus
      BY <1>2
    <3>4. k # rev => tx'.runs[i][k].status = tx.runs[i][k].status
      BY <3>1, <3>2, <3>3, SetRunStatusOf, SMTT(30)
    <3> QED
      BY <3>1, <3>4
  <2> QED
    BY <2>1, <2>2
<1>9. DifferInStatus(savepoint, tx', i)
  BY <1>2, <1>3, <1>8, DifferTransitive
<1>10. \A k \in 1..(rev - 1) :
          k = loaded => savepoint.runs[i][k].status = "current"
  BY <1>2, <1>4, <1>7 DEF Building, SettledRow
<1> QED
  BY <1>3, <1>7, <1>8, <1>9, <1>10

(* Then the inputs that were read extend those of the run it replaces.      *)
LEMMA MarkHistory ==
    ASSUME TypeOK, TypeOK', JobInv, PublicationInv, HistoryInv,
           NEW r \in Requests, MarkCurrent(r)
    PROVE  HistoryInv' /\ Continues(db, db')
<1> DEFINE i == job[r].inc
           loaded == job[r].loaded
           rev == job[r].rev
<1>1. /\ pc[r] = "mark" /\ pc'[r] = "point"
      /\ \A q \in Requests \ {r} : pc'[q] = pc[q]
      /\ UNCHANGED <<db, savepoint, writer, version, job>>
  BY DEF MarkCurrent, Goto, TypeOK
<1>2. /\ i \in Incidents /\ loaded \in Nat /\ rev \in Nat
      /\ Len(db.runs[i]) \in Nat /\ rev = Len(db.runs[i]) + 1
      /\ rev = Len(savepoint.runs[i])
      /\ RequestHistory(r)
  BY <1>1, PublishingFacts DEF Publishing
<1>3. AppendsOne(db, savepoint, i)
  BY <1>1, <1>2 DEF RequestHistory, SavepointInv, Publishing
<1>4. /\ loaded # 0 =>
            /\ db.runs[i][loaded].fp.events \subseteq job[r].fp.events
            /\ db.runs[i][loaded].fp.version <= job[r].fp.version
            /\ db.current[i] = loaded =>
                  db.runs[i][loaded].fp # job[r].fp
  BY <1>1, <1>2 DEF RequestHistory, InputsInv, Analysing, Publishing
<1>5. /\ db.current[i] = loaded
      /\ \A k \in 1..(rev - 1) :
            k = loaded => savepoint.runs[i][k].status = "current"
      /\ \A k \in 1..(rev - 1) :
            tx'.runs[i][k].status = IF k = loaded THEN "superseded"
                                    ELSE savepoint.runs[i][k].status
      /\ DifferInStatus(tx, tx', i)
      /\ DifferInStatus(savepoint, tx', i)
  BY MarkedIsLoaded
<1>6. ExtendsServed(db, i, job[r].fp)
  BY <1>4, <1>5 DEF ExtendsServed, Revisions!Extends
<1>7. KeepsRows(db, tx', i)
  <2> SUFFICES ASSUME NEW k \in 1..Len(db.runs[i])
               PROVE  /\ tx'.runs[i][k].fp = db.runs[i][k].fp
                      /\ IsPublished(tx'.runs[i][k])
                            <=> IsPublished(db.runs[i][k])
    BY DEF KeepsRows
  <2>1. k \in 1..(rev - 1) /\ k \in 1..Len(savepoint.runs[i])
    BY <1>2
  <2>2. /\ savepoint.runs[i][k].fp = db.runs[i][k].fp
        /\ IsPublished(savepoint.runs[i][k]) <=> IsPublished(db.runs[i][k])
    BY <1>3 DEF AppendsOne, KeepsRows
  <2>3. tx'.runs[i][k].fp = savepoint.runs[i][k].fp
    BY <1>5, <2>1 DEF DifferInStatus
  <2>4. /\ tx'.runs[i][k].status = IF k = loaded THEN "superseded"
                                   ELSE savepoint.runs[i][k].status
        /\ k = loaded => savepoint.runs[i][k].status = "current"
    BY <1>5, <2>1
  <2> QED
    BY <2>2, <2>3, <2>4 DEF IsPublished
<1>8. PublishingInv(r)'
  BY <1>1, <1>5, <1>6, <1>7
     DEF PublishingInv, DifferInStatus, KeepsRows, ExtendsServed
<1> QED
  BY <1>1, <1>5, <1>8, StatusHistory DEF Publishing

(* Moving the pointer completes the attempt that the commit will publish.   *)
LEMMA PointHistory ==
    ASSUME TypeOK, TypeOK', JobInv, PublicationInv, HistoryInv,
           NEW r \in Requests, SetPointer(r)
    PROVE  HistoryInv' /\ Continues(db, db')
<1> DEFINE i == job[r].inc
           rev == job[r].rev
<1>1. /\ pc[r] = "point" /\ pc'[r] = "inputs"
      /\ \A q \in Requests \ {r} : pc'[q] = pc[q] /\ job'[q] = job[q]
      /\ tx' = SetCurrentAnalysisRun(tx, i, rev)
      /\ UNCHANGED <<db, savepoint, writer, version>>
  BY DEF SetPointer, Goto, TypeOK
<1>2. /\ writer = r
      /\ i \in Incidents /\ rev \in Nat /\ job[r] \in Job
      /\ tx \in Image /\ savepoint \in Image /\ db \in Image
      /\ Len(db.runs[i]) \in Nat /\ rev = Len(db.runs[i]) + 1
      /\ rev = Len(savepoint.runs[i])
      /\ job[r].todo \subseteq Incidents
      /\ RequestHistory(r) /\ Covered(db)
  BY <1>1, PublishingFacts DEF Publishing
<1>3. job'[r].todo = job[r].todo
  BY <1>2 DEF SetPointer, TypeOK, Job
<1>4. tx.current \in [Incidents -> Nat]
  BY <1>2 DEF Image
<1>5. /\ tx'.runs = tx.runs
      /\ tx'.current = [tx.current EXCEPT ![i] = rev]
      /\ tx'.attached = tx.attached
  <2>1. tx \in Image /\ i \in Incidents /\ rev \in Nat
    BY <1>2
  <2>2. /\ SetCurrentAnalysisRun(tx, i, rev).runs = tx.runs
        /\ SetCurrentAnalysisRun(tx, i, rev).current
              = [tx.current EXCEPT ![i] = rev]
    BY <2>1, SetCurrentFacts
  <2>3. SetCurrentAnalysisRun(tx, i, rev).attached = tx.attached
    BY <2>1, QuietStatements
  <2> QED
    BY <1>1, <2>2, <2>3
<1>6. /\ DifferInStatus(savepoint, tx, i)
      /\ KeepsRows(db, tx, i)
      /\ ExtendsServed(db, i, job[r].fp)
  BY <1>1, <1>2 DEF RequestHistory, PublishingInv
<1>7. /\ AttachedGrows(db, savepoint)
      /\ \A j \in Incidents \ {i} : AddsAtMostOne(db, savepoint, j)
      /\ LastRun(savepoint, i).fp = job[r].fp
  BY <1>1, <1>2 DEF RequestHistory, SavepointInv, Publishing
<1>8. Marked(tx, i, rev)
  BY <1>1 DEF PublicationInv, StageInv
<1>9. \A j \in Incidents \ {i} :
         /\ tx'.runs[j] = tx.runs[j] /\ tx'.current[j] = tx.current[j]
         /\ tx.runs[j] = savepoint.runs[j]
         /\ tx.current[j] = savepoint.current[j]
  BY <1>2, <1>4, <1>5, <1>6 DEF DifferInStatus
<1>10. ASSUME NEW j \in Incidents \ {i} PROVE AddsAtMostOne(db, tx', j)
  BY <1>7, <1>9, AddsByRuns
<1>11. AddsPublished(db, tx', i)
  <2>1. /\ Len(tx'.runs[i]) = rev
        /\ tx'.current[i] = rev
        /\ KeepsRows(db, tx', i)
    BY <1>2, <1>4, <1>5, <1>6 DEF DifferInStatus, KeepsRows
  <2>2. LastRun(tx', i).fp = job[r].fp
    <3>1. rev \in 1..Len(savepoint.runs[i])
      BY <1>2
    <3> QED
      BY <1>2, <1>5, <1>6, <1>7, <2>1, <3>1 DEF DifferInStatus, LastRun
  <2>3. IsPublished(LastRun(tx', i))
    <3>1. rev \in 1..rev
      BY <1>2
    <3>2. tx'.runs[i][rev].status = "current"
      BY <1>5, <1>8, <3>1 DEF Marked, SettledRow
    <3> QED
      BY <2>1, <3>2 DEF IsPublished, LastRun
  <2> QED
    BY <1>2, <1>6, <2>1, <2>2, <2>3 DEF AddsPublished, AppendsOne
<1>12. Continues(db, tx')
  BY <1>5, <1>6, <1>7, <1>10, <1>11
     DEF Continues, AddsAtMostOne, AttachedGrows, DifferInStatus
<1>13. SessionInv(r)'
  <2>1. Covered(tx) /\ \A j \in job[r].todo : Leaves(db, tx, j)
    BY <1>2 DEF RequestHistory, SessionInv
  <2>2. i \notin job[r].todo
    BY <1>1, <1>2 DEF RequestHistory, InputsInv, Analysing, Publishing
  <2>3. \A j \in job[r].todo : Leaves(db, tx', j)
    BY <1>2, <1>9, <2>1, <2>2, AddsByRuns
  <2>4. Covered(tx)'
    BY <1>1, <1>5, <2>1 DEF Covered
  <2> QED
    BY <1>1, <1>3, <1>12, <2>3, <2>4 DEF SessionInv
<1>14. LoadedInv(r)' /\ InputsInv(r)' /\ SavepointInv(r)' /\ PublishingInv(r)'
  BY <1>1, <1>2 DEF LoadedInv, InputsInv, SavepointInv, PublishingInv,
                    Publishing, Analysing
<1>15. Continues(db, db') /\ Covered(db)'
  BY <1>1, <1>2, ContinuesItself DEF Covered
<1> QED
  BY <1>1, <1>2, <1>13, <1>14, <1>15, WriterHistory DEF RequestHistory

(* A failed publication commits a failed run of its incident, together with *)
(* what the session had published before.                                  *)
LEMMA FailHistory ==
    ASSUME TypeOK, TypeOK', JobInv, PublicationInv, HistoryInv,
           NEW r \in Requests, PublicationFails(r) \/ MarkRejected(r)
    PROVE  HistoryInv' /\ Continues(db, db')
<1> DEFINE i == job[r].inc
           rev == job[r].rev
           failed == SetRunStatus(savepoint, i, rev, "failed")
<1>1. /\ pc[r] \in Publishing /\ pc'[r] = "unlock"
      /\ \A q \in Requests \ {r} : pc'[q] = pc[q] /\ job'[q] = job[q]
      /\ db' = failed \/ db' = db
      /\ tx' = db' /\ writer' = NoRequest /\ version' = version
  BY DEF PublicationFails, MarkRejected, FailRun, CommitAs, Goto, TypeOK,
         Publishing
<1>2. /\ writer = r /\ r # NoRequest
      /\ i \in Incidents /\ rev \in Nat
      /\ savepoint \in Image /\ db \in Image
      /\ Len(db.runs[i]) \in Nat /\ rev = Len(db.runs[i]) + 1
      /\ rev = Len(savepoint.runs[i])
      /\ RequestHistory(r) /\ Covered(db)
  BY <1>1, PublishingFacts
<1>3. /\ Covered(savepoint)
      /\ AttachedGrows(db, savepoint)
      /\ \A j \in Incidents \ {i} : AddsAtMostOne(db, savepoint, j)
      /\ AppendsOne(db, savepoint, i)
      /\ savepoint.current[i] = db.current[i]
  BY <1>1, <1>2 DEF RequestHistory, SavepointInv
<1>4. DifferInStatus(savepoint, failed, i)
  BY <1>2, SetRunStatusDiffers DEF RunStatus
<1>5. \A k \in 1..Len(savepoint.runs[i]) :
         /\ k = rev => failed.runs[i][k].status = "failed"
         /\ k # rev => failed.runs[i][k].status = savepoint.runs[i][k].status
  BY <1>2, MarkFailedOf
<1> HIDE DEF failed
<1>6. AddsFailed(db, failed, i)
  <2>1. KeepsRows(db, failed, i)
    <3>1. ASSUME NEW k \in 1..Len(db.runs[i])
          PROVE  /\ k \in 1..Len(savepoint.runs[i]) /\ k # rev
                 /\ savepoint.runs[i][k].fp = db.runs[i][k].fp
                 /\ IsPublished(savepoint.runs[i][k])
                       <=> IsPublished(db.runs[i][k])
      <4>1. /\ Len(savepoint.runs[i]) = Len(db.runs[i]) + 1
            /\ KeepsRows(db, savepoint, i)
        BY <1>3 DEF AppendsOne
      <4> QED
        BY ONLY <1>2, <4>1 DEF KeepsRows
    <3>2. ASSUME NEW k \in 1..Len(db.runs[i])
          PROVE  /\ failed.runs[i][k].fp = savepoint.runs[i][k].fp
                 /\ failed.runs[i][k].status = savepoint.runs[i][k].status
      BY <1>4, <1>5, <3>1 DEF DifferInStatus
    <3> QED
      BY <3>1, <3>2 DEF KeepsRows, IsPublished
  <2>2. Len(failed.runs[i]) = rev /\ failed.current[i] = db.current[i]
    <3>1. /\ failed.current = savepoint.current
          /\ Len(failed.runs[i]) = Len(savepoint.runs[i])
      BY <1>4 DEF DifferInStatus
    <3> QED
      BY <1>2, <1>3, <3>1
  <2>3. failed.runs[i][rev].status = "failed"
    <3>1. rev \in 1..Len(savepoint.runs[i])
      BY <1>2
    <3> QED
      BY <1>5, <3>1
  <2> QED
    BY <1>2, <2>1, <2>2, <2>3 DEF AddsFailed, AppendsOne, LastRun, IsPublished
<1>7. ASSUME NEW j \in Incidents \ {i} PROVE AddsAtMostOne(db, failed, j)
  BY <1>3, <1>4, AddsByRuns DEF DifferInStatus
<1>8. Continues(db, failed)
  BY <1>3, <1>4, <1>6, <1>7
     DEF Continues, AddsAtMostOne, AttachedGrows, DifferInStatus
<1>9. Covered(failed)
  BY <1>2, <1>3, <1>4, CoveredByStatus
<1>10. Continues(db, db') /\ Covered(db)'
  <2>1. CASE db' = failed
    BY <1>1, <1>8, <1>9, <2>1 DEF Covered
  <2>2. CASE db' = db
    BY <1>1, <1>2, <2>2, ContinuesItself DEF Covered
  <2> QED
    BY <1>1, <2>1, <2>2
<1>11. RequestHistory(r)'
  BY <1>1, <1>2 DEF RequestHistory, LoadedInv, InputsInv, SessionInv,
                    SavepointInv, PublishingInv, Publishing, Analysing
<1> QED
  BY <1>1, <1>2, <1>10, <1>11, WriterHistory

(* The end of a session.                                                   *)
LEMMA SessionEnds ==
    ASSUME TypeOK, TypeOK', JobInv, PublicationInv, HistoryInv,
           NEW r \in Requests, CommitSession(r) \/ RollbackSession(r)
    PROVE  HistoryInv' /\ Continues(db, db')
<1>1. /\ pc[r] = "finish" /\ pc'[r] = "done"
      /\ \A q \in Requests \ {r} : pc'[q] = pc[q] /\ job'[q] = job[q]
      /\ version' = version
  BY DEF CommitSession, RollbackSession, Goto, TypeOK
<1>2. /\ RequestHistory(r) /\ Covered(db)
      /\ r # NoRequest
  BY NoRequestAssumption DEF HistoryInv
<1>3. CASE writer = r
  <2>1. /\ db' \in {db, tx} /\ writer' = NoRequest
    BY <1>3 DEF CommitSession, RollbackSession, CommitAs, Rollback
  <2>2. Covered(tx) /\ Continues(db, tx)
    BY <1>1, <1>2, <1>3 DEF RequestHistory, SessionInv, Publishing
  <2>3. Continues(db, db') /\ Covered(db)'
    <3>1. CASE db' = tx
      BY <1>1, <2>2, <3>1 DEF Covered
    <3>2. CASE db' = db
      BY <1>1, <1>2, <3>2, ContinuesItself DEF Covered
    <3> QED
      BY <2>1, <3>1, <3>2
  <2>4. RequestHistory(r)'
    BY <1>1, <1>2, <2>1 DEF RequestHistory, LoadedInv, InputsInv, SessionInv,
                            SavepointInv, PublishingInv, Publishing, Analysing
  <2> QED
    BY <1>1, <1>3, <2>1, <2>3, <2>4, WriterHistory
<1>4. CASE writer # r
  <2>1. UNCHANGED <<db, tx, savepoint, writer>>
    BY <1>4 DEF CommitSession, RollbackSession, Rollback
  <2>2. RequestHistory(r)'
    BY <1>1, <1>4, <2>1
       DEF RequestHistory, LoadedInv, InputsInv, SessionInv,
           SavepointInv, PublishingInv, Publishing, Analysing
  <2> QED
    BY <1>1, <2>1, <2>2, QuietHistory
<1> QED
  BY <1>3, <1>4

(* Every step keeps the invariant, and the committed image continues.      *)
LEMMA HistoryStep ==
    ASSUME TypeOK, TypeOK', JobInv, PublicationInv, HistoryInv, [Next]_vars
    PROVE  HistoryInv' /\ Continues(db, db')
<1>1. ASSUME NEW r \in Requests, Receive(r) \/ Step(r)
      PROVE  HistoryInv' /\ Continues(db, db')
  BY <1>1, EndingStep, LoadingStep, ReadInputsStep, ComparingStep,
     AttachingStep, CreateStep, SupersedeHistory, MarkHistory, PointHistory,
     FailHistory, SessionEnds
     DEF Receive, Step
<1>2. CASE Crash
  <2>1. /\ db' = db /\ writer' = NoRequest /\ version' = version
        /\ \A r \in Requests : pc'[r] \in {"new", "done"}
    BY <1>2 DEF Crash, TypeOK
  <2>2. ASSUME NEW r \in Requests PROVE RequestHistory(r)'
    BY <2>1, NoRequestAssumption
       DEF RequestHistory, LoadedInv, InputsInv, SessionInv, SavepointInv,
           PublishingInv, Publishing, Analysing
  <2>3. Continues(db, db') /\ Covered(db)'
    BY <2>1, ContinuesItself DEF HistoryInv, Covered
  <2> QED
    BY <2>2, <2>3 DEF HistoryInv
<1>3. CASE EditCatalogue \/ UNCHANGED vars
  <2>1. /\ UNCHANGED <<db, tx, savepoint, writer, pc, job>>
        /\ version \in Nat /\ version' \in Nat /\ version <= version'
    BY <1>3, MaxVersionAssumption DEF EditCatalogue, vars, TypeOK
  <2>2. Continues(db, db')
    BY <2>1, ContinuesItself
  <2>3. ASSUME NEW r \in Requests PROVE RequestHistory(r)'
    BY <2>1, <2>2, OtherHistory
  <2>4. Covered(db)'
    <3>1. \A i \in Incidents : \A k \in 1..Len(db.runs[i]) :
             db.runs[i][k].fp.version \in Nat
      BY LenRuns DEF TypeOK, Run, Fingerprint
    <3> QED
      BY <2>1, <3>1 DEF HistoryInv, Covered
  <2> QED
    BY <2>2, <2>3, <2>4 DEF HistoryInv
<1> QED
  BY <1>1, <1>2, <1>3 DEF Next, Idle

(* The inductive invariant of the revision history holds throughout.       *)
LEMMA HistoryInvariant == Spec => []HistoryInv
<1>1. Init => HistoryInv
  BY InitHistory
<1>2. TypeOK /\ TypeOK' /\ JobInv /\ PublicationInv /\ HistoryInv
      /\ [Next]_vars => HistoryInv'
  BY HistoryStep
<1> QED
  BY <1>1, <1>2, TypeCorrect, PublicationInvariant, PTL DEF Spec

-----------------------------------------------------------------------------
(* The refinement.                                                         *)

(* A continued image is one step of the log: at most one attempt of each    *)
(* incident, and a published one that extends the one it replaces.          *)
LEMMA ContinuationIsLogStep ==
    ASSUME TypeOK, TypeOK', PublicationInv, Covered(db)', Continues(db, db')
    PROVE  Revisions!Next
<1> SUFFICES ASSUME NEW i \in Incidents
             PROVE  \/ Revisions!Untouched(i)
                    \/ Revisions!Fail(i)
                    \/ Revisions!Publish(i)
  BY DEF Revisions!Next
<1> DEFINE Fingerprints == [events : SUBSET Events, version : 0..MaxVersion]
           entry(run) == [published |-> run.status \in {"current", "superseded"},
                          fp        |-> run.fp]
           n == Len(db.runs[i])
           m == Len(db'.runs[i])
           c == db.current[i]
           last == LastRun(db', i)
<1>1. /\ n \in Nat /\ m \in Nat
      /\ c \in 0..n
      /\ AddsAtMostOne(db, db', i)
      /\ db.current[i] \in Nat
  BY LenRuns DEF TypeOK, PublicationInv, ImageSettled, Settled, Continues
<1>2. /\ Log[i] = [k \in 1..n |-> entry(db.runs[i][k])]
      /\ Log'[i] = [k \in 1..m |-> entry(db'.runs[i][k])]
  BY DEF Log
<1>3. Len(Log[i]) = n
  BY <1>1, <1>2
<1>4. ASSUME KeepsRows(db, db', i)
      PROVE  \A k \in 1..n : entry(db'.runs[i][k]) = entry(db.runs[i][k])
  BY <1>4 DEF KeepsRows, IsPublished
<1>5. CASE Leaves(db, db', i)
  <2>1. Log'[i] = Log[i] /\ db'.current[i] = db.current[i]
    BY <1>2, <1>4, <1>5 DEF Leaves
  <2> QED
    BY <2>1 DEF Revisions!Untouched
<1>6. ASSUME AppendsOne(db, db', i)
      PROVE  /\ Log'[i] = Append(Log[i], entry(last))
             /\ last.fp \in Fingerprints
  <2>1. m = n + 1 /\ \A k \in 1..n : entry(db'.runs[i][k]) = entry(db.runs[i][k])
    BY <1>4, <1>6 DEF AppendsOne
  <2>2. Log'[i] = Append(Log[i], entry(last))
    <3> HIDE DEF entry
    <3> QED
      BY <1>1, <1>2, <1>3, <2>1 DEF LastRun
  <2>3. m \in 1..m
    BY <1>1, <2>1
  <2>4. last \in Run /\ last.fp.version <= version'
    BY <2>3, LenRuns DEF TypeOK, Covered, LastRun
  <2> QED
    BY <2>2, <2>4, MaxVersionAssumption DEF TypeOK, Run, Fingerprint
<1>7. CASE AddsFailed(db, db', i)
  <2>1. /\ Log'[i] = Append(Log[i], [published |-> FALSE, fp |-> last.fp])
        /\ last.fp \in Fingerprints
    <3>1. (last.status \in {"current", "superseded"}) = FALSE
      BY <1>7 DEF AddsFailed, IsPublished
    <3>2. /\ Log'[i] = Append(Log[i], entry(last))
          /\ last.fp \in Fingerprints
      BY <1>6, <1>7 DEF AddsFailed
    <3> QED
      BY <3>1, <3>2
  <2> QED
    BY <1>7, <2>1 DEF AddsFailed, Revisions!Fail
<1>8. CASE AddsPublished(db, db', i)
  <2>1. /\ Log'[i] = Append(Log[i], [published |-> TRUE, fp |-> last.fp])
        /\ last.fp \in Fingerprints
    BY <1>6, <1>8 DEF AddsPublished, IsPublished
  <2>2. c # 0 => Revisions!Extends(last.fp, Log[i][c].fp)
    <3>1. c # 0 => Log[i][c].fp = db.runs[i][c].fp
      BY <1>1, <1>2
    <3> QED
      BY <1>8, <3>1 DEF AddsPublished, ExtendsServed
  <2>3. db'.current[i] = Len(Log[i]) + 1
    BY <1>3, <1>8 DEF AddsPublished, AppendsOne
  <2> QED
    BY <2>1, <2>2, <2>3 DEF Revisions!Publish
<1> QED
  BY <1>1, <1>5, <1>7, <1>8 DEF AddsAtMostOne

(* What readers see of the runs is the log that RevisionLog promises: runs   *)
(* are numbered without gaps and never changed, one is published only        *)
(* together with the pointer and only with inputs that extend those of the   *)
(* run before, and a failure leaves the pointer alone.                       *)
THEOREM PublicationRefinesLog == Spec => RevisionLogSpec
<1>1. Init => Revisions!Init
  <2> SUFFICES ASSUME Init PROVE Revisions!Init
    OBVIOUS
  <2>1. Log = [i \in Incidents |-> << >>]
    BY DEF Init, EmptyImage, Log
  <2>2. db.current = [i \in Incidents |-> 0]
    BY DEF Init, EmptyImage
  <2> QED
    BY <2>1, <2>2 DEF Revisions!Init
<1>2. TypeOK /\ TypeOK' /\ JobInv /\ PublicationInv /\ HistoryInv
      /\ [Next]_vars => [Revisions!Next]_<<Log, db.current>>
  BY HistoryStep, ContinuationIsLogStep DEF HistoryInv
<1> QED
  BY <1>1, <1>2, TypeCorrect, PublicationInvariant, HistoryInvariant, PTL
     DEF Spec, RevisionLogSpec, Revisions!Spec

-----------------------------------------------------------------------------
(* Attached events are analysed.                                           *)

Analysed(im, i) ==
    \E k \in 1..Len(im.runs[i]) : im.runs[i][k].fp.events = im.attached[i]

FailedElsewhere(im, i) ==
    \E j \in Incidents \ {i} : \E k \in 1..Len(im.runs[j]) :
        im.runs[j][k].status = "failed"

Accounted(im, i) ==
    im.attached[i] # {} => Analysed(im, i) \/ FailedElsewhere(im, i)

AccountedBut(im, pending) ==
    \A i \in Incidents \ pending : Accounted(im, i)

(* The writer owes an analysis to the incidents it has not come to, and to  *)
(* the one whose inputs it has read.                                       *)
AccountInv(r) ==
    writer = r =>
        /\ pc[r] \in {"lock", "detect"} => AccountedBut(tx, {})
        /\ pc[r] = "inputs" => AccountedBut(tx, job[r].todo)
        /\ pc[r] \in {"compare", "revision", "create"} =>
              /\ AccountedBut(tx, job[r].todo \cup {job[r].inc})
              /\ job[r].fp.events = tx.attached[job[r].inc]
        /\ pc[r] \in Publishing => AccountedBut(savepoint, job[r].todo)
        /\ pc[r] = "point" => AccountedBut(tx, job[r].todo)
        /\ pc[r] \in {"unlock", "finish"} /\ ~job[r].failed =>
              AccountedBut(tx, {})

AccountsInv ==
    /\ AccountedBut(db, {})
    /\ \A r \in Requests : AccountInv(r)

(* Every run stays with its inputs, and a failed one stays failed.         *)
RunsStay(old, new) ==
    \A j \in Incidents : \A k \in 1..Len(old.runs[j]) :
        /\ k \in 1..Len(new.runs[j])
        /\ new.runs[j][k].fp = old.runs[j][k].fp
        /\ old.runs[j][k].status = "failed" => new.runs[j][k].status = "failed"

(* An account that was given is still good when runs are added.            *)
LEMMA AccountsStay ==
    ASSUME NEW old, NEW new, NEW i \in Incidents, RunsStay(old, new),
           new.attached[i] = old.attached[i], Accounted(old, i)
    PROVE  Accounted(new, i)
<1>1. Analysed(old, i) => Analysed(new, i)
  BY DEF Analysed, RunsStay
<1>2. FailedElsewhere(old, i) => FailedElsewhere(new, i)
  <2> SUFFICES ASSUME FailedElsewhere(old, i) PROVE FailedElsewhere(new, i)
    OBVIOUS
  <2>1. PICK j \in Incidents \ {i} : \E k \in 1..Len(old.runs[j]) :
           old.runs[j][k].status = "failed"
    BY DEF FailedElsewhere
  <2>2. PICK k \in 1..Len(old.runs[j]) : old.runs[j][k].status = "failed"
    BY <2>1
  <2>3. k \in 1..Len(new.runs[j]) /\ new.runs[j][k].status = "failed"
    BY <2>2 DEF RunsStay
  <2> QED
    BY <2>3 DEF FailedElsewhere
<1> QED
  BY <1>1, <1>2 DEF Accounted

(* A step of request r preserves the accounts when it does for r.           *)
LEMMA OwnAccounts ==
    ASSUME AccountsInv, NEW r \in Requests,
           AccountedBut(db, {})',
           \A q \in Requests \ {r} :
              /\ pc'[q] = pc[q] /\ job'[q] = job[q]
              /\ \/ writer' # q
                 \/ UNCHANGED <<tx, savepoint, writer>>,
           AccountInv(r)'
    PROVE  AccountsInv'
<1> SUFFICES ASSUME NEW q \in Requests \ {r} PROVE AccountInv(q)'
  BY DEF AccountsInv
<1>1. /\ pc'[q] = pc[q] /\ job'[q] = job[q]
      /\ writer' # q \/ UNCHANGED <<tx, savepoint, writer>>
  OBVIOUS
<1>2. AccountInv(q)
  BY DEF AccountsInv
<1>3. CASE writer' # q
  BY <1>3 DEF AccountInv
<1>4. CASE UNCHANGED <<tx, savepoint, writer>>
  BY ONLY <1>1, <1>2, <1>4
     DEF AccountInv
<1> QED
  BY <1>1, <1>3, <1>4

(* The steps that write no image.                                          *)
LEMMA QuietAccounts ==
    ASSUME TypeOK, TypeOK', JobInv, PublicationInv, HistoryInv, AccountsInv,
           NEW r \in Requests,
           \/ ReceiveBatch(r) \/ InsertRejected(r) \/ DetectFails(r)
           \/ AllAnalysed(r) \/ CreateRejected(r) \/ WriterTimeout(r)
           \/ ReleaseLock(r) \/ ReceiveRecompute(r) \/ AcquireLock(r)
           \/ ReadInputs(r) \/ SkipUnchanged(r) \/ InputsChanged(r)
           \/ ReadRevision(r) \/ Analyse(r)
    PROVE  AccountsInv'
<1>1. /\ UNCHANGED <<db, tx, savepoint, writer>>
      /\ \A q \in Requests \ {r} : pc'[q] = pc[q] /\ job'[q] = job[q]
  <2>1. CASE \/ ReceiveBatch(r) \/ InsertRejected(r) \/ DetectFails(r)
             \/ AllAnalysed(r) \/ CreateRejected(r) \/ WriterTimeout(r)
             \/ ReleaseLock(r)
    BY <2>1 DEF ReceiveBatch, InsertRejected, DetectFails, AllAnalysed,
                CreateRejected, WriterTimeout, ReleaseLock, Goto, TypeOK
  <2>2. CASE \/ ReceiveRecompute(r) \/ AcquireLock(r) \/ ReadInputs(r)
             \/ SkipUnchanged(r) \/ InputsChanged(r) \/ ReadRevision(r)
             \/ Analyse(r)
    BY <2>2 DEF ReceiveRecompute, AcquireLock, ReadInputs, SkipUnchanged,
                InputsChanged, ReadRevision, Analyse, Goto, TypeOK
  <2> QED
    BY <2>1, <2>2
<1>2. AccountedBut(db, {})'
  BY <1>1 DEF AccountsInv
<1>3. /\ job[r] \in Job /\ AccountInv(r)
      /\ writer = r => pc[r] \notin {"new", "insert", "done"}
  BY DEF TypeOK, AccountsInv, HistoryInv, RequestHistory, SessionInv
<1>4. AccountInv(r)'
  <2> SUFFICES ASSUME writer = r PROVE AccountInv(r)'
    BY <1>1 DEF AccountInv
  <2>0. ~WriterTimeout(r) /\ ~ReceiveBatch(r) /\ ~InsertRejected(r)
        /\ ~ReceiveRecompute(r)
    BY <1>3, NoRequestAssumption
       DEF WriterTimeout, WriterBusy, ReceiveBatch, InsertRejected,
           ReceiveRecompute
  <2>1. CASE DetectFails(r) \/ CreateRejected(r)
    <3>1. pc'[r] = "unlock" /\ job'[r].failed
      BY <1>3, <2>1 DEF DetectFails, CreateRejected, Goto, TypeOK, Job
    <3> QED
      BY <3>1 DEF AccountInv, Publishing
  <2>2. CASE AllAnalysed(r)
    <3>1. /\ pc[r] = "inputs" /\ pc'[r] = "unlock" /\ job[r].todo = {}
          /\ UNCHANGED <<tx, savepoint, writer, job>>
      BY <2>2 DEF AllAnalysed, Goto, TypeOK
    <3> QED
      BY <1>3, <3>1 DEF AccountInv, Publishing
  <2>3. CASE ReleaseLock(r)
    <3>1. /\ pc[r] = "unlock" /\ pc'[r] = "finish"
          /\ UNCHANGED <<tx, savepoint, writer, job>>
      BY <2>3 DEF ReleaseLock, Goto, TypeOK
    <3> QED
      BY <1>3, <3>1 DEF AccountInv, Publishing
  <2>4. CASE AcquireLock(r)
    <3>1. /\ pc[r] = "lock" /\ pc'[r] \in {"inputs", "detect"}
          /\ UNCHANGED <<tx, savepoint, writer, job>>
      BY <2>4 DEF AcquireLock, Goto, TypeOK
    <3> QED
      BY <1>3, <3>1 DEF AccountInv, AccountedBut, Publishing
  <2>5. CASE ReadInputs(r)
    <3>1. PICK i \in job[r].todo :
            job' = [job EXCEPT
                ![r].inc = i,
                ![r].todo = @ \ {i},
                ![r].loaded = IF writer = r THEN tx.current[i] ELSE @,
                ![r].fp = [events |-> View(r).attached[i], version |-> version]]
      BY <2>5 DEF ReadInputs
    <3>2. /\ job'[r].inc = i
          /\ job'[r].todo \cup {i} = job[r].todo
          /\ job'[r].fp.events = tx.attached[i]
      BY <1>3, <3>1 DEF TypeOK, Job, View
    <3>3. pc[r] = "inputs" /\ pc'[r] = "compare"
      BY <2>5 DEF ReadInputs, Goto, TypeOK
    <3> QED
      BY <1>1, <1>3, <3>2, <3>3
         DEF AccountInv, Publishing
  <2>6. CASE SkipUnchanged(r)
    <3>1. /\ pc[r] = "compare" /\ pc'[r] = "inputs"
          /\ job'[r].todo = job[r].todo
          /\ FingerprintExistsAsCurrent(tx, job[r].inc, job[r].fp)
      BY <1>3, <2>6 DEF SkipUnchanged, Goto, TypeOK, Job, View
    <3>2. Analysed(tx, job[r].inc)
      BY <1>3, <3>1 DEF FingerprintExistsAsCurrent, CurrentRevisions, Analysed,
                        AccountInv
    <3>3. AccountedBut(tx, job[r].todo)
      BY <1>3, <3>1, <3>2 DEF AccountInv, AccountedBut, Accounted
    <3> QED
      BY <1>1, <3>1, <3>3
         DEF AccountInv, Publishing
  <2>7. CASE InputsChanged(r) \/ ReadRevision(r) \/ Analyse(r)
    <3>1. /\ job'[r].todo = job[r].todo
          /\ job'[r].inc = job[r].inc
          /\ job'[r].fp = job[r].fp
      BY <1>3, <2>7 DEF InputsChanged, ReadRevision, Analyse, TypeOK, Job
    <3>2. \/ /\ pc[r] \in {"compare", "revision"}
             /\ pc'[r] \in {"revision", "create"}
          \/ pc[r] = "analyse" /\ pc'[r] = "supersede"
      BY <2>7 DEF InputsChanged, ReadRevision, Analyse, Goto, TypeOK
    <3> QED
      BY <1>1, <1>3, <3>1, <3>2, SMTT(30)
         DEF AccountInv, Publishing
  <2> QED
    BY <2>0, <2>1, <2>2, <2>3, <2>4, <2>5, <2>6, <2>7
<1> QED
  BY <1>1, <1>2, <1>4, OwnAccounts

(* Accounts are about runs and attached events only.                       *)
LEMMA AccountsByRuns ==
    ASSUME NEW old, NEW new, NEW pending, new.runs = old.runs,
           \A i \in Incidents \ pending : new.attached[i] = old.attached[i],
           AccountedBut(old, pending)
    PROVE  AccountedBut(new, pending)
  BY DEF AccountedBut, Accounted, Analysed, FailedElsewhere

(* The writer's steps that commit nothing, once they are right for r.      *)
LEMMA WriterAccounts ==
    ASSUME AccountsInv, NEW r \in Requests,
           db' = db, writer' \in {r, NoRequest},
           \A q \in Requests \ {r} : pc'[q] = pc[q] /\ job'[q] = job[q],
           AccountInv(r)'
    PROVE  AccountsInv'
<1>1. AccountedBut(db, {})'
  BY DEF AccountsInv
<1>2. \A q \in Requests \ {r} : writer' # q
  BY NoRequestAssumption
<1> QED
  BY <1>1, <1>2, OwnAccounts

(* Stored events are nobody's yet, and the incidents that events are        *)
(* attached to are the ones to analyse.                                    *)
LEMMA AttachAccounts ==
    ASSUME TypeOK, TypeOK', JobInv, PublicationInv, AccountsInv,
           NEW r \in Requests, InsertEvents(r) \/ DetectAndAttach(r)
    PROVE  AccountsInv'
<1>1. /\ db' = db /\ writer' = r
      /\ \A q \in Requests \ {r} : pc'[q] = pc[q] /\ job'[q] = job[q]
  BY DEF InsertEvents, DetectAndAttach, Goto, TypeOK, PublicationInv, StageInv,
         HoldsWriter
<1>2. /\ job[r] \in Job /\ db \in Image /\ tx \in Image
      /\ AccountedBut(db, {}) /\ AccountInv(r)
  BY DEF TypeOK, AccountsInv
<1>3. CASE InsertEvents(r)
  <2>1. PICK fresh \in SUBSET Events : tx' = StoreEvents(db, fresh)
    BY <1>2, <1>3 DEF InsertEvents, Job
  <2>2. tx'.runs = db.runs /\ tx'.attached = db.attached
    BY <1>2, <2>1, StoreEventsFacts, QuietStatements
  <2>3. AccountedBut(tx', {})
    BY <1>2, <2>2, AccountsByRuns
  <2>4. pc'[r] = "lock"
    BY <1>3 DEF InsertEvents, Goto, TypeOK
  <2>5. AccountInv(r)'
    BY <2>3, <2>4 DEF AccountInv, Publishing
  <2> QED
    BY <1>1, <2>5, WriterAccounts
<1>4. CASE DetectAndAttach(r)
  <2>1. PICK a \in Attachments(tx, job[r].batch) :
           /\ tx' = Attach(tx, a.affected, a.added)
           /\ job' = [job EXCEPT ![r].todo = a.affected]
    BY <1>4 DEF DetectAndAttach
  <2>2. job'[r].todo = a.affected
    BY <1>2, <2>1 DEF TypeOK, Job
  <2>3. /\ tx'.runs = tx.runs
        /\ \A i \in Incidents \ a.affected : tx'.attached[i] = tx.attached[i]
    BY <1>2, <2>1 DEF Attach, Image
  <2>4. AccountedBut(tx, a.affected)
    BY <1>2, <1>4 DEF AccountInv, DetectAndAttach, AccountedBut,
                      PublicationInv, StageInv, HoldsWriter
  <2>5. AccountedBut(tx', a.affected)
    BY <2>3, <2>4, AccountsByRuns
  <2>6. pc'[r] = "inputs"
    BY <1>4 DEF DetectAndAttach, Goto, TypeOK
  <2>7. AccountInv(r)'
    BY <2>2, <2>5, <2>6 DEF AccountInv, Publishing
  <2> QED
    BY <1>1, <2>7, WriterAccounts
<1> QED
  BY <1>3, <1>4

(* The building run carries the inputs that are attached, or those of an    *)
(* incident that was accounted for.                                        *)
LEMMA CreateAccounts ==
    ASSUME TypeOK, TypeOK', JobInv, PublicationInv, HistoryInv, AccountsInv,
           NEW r \in Requests, CreateRun(r)
    PROVE  AccountsInv'
<1> DEFINE i == job[r].inc
           fp == job[r].fp
<1>1. /\ db' = db /\ writer' = r
      /\ pc[r] = "create" /\ pc'[r] = "analyse"
      /\ job' = job /\ \A q \in Requests \ {r} : pc'[q] = pc[q]
      /\ tx' = InsertBuilding(View(r), i, fp) /\ savepoint' = tx'
  BY DEF CreateRun, Goto, TypeOK
<1>2. /\ job[r] \in Job /\ fp \in Fingerprint
      /\ i \in Incidents
      /\ View(r) \in Image
      /\ AccountedBut(db, {}) /\ AccountInv(r)
  BY <1>1 DEF TypeOK, JobInv, Analysing, View, Job, AccountsInv
<1>3. /\ AccountedBut(View(r), job[r].todo \cup {i})
      /\ fp.events = View(r).attached[i] \/ Accounted(View(r), i)
  BY <1>1, <1>2 DEF AccountInv, View, AccountedBut
<1>4. /\ tx'.attached = View(r).attached
      /\ \A j \in Incidents : j # i => tx'.runs[j] = View(r).runs[j]
      /\ Len(tx'.runs[i]) = Len(View(r).runs[i]) + 1
      /\ \A k \in 1..Len(View(r).runs[i]) :
            tx'.runs[i][k] = View(r).runs[i][k]
      /\ LastRun(tx', i).fp = fp
  <2> DEFINE new == InsertBuilding(View(r), i, fp)
  <2>1. /\ View(r) \in Image /\ i \in Incidents /\ fp \in Fingerprint
    BY <1>2
  <2>2. /\ \A j \in Incidents : j # i => new.runs[j] = View(r).runs[j]
        /\ Len(new.runs[i]) = Len(View(r).runs[i]) + 1
        /\ \A k \in 1..Len(View(r).runs[i]) :
              new.runs[i][k] = View(r).runs[i][k]
    <3>1. Len(new.runs[i]) = Len(View(r).runs[i]) + 1
      BY <2>1, InsertBuildingFacts
    <3>2. \A j \in Incidents : j # i => new.runs[j] = View(r).runs[j]
      BY <2>1, InsertBuildingFacts
    <3>3. ASSUME NEW k \in 1..Len(View(r).runs[i])
          PROVE  new.runs[i][k] = View(r).runs[i][k]
      BY <2>1, InsertBuildingFacts
    <3> QED
      BY <3>1, <3>2, <3>3
  <2>3. new.attached = View(r).attached /\ LastRun(new, i).fp = fp
    BY <2>1, InsertBuildingAppends
  <2>4. tx' = new
    BY <1>1
  <2> QED
    BY ONLY <2>2, <2>3, <2>4 DEF LastRun
<1>5. Len(View(r).runs[i]) \in Nat
  BY <1>2, LenRuns
<1>6. RunsStay(View(r), tx')
  <2>1. ASSUME NEW k \in 1..Len(View(r).runs[i])
        PROVE  k \in 1..Len(tx'.runs[i])
    BY <1>4, <1>5
  <2>2. ASSUME NEW j \in Incidents, NEW k \in 1..Len(View(r).runs[j])
        PROVE  /\ k \in 1..Len(tx'.runs[j])
               /\ tx'.runs[j][k] = View(r).runs[j][k]
    BY <1>4, <2>1
  <2> QED
    BY <2>2 DEF RunsStay
<1>7. Accounted(tx', i)
  <2>1. CASE Accounted(View(r), i)
    BY <1>2, <1>4, <1>6, <2>1, AccountsStay
  <2>2. CASE fp.events = View(r).attached[i]
    <3>1. Len(tx'.runs[i]) \in 1..Len(tx'.runs[i])
      BY <1>4, <1>5
    <3>2. Analysed(tx', i)
      BY <1>4, <2>2, <3>1 DEF Analysed, LastRun
    <3> QED
      BY <3>2 DEF Accounted
  <2> QED
    BY <1>3, <2>1, <2>2
<1>8. AccountedBut(tx', job[r].todo)
  <2> SUFFICES ASSUME NEW j \in Incidents \ job[r].todo, j # i
               PROVE  Accounted(tx', j)
    BY <1>7 DEF AccountedBut
  <2>1. Accounted(View(r), j)
    BY <1>3 DEF AccountedBut
  <2> QED
    BY <1>4, <1>6, <2>1, AccountsStay
<1>9. AccountInv(r)'
  BY <1>1, <1>8, SMTT(30) DEF AccountInv, Publishing
<1> QED
  BY <1>1, <1>9, WriterAccounts

(* The publication changes the statuses of runs that were published, and    *)
(* moves the pointer.                                                      *)
LEMMA PublishAccounts ==
    ASSUME TypeOK, TypeOK', JobInv, PublicationInv, HistoryInv, AccountsInv,
           NEW r \in Requests,
           Supersede(r) \/ MarkCurrent(r) \/ SetPointer(r)
    PROVE  AccountsInv'
<1> DEFINE i == job[r].inc
           rev == job[r].rev
<1>1. /\ db' = db /\ savepoint' = savepoint /\ writer' = writer
      /\ pc[r] \in Publishing
      /\ \A q \in Requests \ {r} : pc'[q] = pc[q] /\ job'[q] = job[q]
  BY DEF Supersede, MarkCurrent, SetPointer, Goto, TypeOK, Publishing
<1>2. /\ writer = r /\ job[r] \in Job
      /\ i \in Incidents /\ rev \in Nat
      /\ tx \in Image
      /\ rev = Len(savepoint.runs[i])
      /\ Building(savepoint, i, rev)
      /\ AccountInv(r) /\ AccountedBut(savepoint, job[r].todo)
  BY <1>1, PublishingFacts DEF AccountsInv, AccountInv
<1>3. job'[r].todo = job[r].todo
  BY <1>2 DEF Supersede, MarkCurrent, SetPointer, TypeOK, Job
<1>4. AccountedBut(savepoint', job'[r].todo)
  BY <1>1, <1>2, <1>3
<1>5. CASE Supersede(r)
  <2>1. pc'[r] = "mark"
    BY <1>5 DEF Supersede, Goto, TypeOK
  <2>2. AccountInv(r)'
    BY <1>4, <2>1 DEF AccountInv, Publishing
  <2> QED
    BY <1>1, <1>2, <2>2, WriterAccounts
<1>6. CASE MarkCurrent(r)
  <2>1. /\ DifferInStatus(savepoint, tx', i)
        /\ \A k \in 1..(rev - 1) :
              k = job[r].loaded => savepoint.runs[i][k].status = "current"
        /\ \A k \in 1..(rev - 1) :
              tx'.runs[i][k].status = IF k = job[r].loaded THEN "superseded"
                                      ELSE savepoint.runs[i][k].status
    BY <1>6, MarkedIsLoaded
  <2>2. \A k \in 1..Len(savepoint.runs[i]) :
           savepoint.runs[i][k].status = "failed"
              => tx'.runs[i][k].status = "failed"
    <3> SUFFICES ASSUME NEW k \in 1..Len(savepoint.runs[i]),
                        savepoint.runs[i][k].status = "failed"
                 PROVE  tx'.runs[i][k].status = "failed"
      OBVIOUS
    <3>1. k # rev
      BY <1>2 DEF Building
    <3>2. k \in 1..(rev - 1)
      BY <1>2, <3>1
    <3> QED
      BY <2>1, <3>2
  <2>3. RunsStay(savepoint, tx')
    <3> SUFFICES ASSUME NEW j \in Incidents,
                        NEW k \in 1..Len(savepoint.runs[j])
                 PROVE  /\ k \in 1..Len(tx'.runs[j])
                        /\ tx'.runs[j][k].fp = savepoint.runs[j][k].fp
                        /\ savepoint.runs[j][k].status = "failed"
                              => tx'.runs[j][k].status = "failed"
      BY DEF RunsStay
    <3>1. CASE j = i
      BY <2>1, <2>2, <3>1 DEF DifferInStatus
    <3>2. CASE j # i
      BY <2>1, <3>2 DEF DifferInStatus
    <3> QED
      BY <3>1, <3>2
  <2>4. AccountedBut(tx', job[r].todo)
    <3> SUFFICES ASSUME NEW j \in Incidents \ job[r].todo
                 PROVE  Accounted(tx', j)
      BY DEF AccountedBut
    <3>1. Accounted(savepoint, j) /\ tx'.attached[j] = savepoint.attached[j]
      BY <1>2, <2>1 DEF AccountedBut, DifferInStatus
    <3> QED
      BY <2>3, <3>1, AccountsStay
  <2>5. pc'[r] = "point"
    BY <1>6 DEF MarkCurrent, Goto, TypeOK
  <2>6. AccountInv(r)'
    BY <1>3, <1>4, <2>4, <2>5
       DEF AccountInv, Publishing
  <2> QED
    BY <1>1, <1>2, <2>6, WriterAccounts
<1>7. CASE SetPointer(r)
  <2>1. /\ tx' = SetCurrentAnalysisRun(tx, i, rev)
        /\ pc[r] = "point" /\ pc'[r] = "inputs"
    BY <1>7 DEF SetPointer, Goto, TypeOK
  <2>2. tx'.runs = tx.runs /\ tx'.attached = tx.attached
    <3>1. tx \in Image /\ i \in Incidents /\ rev \in Nat
      BY <1>2
    <3>2. SetCurrentAnalysisRun(tx, i, rev).runs = tx.runs
      BY <3>1, SetCurrentFacts
    <3>3. SetCurrentAnalysisRun(tx, i, rev).attached = tx.attached
      BY <3>1, QuietStatements
    <3> QED
      BY <2>1, <3>2, <3>3
  <2>3. AccountedBut(tx, job[r].todo)
    BY <1>2, <2>1 DEF AccountInv
  <2>4. AccountedBut(tx', job[r].todo)
    BY <2>2, <2>3, AccountsByRuns
  <2>5. AccountInv(r)'
    BY <1>3, <2>1, <2>4
       DEF AccountInv, Publishing
  <2> QED
    BY <1>1, <1>2, <2>5, WriterAccounts
<1> QED
  BY <1>5, <1>6, <1>7

(* The failed run accounts for its own incident with its inputs, and for    *)
(* every other with its status.                                            *)
LEMMA FailAccounts ==
    ASSUME TypeOK, TypeOK', JobInv, PublicationInv, HistoryInv, AccountsInv,
           NEW r \in Requests, PublicationFails(r) \/ MarkRejected(r)
    PROVE  AccountsInv'
<1> DEFINE i == job[r].inc
           rev == job[r].rev
           failed == SetRunStatus(savepoint, i, rev, "failed")
<1>1. /\ pc[r] \in Publishing
      /\ \A q \in Requests \ {r} : pc'[q] = pc[q] /\ job'[q] = job[q]
      /\ db' = failed \/ db' = db
      /\ writer' = NoRequest
  BY DEF PublicationFails, MarkRejected, FailRun, CommitAs, Goto, TypeOK,
         Publishing
<1>2. /\ writer = r /\ i \in Incidents /\ rev \in Nat
      /\ savepoint \in Image
      /\ rev = Len(savepoint.runs[i])
      /\ Len(db.runs[i]) \in Nat /\ rev = Len(db.runs[i]) + 1
      /\ AccountedBut(savepoint, job[r].todo)
      /\ i \notin job[r].todo
  BY <1>1, PublishingFacts
     DEF AccountsInv, AccountInv, RequestHistory, InputsInv, Analysing
<1>3. DifferInStatus(savepoint, failed, i)
  BY <1>2, SetRunStatusDiffers DEF RunStatus
<1>4. \A k \in 1..Len(savepoint.runs[i]) :
         /\ k = rev => failed.runs[i][k].status = "failed"
         /\ k # rev => failed.runs[i][k].status = savepoint.runs[i][k].status
  BY <1>2, MarkFailedOf
<1> HIDE DEF failed
<1>5. RunsStay(savepoint, failed)
  BY <1>3, <1>4 DEF RunsStay, DifferInStatus
<1>6. rev \in 1..Len(failed.runs[i]) /\ failed.runs[i][rev].status = "failed"
  <2>1. rev \in 1..Len(savepoint.runs[i])
    BY <1>2
  <2> QED
    BY <1>3, <1>4, <2>1 DEF DifferInStatus
<1>7. AccountedBut(failed, {})
  <2> SUFFICES ASSUME NEW j \in Incidents PROVE Accounted(failed, j)
    BY DEF AccountedBut
  <2>1. CASE j = i
    <3>1. Accounted(savepoint, i)
      BY <1>2 DEF AccountedBut
    <3> QED
      BY <1>2, <1>3, <1>5, <2>1, <3>1, AccountsStay DEF DifferInStatus
  <2>2. CASE j # i
    BY <1>2, <1>6, <2>2 DEF Accounted, FailedElsewhere
  <2> QED
    BY <2>1, <2>2
<1>8. AccountedBut(db', {})
  BY <1>1, <1>7 DEF AccountsInv
<1>9. AccountedBut(db, {})'
  BY <1>8 DEF AccountedBut, Accounted, Analysed, FailedElsewhere
<1>10. \A q \in Requests : writer' # q
  BY <1>1, NoRequestAssumption
<1> QED
  BY <1>9, <1>10 DEF AccountsInv, AccountInv

(* A session that ends without an exception owes no analysis.              *)
LEMMA EndAccounts ==
    ASSUME TypeOK, TypeOK', AccountsInv,
           NEW r \in Requests, CommitSession(r) \/ RollbackSession(r)
    PROVE  AccountsInv'
<1>1. /\ pc[r] = "finish" /\ pc'[r] = "done"
      /\ \A q \in Requests \ {r} : pc'[q] = pc[q] /\ job'[q] = job[q]
  BY DEF CommitSession, RollbackSession, Goto, TypeOK
<1>2. AccountInv(r)'
  BY <1>1 DEF AccountInv, Publishing
<1>3. CASE writer = r
  <2>1. /\ writer' = NoRequest
        /\ db' = db \/ (db' = tx /\ ~job[r].failed)
    BY <1>3 DEF CommitSession, RollbackSession, CommitAs, Rollback
  <2>2. AccountedBut(db', {})
    BY <1>1, <1>3, <2>1 DEF AccountsInv, AccountInv
  <2>3. AccountedBut(db, {})'
    BY <2>2 DEF AccountedBut, Accounted, Analysed, FailedElsewhere
  <2>4. \A q \in Requests : writer' # q
    BY <2>1, NoRequestAssumption
  <2> QED
    BY <2>3, <2>4 DEF AccountsInv, AccountInv
<1>4. CASE writer # r
  <2>1. UNCHANGED <<db, tx, savepoint, writer>>
    BY <1>4 DEF CommitSession, RollbackSession, Rollback
  <2>2. AccountedBut(db, {})'
    BY <2>1 DEF AccountsInv
  <2> QED
    BY <1>1, <1>2, <2>1, <2>2, OwnAccounts
<1> QED
  BY <1>3, <1>4

(* Every step of the system keeps the accounts.                            *)
LEMMA AccountsStep ==
    ASSUME TypeOK, TypeOK', JobInv, PublicationInv, HistoryInv, AccountsInv,
           [Next]_vars
    PROVE  AccountsInv'
<1>1. ASSUME NEW r \in Requests, Receive(r) \/ Step(r)
      PROVE  AccountsInv'
  BY <1>1, QuietAccounts, AttachAccounts, CreateAccounts, PublishAccounts,
     FailAccounts, EndAccounts DEF Receive, Step
<1>2. CASE Crash
  <2>1. db' = db /\ \A r \in Requests : writer' # r
    BY <1>2, NoRequestAssumption DEF Crash
  <2> QED
    BY <2>1 DEF AccountsInv, AccountInv
<1>3. CASE EditCatalogue \/ UNCHANGED vars
  <2>1. UNCHANGED <<db, tx, savepoint, writer, pc, job>>
    BY <1>3 DEF EditCatalogue, vars
  <2> QED
    BY <2>1, SMTT(30) DEF AccountsInv, AccountInv
<1> QED
  BY <1>1, <1>2, <1>3 DEF Next, Idle

(* No committed event is attached behind the back of the analysis: whatever *)
(* races, fails or dies, an incident's events are the inputs of one of its  *)
(* runs, or a failed run of another incident tells of the batch that        *)
(* stopped there.                                                          *)
THEOREM AttachedAlwaysAnalysed == Spec => []AttachedIsAnalysed
<1>1. Init => AccountsInv
  <2> SUFFICES ASSUME Init PROVE AccountsInv
    OBVIOUS
  <2>1. AccountedBut(db, {})
    BY DEF Init, EmptyImage, AccountedBut, Accounted
  <2>2. \A r \in Requests : writer # r
    BY NoRequestAssumption DEF Init
  <2> QED
    BY <2>1, <2>2 DEF AccountsInv, AccountInv
<1>2. TypeOK /\ TypeOK' /\ JobInv /\ PublicationInv /\ HistoryInv
      /\ AccountsInv /\ [Next]_vars => AccountsInv'
  BY AccountsStep
<1>3. AccountsInv => AttachedIsAnalysed
  BY DEF AccountsInv, AccountedBut, Accounted, Analysed, FailedElsewhere,
         AttachedIsAnalysed
<1> QED
  BY <1>1, <1>2, <1>3, TypeCorrect, PublicationInvariant, HistoryInvariant, PTL
     DEF Spec
-----------------------------------------------------------------------------
(***************************************************************************)
(* What an unchanged request answers with.                                 *)
(*                                                                         *)
(* A recompute loads the pointer before it holds a lock, and an ingestion   *)
(* under the writer lock.  Either way it loads a published run, which       *)
(* remains one whatever others commit; and a run with the inputs of the     *)
(* request that is current for its session is the one readers are served.   *)
(***************************************************************************)

ServedIn(im, i, k) ==
    k # 0 => k \in 1..Len(im.runs[i]) /\ IsPublished(im.runs[i][k])

(* The pointer a request goes by names a published run.                    *)
ServedPointer(r) ==
    /\ pc[r] = "compare" => ServedIn(db, job[r].inc, job[r].loaded)
    /\ writer # r /\ pc[r] \in {"lock", "inputs"} =>
          \A i \in job[r].todo : ServedIn(db, i, job[r].loaded)

ServedInv == \A r \in Requests : ServedPointer(r)

(* The committed pointer names a published run.                            *)
LEMMA CurrentIsServed ==
    ASSUME NEW im \in Image, ImageSettled(im), NEW i \in Incidents
    PROVE  ServedIn(im, i, im.current[i])
<1>1. im.current[i] \in 0..Len(im.runs[i]) /\ Len(im.runs[i]) \in Nat
  BY LenRuns DEF ImageSettled, Settled
<1>2. ASSUME im.current[i] # 0
      PROVE  im.current[i] \in 1..Len(im.runs[i])
  BY <1>1, <1>2
<1>3. \A k \in 1..Len(im.runs[i]) :
         im.runs[i][k].status = "current" <=> k = im.current[i]
  BY DEF ImageSettled, Settled, SettledRow
<1> QED
  BY <1>2, <1>3 DEF ServedIn, IsPublished

(* A published run stays one.                                              *)
LEMMA ServedStays ==
    ASSUME NEW old \in Image, NEW new \in Image, ImageSettled(old),
           Continues(old, new), NEW i \in Incidents, NEW k,
           ServedIn(old, i, k)
    PROVE  ServedIn(new, i, k)
<1>1. /\ Len(old.runs[i]) \in Nat /\ Len(new.runs[i]) \in Nat
      /\ Len(old.runs[i]) <= Len(new.runs[i])
      /\ KeepsRows(old, new, i)
  BY ContinuesKeeps, LenRuns
<1> QED
  BY <1>1 DEF ServedIn, KeepsRows

(* Nobody takes the writer lock from the request that holds it.            *)
LEMMA WriterIsKept ==
    ASSUME PublicationInv, NEW r \in Requests, Receive(r) \/ Step(r),
           NEW q \in Requests \ {r}, writer = q
    PROVE  writer' = q
<1>1. q # NoRequest /\ WriterBusy(r) /\ writer # r
  BY NoRequestAssumption DEF WriterBusy
<1>2. pc[r] \notin Publishing
  BY <1>1 DEF PublicationInv, StageInv
<1>3. ~InsertEvents(r) /\ ~CreateRun(r)
  BY <1>1 DEF InsertEvents, CreateRun
<1>4. ~PublicationFails(r) /\ ~MarkRejected(r)
  BY <1>2 DEF PublicationFails, MarkRejected, Publishing
<1>5. CommitSession(r) \/ RollbackSession(r) => writer' = writer
  BY <1>1 DEF CommitSession, RollbackSession, Rollback
<1>6. \/ Receive(r)
      \/ InsertRejected(r) \/ AcquireLock(r)
      \/ DetectAndAttach(r) \/ DetectFails(r)
      \/ ReadInputs(r) \/ AllAnalysed(r) \/ SkipUnchanged(r)
      \/ InputsChanged(r) \/ ReadRevision(r)
      \/ CreateRejected(r) \/ WriterTimeout(r) \/ Analyse(r)
      \/ Supersede(r) \/ MarkCurrent(r) \/ SetPointer(r) \/ ReleaseLock(r)
      => writer' = writer
  BY DEF Receive, ReceiveBatch, ReceiveRecompute, InsertRejected, AcquireLock,
         DetectAndAttach, DetectFails, ReadInputs, AllAnalysed, SkipUnchanged,
         InputsChanged, ReadRevision, CreateRejected, WriterTimeout, Analyse,
         Supersede, MarkCurrent, SetPointer, ReleaseLock
<1> QED
  BY <1>3, <1>4, <1>5, <1>6 DEF Step

(* A step of r leaves the other requests where they are.                   *)
LEMMA OthersStay ==
    ASSUME TypeOK, NEW r \in Requests, Receive(r) \/ Step(r),
           NEW q \in Requests \ {r}
    PROVE  pc'[q] = pc[q] /\ job'[q] = job[q]
  BY DEF TypeOK, Receive, Step, Goto, FailRun,
         ReceiveBatch, ReceiveRecompute, InsertEvents, InsertRejected,
         AcquireLock, DetectAndAttach, DetectFails, ReadInputs, AllAnalysed,
         SkipUnchanged, InputsChanged, ReadRevision, CreateRun, CreateRejected,
         WriterTimeout, Analyse, PublicationFails, Supersede, MarkCurrent,
         MarkRejected, SetPointer, ReleaseLock, CommitSession, RollbackSession

(* What r goes by after a step of its own.                                 *)
LEMMA OwnServed ==
    ASSUME TypeOK, TypeOK', JobInv, PublicationInv, HistoryInv, ServedInv,
           NEW r \in Requests, Receive(r) \/ Step(r)
    PROVE  ServedPointer(r)'
<1>1. /\ job[r] \in Job /\ RequestHistory(r) /\ StageInv(r)
      /\ db \in Image /\ ImageSettled(db) /\ ServedPointer(r)
  BY DEF TypeOK, HistoryInv, PublicationInv, ServedInv
<1>2. CASE ReceiveRecompute(r)
  <2>1. PICK i \in Incidents :
           job' = [job EXCEPT ![r].todo = {i}, ![r].loaded = db.current[i]]
    BY <1>2 DEF ReceiveRecompute
  <2>2. job'[r].todo = {i} /\ job'[r].loaded = db.current[i] /\ db' = db
    BY <1>1, <1>2, <2>1 DEF ReceiveRecompute, TypeOK, Job
  <2>3. pc'[r] = "lock"
    BY <1>2 DEF ReceiveRecompute, Goto, TypeOK
  <2>4. ServedIn(db, i, db.current[i])
    BY <1>1, CurrentIsServed
  <2> QED
    BY <2>2, <2>3, <2>4 DEF ServedPointer
<1>3. CASE AcquireLock(r)
  <2>1. /\ UNCHANGED <<db, writer, job>>
        /\ pc[r] = "lock" /\ pc'[r] \in {"inputs", "detect"}
    BY <1>3 DEF AcquireLock, Goto, TypeOK
  <2> QED
    BY <1>1, <2>1 DEF ServedPointer
<1>4. CASE ReadInputs(r)
  <2>1. PICK i \in job[r].todo :
          job' = [job EXCEPT
              ![r].inc = i,
              ![r].todo = @ \ {i},
              ![r].loaded = IF writer = r THEN tx.current[i] ELSE @,
              ![r].fp = [events |-> View(r).attached[i], version |-> version]]
    BY <1>4 DEF ReadInputs
  <2>2. /\ job'[r].inc = i
        /\ job'[r].loaded = IF writer = r THEN tx.current[i] ELSE job[r].loaded
        /\ db' = db /\ pc[r] = "inputs" /\ pc'[r] = "compare"
        /\ i \in Incidents
    BY <1>1, <1>4, <2>1 DEF ReadInputs, Goto, TypeOK, Job
  <2>3. CASE writer = r
    <3>1. tx.current[i] = db.current[i]
      BY <1>1, <2>2, <2>3 DEF RequestHistory, SessionInv, Leaves
    <3> QED
      BY <1>1, <2>2, <2>3, <3>1, CurrentIsServed DEF ServedPointer
  <2>4. CASE writer # r
    BY <1>1, <2>2, <2>4 DEF ServedPointer
  <2> QED
    BY <2>3, <2>4
<1>5. CASE SkipUnchanged(r)
  <2>1. /\ job'[r].todo = job[r].todo /\ writer' = writer
        /\ pc[r] = "compare" /\ pc'[r] = "inputs"
    BY <1>1, <1>5 DEF SkipUnchanged, Goto, TypeOK, Job
  <2> QED
    BY <1>1, <2>1 DEF RequestHistory, LoadedInv, ServedPointer
<1>6. CASE InsertEvents(r) \/ DetectAndAttach(r) \/ SetPointer(r)
  <2>1. writer' = r
    BY <1>1, <1>6 DEF InsertEvents, DetectAndAttach, SetPointer, StageInv,
                      HoldsWriter, Publishing
  <2>2. pc'[r] # "compare"
    BY <1>6 DEF InsertEvents, DetectAndAttach, SetPointer, Goto, TypeOK
  <2> QED
    BY <2>1, <2>2 DEF ServedPointer
<1>7. CASE \/ ReceiveBatch(r) \/ InsertRejected(r) \/ DetectFails(r)
           \/ AllAnalysed(r) \/ InputsChanged(r) \/ ReadRevision(r)
           \/ CreateRun(r) \/ CreateRejected(r) \/ WriterTimeout(r)
           \/ Analyse(r) \/ PublicationFails(r) \/ Supersede(r)
           \/ MarkCurrent(r) \/ MarkRejected(r) \/ ReleaseLock(r)
           \/ CommitSession(r) \/ RollbackSession(r)
  <2>1. pc'[r] \notin {"lock", "inputs", "compare"}
    BY <1>7 DEF TypeOK, Goto, FailRun, ReceiveBatch, InsertRejected,
         DetectFails, AllAnalysed, InputsChanged, ReadRevision, CreateRun,
         CreateRejected, WriterTimeout, Analyse, PublicationFails, Supersede,
         MarkCurrent, MarkRejected, ReleaseLock, CommitSession, RollbackSession
  <2> QED
    BY <2>1 DEF ServedPointer
<1> QED
  BY <1>2, <1>3, <1>4, <1>5, <1>6, <1>7 DEF Receive, Step

(* Every step keeps the invariant.                                         *)
LEMMA ServedStep ==
    ASSUME TypeOK, TypeOK', JobInv, PublicationInv, HistoryInv, ServedInv,
           [Next]_vars
    PROVE  ServedInv'
<1>1. Continues(db, db')
  BY HistoryStep
<1>2. ASSUME NEW q \in Requests, pc'[q] = pc[q], job'[q] = job[q],
             writer' # q => writer # q
      PROVE  ServedPointer(q)'
  <2>1. /\ db \in Image /\ db' \in Image /\ ImageSettled(db)
        /\ pc[q] = "compare" => job[q].inc \in Incidents
        /\ job[q].todo \subseteq Incidents
        /\ ServedPointer(q)
    BY DEF TypeOK, Job, PublicationInv, JobInv, Analysing, ServedInv
  <2>2. \A i \in Incidents :
           ServedIn(db, i, job[q].loaded) => ServedIn(db', i, job[q].loaded)
    BY <1>1, <2>1, ServedStays
  <2> QED
    BY <1>2, <2>1, <2>2 DEF ServedPointer
<1>3. ASSUME NEW r \in Requests, Receive(r) \/ Step(r)
      PROVE  ServedInv'
  <2>1. ServedPointer(r)'
    BY <1>3, OwnServed
  <2>2. ASSUME NEW q \in Requests \ {r} PROVE ServedPointer(q)'
    BY <1>2, <1>3, WriterIsKept, OthersStay
  <2> QED
    BY <2>1, <2>2 DEF ServedInv
<1>4. CASE Crash
  <2>1. \A r \in Requests : pc'[r] \in {"new", "done"}
    BY <1>4 DEF Crash, TypeOK
  <2> QED
    BY <2>1 DEF ServedInv, ServedPointer
<1>5. CASE EditCatalogue \/ UNCHANGED vars
  <2>1. UNCHANGED <<writer, pc, job>>
    BY <1>5 DEF EditCatalogue, vars
  <2> QED
    BY <1>2, <2>1 DEF ServedInv
<1> QED
  BY <1>3, <1>4, <1>5 DEF Next, Idle

(* A run of the session that is current with the inputs of the request is   *)
(* the committed one: the session has published nothing for this incident.  *)
LEMMA UnchangedIsCommitted ==
    ASSUME TypeOK, JobInv, PublicationInv, HistoryInv,
           NEW r \in Requests, SkipUnchanged(r)
    PROVE  LET i == job[r].inc
           IN /\ db.current[i] # 0
              /\ db.runs[i][db.current[i]].fp = job[r].fp
<1> DEFINE i == job[r].inc
<1>1. /\ pc[r] = "compare" /\ i \in Incidents
      /\ FingerprintExistsAsCurrent(View(r), i, job[r].fp)
  BY DEF SkipUnchanged, JobInv, Analysing
<1>2. /\ db \in Image /\ tx \in Image
      /\ ImageSettled(db) /\ ImageSettled(View(r))
      /\ View(r).current[i] = db.current[i]
      /\ Len(View(r).runs[i]) = Len(db.runs[i])
      /\ \A k \in 1..Len(db.runs[i]) :
            View(r).runs[i][k].fp = db.runs[i][k].fp
  <2>1. CASE writer # r
    BY <2>1 DEF TypeOK, PublicationInv, View
  <2>2. CASE writer = r
    <3>1. Leaves(db, tx, i) /\ ImageSettled(tx) /\ View(r) = tx
      BY <1>1, <2>2 DEF HistoryInv, RequestHistory, SessionInv,
                        PublicationInv, StageInv, Publishing, View
    <3> QED
      BY <3>1 DEF TypeOK, PublicationInv, Leaves, KeepsRows
  <2> QED
    BY <2>1, <2>2
<1>3. PICK k \in 1..Len(View(r).runs[i]) :
         /\ View(r).runs[i][k].status = "current"
         /\ View(r).runs[i][k].fp = job[r].fp
  BY <1>1 DEF FingerprintExistsAsCurrent, CurrentRevisions
<1>4. k = db.current[i]
  BY <1>1, <1>2, <1>3 DEF ImageSettled, Settled, SettledRow
<1>5. Len(View(r).runs[i]) \in Nat /\ k # 0
  BY <1>1, <1>2, LenRuns
<1> QED
  BY <1>2, <1>3, <1>4, <1>5

(* Whatever races, nothing is skipped but what is served: a request that    *)
(* finds its inputs unchanged leaves its incident with a committed current  *)
(* run of exactly these inputs, and answers with a published run of it, no  *)
(* newer than that one, or with none.                                      *)
THEOREM UnchangedAlwaysServed == Spec => UnchangedIsServed
<1>1. Init => ServedInv
  BY DEF Init, EmptyJob, ServedInv, ServedPointer
<1>2. TypeOK /\ TypeOK' /\ JobInv /\ PublicationInv /\ HistoryInv
      /\ ServedInv /\ [Next]_vars => ServedInv'
  BY ServedStep
<1>3. TypeOK /\ JobInv /\ PublicationInv /\ HistoryInv /\ ServedInv
      /\ [Next]_vars => [\A r \in Requests : ServedIfUnchanged(r)]_vars
  <2> SUFFICES ASSUME TypeOK, JobInv, PublicationInv, HistoryInv, ServedInv,
                      Next, NEW r \in Requests,
                      pc[r] = "compare", pc'[r] = "inputs"
               PROVE  ServedIfUnchanged(r)
    BY DEF ServedIfUnchanged
  <2>1. SkipUnchanged(r)
    <3>1. pc' # pc
      OBVIOUS
    <3>2. ~Crash
      BY DEF Crash, TypeOK
    <3>3. PICK q \in Requests : Receive(q) \/ Step(q)
      BY <3>1, <3>2 DEF Next, EditCatalogue, Idle, vars
    <3>4. q = r
      BY <3>3, OthersStay
    <3> QED
      BY <3>3, <3>4
         DEF TypeOK, Receive, Step, Goto, FailRun, ReceiveBatch,
             ReceiveRecompute, InsertEvents, InsertRejected, AcquireLock,
             DetectAndAttach, DetectFails, ReadInputs, AllAnalysed,
             InputsChanged, ReadRevision, CreateRun, CreateRejected,
             WriterTimeout, Analyse, PublicationFails, Supersede, MarkCurrent,
             MarkRejected, SetPointer, ReleaseLock, CommitSession,
             RollbackSession
  <2>2. job'[r].result = job[r].loaded
    BY <2>1 DEF SkipUnchanged, TypeOK, Job
  <2>3. /\ db.current[job[r].inc] # 0
        /\ db.runs[job[r].inc][db.current[job[r].inc]].fp = job[r].fp
    BY <2>1, UnchangedIsCommitted
  <2>4. job[r].loaded <= db.current[job[r].inc]
    BY DEF HistoryInv, RequestHistory, InputsInv, Analysing
  <2>5. ServedIn(db, job[r].inc, job[r].loaded)
    BY DEF ServedInv, ServedPointer
  <2> QED
    BY <2>2, <2>3, <2>4, <2>5 DEF ServedIfUnchanged, ServedIn, IsPublished
<1> QED
  BY <1>1, <1>2, <1>3, TypeCorrect, PublicationInvariant,
     HistoryInvariant, PTL DEF Spec, UnchangedIsServed
=============================================================================
