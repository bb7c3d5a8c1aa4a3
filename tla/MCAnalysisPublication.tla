----------------------- MODULE MCAnalysisPublication -----------------------
(* Small instances of AnalysisPublication.                                 *)
EXTENDS AnalysisPublication, TLC

CONSTANTS FirstEvent, FirstIncident

(* Requests, incidents and events are only compared for equality.          *)
RequestSymmetry == Permutations(Requests)

(* The database after one ingestion: FirstEvent opened FirstIncident and    *)
(* revision 1 was published.  Starting here leaves every request free to    *)
(* take part in a race.                                                    *)
FirstFingerprint == [events |-> {FirstEvent}, version |-> 0]

OneIncidentImage ==
    SetCurrentAnalysisRun(
        SetRunStatus(
            InsertBuilding(
                Attach(StoreEvents(EmptyImage, {FirstEvent}), {FirstIncident},
                       [i \in Incidents |-> IF i = FirstIncident
                                            THEN {FirstEvent} ELSE {}]),
                FirstIncident, FirstFingerprint),
            FirstIncident, 1, "current"),
        FirstIncident, 1)

StartedInit ==
    /\ db = OneIncidentImage
    /\ tx = OneIncidentImage
    /\ savepoint = OneIncidentImage
    /\ writer = NoRequest
    /\ orchestratorLock = NoRequest
    /\ version = 0
    /\ pc = [r \in Requests |-> "new"]
    /\ job = [r \in Requests |-> EmptyJob]

(* From the empty database, the first ingestion ran alone and in one step.  *)
FirstIngestion ==
    /\ db' = OneIncidentImage
    /\ tx' = OneIncidentImage
    /\ savepoint' = OneIncidentImage
    /\ UNCHANGED <<writer, orchestratorLock, version, pc, job>>

StartedNext == IF db = EmptyImage THEN FirstIngestion ELSE Next

StartedSpec == Init /\ [][StartedNext]_vars /\ Fairness
=============================================================================
