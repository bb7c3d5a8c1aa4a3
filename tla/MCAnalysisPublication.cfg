CONSTANTS
    Requests = {q1, q2}
    Incidents = {i1}
    Events = {e1, e2, e3}
    MaxVersion = 2
    NoRequest = NoRequest
    NoIncident = NoIncident
    FirstEvent = e1
    FirstIncident = i1
SPECIFICATION StartedSpec
INVARIANTS TypeOK PointerIsCurrent NoCommittedBuilding AttachedIsAnalysed
PROPERTIES RevisionLogSpec UnchangedIsServed RequestsEnd
