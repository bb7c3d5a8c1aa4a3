CONSTANTS
    Requests = {q1, q2}
    Incidents = {i1}
    Events = {e1, e2}
    MaxVersion = 0
    NoRequest = NoRequest
    NoIncident = NoIncident
    FirstEvent = e1
    FirstIncident = i1
    Readers = {g1}
    MaxEpoch = 1
SYMMETRY RequestSymmetry
SPECIFICATION StartedReading
INVARIANTS ReaderTypeOK AnswersAreWhole StaleIsOvertaken
