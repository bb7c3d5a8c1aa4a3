CONSTANTS
    Requests = {q1, q2, q3}
    m1 = m1
    m2 = m2
    a1 = a1
    a2 = a2
    x1 = x1
    Metrics = {m1, m2}
    Alerts = {a1, a2}
    Invalid = {x1}
    Batches <- SmallBatches
    MaxResets = 1
    Resetter = Resetter
    NoRequest = NoRequest
SYMMETRY Symmetry
SPECIFICATION Spec
INVARIANTS TypeOK AnswersAreStored StormsHaveRepresentatives CommittedSamplesAreKept BaselineStartsFresh
PROPERTY BaselineOnlyGrows
