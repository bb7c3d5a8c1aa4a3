CONSTANTS
    Submissions = {s1, s2}
    Actions = {a1, a2}
    Hypotheses = {h1, h2}
    MaxRuns = 2
    NoHypothesis = NoHypothesis
    NoReview = NoReview
SPECIFICATION Spec
PROPERTY ClosedStaysClosed
