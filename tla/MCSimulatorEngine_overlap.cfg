CONSTANTS
    Clients = {c1, c2}
    Workers = {w1, w2}
    BaselineLength = 1
    ScenarioLength = 1
    NoThread = NoThread
SPECIFICATION StartedSpec
INVARIANT BaselineHasNoGap
