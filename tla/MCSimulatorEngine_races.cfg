CONSTANTS
    Clients = {c1, c2, c3}
    Workers = {w1, w2}
    BaselineLength = 2
    ScenarioLength = 1
    NoThread = NoThread
SPECIFICATION StartedSpec
INVARIANT TypeOK
PROPERTIES OnlyResetOpensGap RequestsEnd
