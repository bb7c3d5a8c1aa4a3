CONSTANTS
    g = g
    c = c
    p = p
    t1 = t1
    saturation = saturation
    pressure = pressure
    maintenance = maintenance
    stableIngress = stableIngress
    normalDb = normalDb
    ingress = ingress
    other = other
    NoTrace = NoTrace
    NoFamily = NoFamily
    Events <- WorldEvents
    EntityOf <- WorldEntity
    TimeOf <- WorldTime
    TraceOf <- WorldTrace
    FamiliesOf <- WorldFamilies
    AnomaliesOf <- WorldAnomalies
    RulesOf <- WorldRules
    FamilyOf <- WorldFamilyOf
    SignalOf <- WorldSignal
    HopsOf <- Hops
    Incompatible <- WorldIncompatible
    OpenThreshold = 75
    AttachThreshold = 40
    NearSeconds = 60
    IdleSeconds = 300
    LookbackSeconds = 300
    MaxIncidents = 3
    Filters <- Listings
    PageLimit = 1
SPECIFICATION PagesSpec
INVARIANTS TypeOK SummaryOfAttached
PROPERTIES NothingIsPassedOver TurnDecides ClosedReceivesNothing
