CONSTANTS
    gw = gw
    co = co
    pay = pay
    db = db
    Entities = {gw, co, pay, db}
    NoEntity = NoEntity
    NoValue = NoValue
    EntityType <- TypeOfEntity
    Catalogue <- ShippedCatalogue
    Quarantined = {}
    Incidents <- AllIncidents
    Playbook <- ShippedPlaybook
    PastIncidents <- SeededHistory
    Modes = {"template", "unwired", "llm"}
    AnomalyThreshold = 75
    Window = 300
    RecentLimit = 6
    LogRules <- ShippedLogRules
    ReferenceTypes <- ShippedReferenceTypes
SPECIFICATION Spec
INVARIANTS TypeOK CascadesFollowTheirCause CascadesDoNotCascade
           WholeTracesPass TopologySearchesAgree CausesAreLocated
           PaintedEdgesJoinPaintedNodes EvidenceIdsAreDistinct
           AppliedConflictsAreShown ExplanationIsSound CoverageAgrees
