SPECIFICATION Spec
CONSTANTS
    p1 = p1  p2 = p2  t1 = t1  t2 = t2
    Legacy = {"l1", "l2"}
    Base = "base"
    New = {"column", "fill", "check", "again", "orphan"}
    Creates <- MCCreates
    Needs <- MCNeeds
    Alters <- MCAlters
    Backfills = {"fill"}
    Requires = {"check"}
    Structure = {"users", "rankings"}
    AcceptedDrifts <- MCAccepted
    UnknownDrifts <- MCUnknown
    Releases = {"old", "r1", "r2", "orphan", "hole", "twice"}
    Directory <- MCDirectory
    LeavesNull = {"old", "r1"}
    FirstRelease = "old"
    Pipes = {p1, p2}
    Catalogue <- MCCatalogue
    MaxFaults = 1
    MaxBoots = 2
SYMMETRY Interchangeable
CONSTRAINT OneScene
INVARIANTS
    HistoryTellsSchema
    RemovedRowsAreBackedUp
    RefusalsAreExplained
    BootstrapIsComplete
CHECK_DEADLOCK FALSE
