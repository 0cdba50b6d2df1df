SPECIFICATION WatchSpec
CONSTANTS
    h1 = h1
    h2 = h2
    i1 = i1
    Known <- TLSRoute
    Served <- Releases
    IncludeLegacy = TRUE
    Attempts = 2
    MaxUpgrades = 1
    Handler = {h1, h2}
    Index = {i1}
    Watched = "v1alpha3"
INVARIANTS OnlyPreferredRuns SyncedMeansSeen
PROPERTIES WatchConverges
CHECK_DEADLOCK FALSE
