SPECIFICATION FairSpec
CONSTANTS
    b1 = b1
    b2 = b2
    s1 = s1
    s2 = s2
    k1 = k1
    k2 = k2
    i1 = i1
    None = None
    Unresolved = Unresolved
    Backend = {b1, b2}
    Semantics = {s1, s2}
    Credential = {k1, k2}
    Instance = {i1}
    Specs <- Variants
    Scenarios <- Runs
INVARIANTS NeverWrongTargets
PROPERTIES FailureKeepsEndpoints RefreshesConverge
