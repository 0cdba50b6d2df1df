SPECIFICATION PartsSpec
CONSTANTS
    w1 = w1
    w2 = w2
    Policy <- SomePolicies
    Backend <- SomeBackends
    Route <- SomeRoutes
    Gateway <- OneGateway
    ListenerSet <- TwoListenerSets
    Source <- Sources
    Created <- Ages
    ListenerSetOrder <- SetsByAge
    GrantKey <- SomeGrants
    ForBackends <- BackendPolicyKinds
    AliasKinds <- Aliases
    BackendKinds <- KindsOfBackends
    GlobalNamespace = "sys"
    Orders <- TwoOrders
    Start <- SomeClusters
    Edits <- SomeEdits
    MaxEvents = 2
INVARIANTS
       HostsIsolated StatusTellsServed
     OnlyInvalidRulesFall
 
CHECK_DEADLOCK FALSE
