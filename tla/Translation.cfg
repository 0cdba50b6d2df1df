SPECIFICATION PartsSpec
CONSTANTS
    k1 = k1
    k2 = k2
    gw1 = gw1
    e1 = e1
    p1 = p1
    nil = nil
    Key <- TwoKeys
    Gateway <- OneGateway
    GatewayOf <- SameGateway
    MaxPending = 2
INVARIANTS
    SettledExact ChainsCarryTheirPolicies MostSpecificFieldWins 
     ListenersAsConfigured ResolvedAsAsked SameContextSameCla ServedExact
CHECK_DEADLOCK FALSE
