SPECIFICATION PartsSpec
CONSTANTS
    r1 = r1
    r2 = r2
    r3 = r3
    w1 = w1
    w2 = w2
    w3 = w3
    kgw = kgw
    peer = peer
    other = other
    e1 = e1
    e2 = e2
    i1 = i1
    Nil = Nil
    c1 = c1
    c2 = c2
    c3 = c3
    near = near
    far = far
    Resource <- MCResource
    Worker <- MCWorker
    MaxWorkers = 2
INVARIANT RetainerExact
PROPERTIES ImplementsRequests PoolServes ListsSettle DiscoveryHeals
CHECK_DEADLOCK FALSE
