SPECIFICATION FairSpec
CONSTANTS
    s1 = s1
    s2 = s2
    s3 = s3
    gw = gw
    labelled = labelled
    bare = bare
    NoPod = NoPod
    NoName = NoName
    NoRole = NoRole
    Stream <- ThreeStreams
    Role <- OneRole
    RoleOf <- SameRole
    OldEnvoy <- Third
    PodState <- Pods
    GatewayOf <- Labels
    UsePods = TRUE
    XdsAuth = FALSE
    MaxPodEvents = 1
    MaxOpens = 3
INVARIANTS ServedFromItsBucket
 
CHECK_DEADLOCK FALSE
