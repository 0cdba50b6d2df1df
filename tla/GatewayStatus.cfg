SPECIFICATION FairSpec
CONSTANTS
    Services = {ip1, ip2}
    Steps = 2
    Specs = {plain, odd}
    BadAddress = {odd}
    LoadBalancer = FALSE
    ListenerFaults = TRUE
    MaxEvents = 2
PROPERTIES OwnFieldsOnly StatusConverges
CHECK_DEADLOCK FALSE
