SPECIFICATION FairSpec
CONSTANTS
    Client = {c1}
    LocalClient = {c1}
    Backend = {b1, b2}
    Cluster = {"eds", "error", "static"}
    Endpoint = {"e1", "e2"}
    Translation = {"g1"}
    MaxEvents = 3
PROPERTIES  PublishesLatest NoneStaysWarming
CHECK_DEADLOCK FALSE
