SPECIFICATION FairSpec
CONSTANTS
    Torn = Torn
    None = None
    Secrets = 1
    MaxAttempts = 2
    Styles = {"swap"}
    MaxGen = 2
PROPERTIES RotationServed
CHECK_DEADLOCK FALSE
