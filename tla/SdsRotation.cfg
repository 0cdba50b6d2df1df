SPECIFICATION FairSpec
CONSTANTS
    Torn = Torn
    None = None
    Secrets = 1
    MaxAttempts = 2
    Styles = {"write", "rename", "swap"}
    MaxGen = 3
 
PROPERTIES SeenRotationServed
CHECK_DEADLOCK FALSE
