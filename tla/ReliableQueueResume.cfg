SPECIFICATION Spec
CONSTANTS
    N = 1
    F = 0
    MaxRetries = 2
    MaxInFlight = 1
    CmdCap = 1
    MaxAcks = 1
    Env = {"resend"}
PROPERTIES
    ResumeResends
