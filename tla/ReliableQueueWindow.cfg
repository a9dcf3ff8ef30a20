SPECIFICATION Spec
CONSTANTS
    N = 2
    F = 0
    MaxRetries = 1
    MaxInFlight = 2
    CmdCap = 1
    MaxAcks = 1
    Env = {"pause", "resend"}
INVARIANTS
    UnwrittenHasFrame
    FirstWriteInOrder
