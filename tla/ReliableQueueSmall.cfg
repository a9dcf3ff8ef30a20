SPECIFICATION Spec
CONSTANTS
    N = 2
    F = 1
    MaxRetries = 1
    MaxInFlight = 1
    CmdCap = 1
    MaxAcks = 1
    Env = {"accept", "busy", "refuse", "lose", "sync", "pause", "resend", "keep", "reset", "stale", "crash", "disk"}
INVARIANTS
    TrackedIsPending
    SentIsStored
    

    
