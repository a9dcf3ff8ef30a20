SPECIFICATION LiveSpec
CONSTANTS
    Aps = 2
    Envs = {{"offline", "nudge", "again", "other", "early"},
            {"offline", "nudge"},
            {"offline", "again", "early"},
            {"offline", "again", "other"}}
INVARIANTS
    NeverStuck
    LiveIsOpenUnlessEarly
    OnlineIsAnsweredOnce
    OutboxNeedsLinkOfUser
    ReadyIsSendingUnlessNudged
PROPERTIES
    TerminatedStays
    LateLossIgnored
    OutboxComesBack
