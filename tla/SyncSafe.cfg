SPECIFICATION ConversationSpec
CONSTANTS
    N = 4
    Page = 2
    Events = {3}
    Absent = {}
    Pings = 2
    Envs = {{"push", "event"},
            {"push", "wire"},
            {"push", "disk", "crash", "fail"},
            {"ping", "fail", "disk"},
            {"event", "disk", "crash"},
            {"sync", "stale", "crash", "disk"},
            {"after", "before", "sync", "clear"},
            {"event", "clear", "disk"},
            {"event", "sync"}}
    Own = {}
    Readers = {"r1"}
    ReadEnvs <- ReadSurroundings
INVARIANTS
    CursorCoversMessages
    CoverageIsTrue
    
    FlightIsReal
    ReadIsReportable
    
CHECK_DEADLOCK FALSE
