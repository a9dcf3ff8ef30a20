SPECIFICATION SyncLiveSpec
CONSTANTS
    N = 3
    Page = 2
    Events = {2}
    Absent = {}
    Pings = 2
    Envs = {{"event", "ping"},
            {"wire", "ping"},
            {"clear", "ping"}}
    Own = {}
    Readers = {"r1"}
    ReadEnvs <- ReadSurroundings
PROPERTIES
    PingAnswered
CHECK_DEADLOCK FALSE
