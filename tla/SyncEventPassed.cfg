SPECIFICATION Spec
CONSTANTS
    N = 4
    Page = 2
    Events = {3}
    Absent = {}
    Pings = 0
    Envs = {{"push", "event"}}
INVARIANTS
    FailedEventStaysAhead
CHECK_DEADLOCK FALSE
