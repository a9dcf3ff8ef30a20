SPECIFICATION RefreshSpec
CONSTANTS
    Newest = 2
    NoticeRetries = 1
    SourceCount = 2
    MaxWaiters = 1
PROPERTY NoticeIsKept
CHECK_DEADLOCK FALSE
