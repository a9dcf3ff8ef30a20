SPECIFICATION ClientSpec
CONSTANTS
    NoOne = NoOne
    Endpoints = {"e1", "e2"}
    Users = {"u1"}
    Tokens = {"t1"}
    JournalMax = 2
    MaxBinding = 2
    MaxGeneration = 2
    Nobody = Nobody
    Accounts = {"ann", "bob"}
    Calls = {"c1", "c2"}
    TokenTasks = {"link", "host"}
    MaxCalls = 2
    SessionEnv = {}
    Ids = {"m1", "m2"}
    MaxTime = 2
    MaxEnqueues = 4
INVARIANTS
    BindingIsRevocable
    ConfirmedIsBound
    
    StoreOfUser
    NoOrphanLink
    WatcherIsWoken
    StampsFollowSendOrder
PROPERTIES
    UnwantedIsRevoked
CHECK_DEADLOCK FALSE
