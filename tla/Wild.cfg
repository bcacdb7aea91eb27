SPECIFICATION MCSpec
CONSTANTS
    Programs = {"any"}
    MaxFiber = 2
    CSs = {c1, c2}
    SRWs = {}
    CVs = {v1}
    NoAddr = NoAddr
    MaxCS = 1
    MaxSRW = 1
    MaxCV = 1
    MaxEvent = 0
    MaxMutex = 0
    MaxSem = 0
    Names = {}
    NoName = NoName
    Works = {}
    NoWork = NoWork
    MaxWaitObjects = 2
    Api = {"CreateThread", "Return", "Yield", "Register", "CriticalSection", "DeleteCriticalSection", "ConditionVariable", "Wake"}
    Delays = {1}
    Infinite = 3
    MaxClock = 1
    ErrCodes = {0}
    ExitCodes = {0}
    MaxRec = 1
    Disciplined = FALSE
    SemMax = 1
    RelCounts = {1}
    IntMax = 7
    WaitSets <- NoWaits
INVARIANT CsOwnedIffDeep
