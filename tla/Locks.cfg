SPECIFICATION MCSpec
CONSTANTS
    Programs = {"condvars", "srw", "srw_sleep"}
    MaxFiber = 3
    CSs = {c1}
    SRWs = {l1}
    CVs = {v1}
    NoAddr = NoAddr
    MaxCS = 1
    MaxSRW = 1
    MaxCV = 1
    MaxEvent = 0
    MaxMutex = 0
    MaxSem = 0
    Names = {}
    NoName = NoName
    Works = {}
    NoWork = NoWork
    MaxWaitObjects = 2
    Api = {"CreateThread", "Return", "Yield", "CriticalSection", "SRWLock", "ConditionVariable", "Wake", "WakeAll"}
    Delays = {}
    Infinite = 3
    MaxClock = 1
    ErrCodes = {0}
    ExitCodes = {0}
    MaxRec = 1
    Disciplined = TRUE
    SemMax = 1
    RelCounts = {1}
    IntMax = 7
    WaitSets <- NoWaits
INVARIANTS LockExclusion NoGrantLeak WaitFieldsMatch
