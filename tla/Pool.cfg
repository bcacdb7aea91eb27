SPECIFICATION MCLiveSpec
CONSTANTS
    Programs = {"pool"}
    MaxFiber = 4
    CSs = {}
    SRWs = {}
    CVs = {}
    NoAddr = NoAddr
    MaxCS = 1
    MaxSRW = 1
    MaxCV = 1
    MaxEvent = 0
    MaxMutex = 0
    MaxSem = 0
    Names = {n1}
    NoName = NoName
    Works = {w1}
    NoWork = NoWork
    MaxWaitObjects = 2
    Api = {"Open", "Return", "Yield", "ThreadpoolWork", "ThreadpoolWait"}
    Delays = {}
    Infinite = 3
    MaxClock = 1
    ErrCodes = {2}
    ExitCodes = {0}
    MaxRec = 1
    Disciplined = TRUE
    SemMax = 1
    RelCounts = {1}
    IntMax = 7
    WaitSets <- NoWaits
INVARIANT WorkCounted
PROPERTIES NoStarvation PoolWaitReturns
