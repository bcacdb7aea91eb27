SPECIFICATION MCSpec
CONSTANTS
    Programs = {"events", "objects"}
    MaxFiber = 3
    CSs = {}
    SRWs = {}
    CVs = {}
    NoAddr = NoAddr
    MaxCS = 1
    MaxSRW = 1
    MaxCV = 1
    MaxEvent = 1
    MaxMutex = 1
    MaxSem = 1
    Names = {}
    NoName = NoName
    Works = {}
    NoWork = NoWork
    MaxWaitObjects = 2
    Api = {"CreateThread", "Return", "Wait", "CreateMutex", "ReleaseMutex", "CreateSemaphore", "ReleaseSemaphore", "CreateEvent", "SetEvent", "ResetEvent", "WSAEventSelect"}
    Delays = {}
    Infinite = 3
    MaxClock = 1
    ErrCodes = {0}
    ExitCodes = {0}
    MaxRec = 2
    Disciplined = TRUE
    SemMax = 1
    RelCounts = {1}
    IntMax = 7
    WaitSets <- HandleWaitSets
INVARIANTS SignalsConserved MutexExclusion
