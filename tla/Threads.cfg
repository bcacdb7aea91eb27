SPECIFICATION MCSpec
CONSTANTS
    Programs = {"any"}
    MaxFiber = 3
    CSs = {}
    SRWs = {}
    CVs = {}
    NoAddr = NoAddr
    MaxCS = 1
    MaxSRW = 1
    MaxCV = 1
    MaxEvent = 0
    MaxMutex = 0
    MaxSem = 0
    Names = {}
    NoName = NoName
    Works = {}
    NoWork = NoWork
    MaxWaitObjects = 2
    Api = {"Sleep", "SetLastError", "CreateThread", "Return", "ExitThread", "TerminateThread", "ResumeThread", "SuspendThread", "Wait"}
    Delays = {1, 2}
    Infinite = 3
    MaxClock = 2
    ErrCodes = {8}
    ExitCodes = {0}
    MaxRec = 1
    Disciplined = TRUE
    SemMax = 1
    RelCounts = {1}
    IntMax = 7
    WaitSets <- JoinWaits
INVARIANTS TypeOK OneRunning LastErrorIsolated DeadlinesKept
PROPERTY NeverBack
