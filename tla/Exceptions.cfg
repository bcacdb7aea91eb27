SPECIFICATION MCSpec
CONSTANTS
    MaxAddr = 2
    ScopeTables <- MCScopeTables
    FuncInfos <- MCFuncInfos
    HandWritten = TRUE
    Exceptions <- MCExceptionSet
    Veh = {"v1"}
    MaxVeh = 1
    MaxNest = 2
    RaiseIn = {"filter", "dtor"}
    JmpSlots = 2
    FaultAddrs = {1}
    FaultDepth = 1
    SameFaults = 1
    Types <- MCTypes
    Bases <- MCBases
    Sites <- MCSites
    Objs = {1, 2}
    MaxFrames = 3
    NestedCatch = FALSE
INVARIANTS ChainSound ObjectLifetime
PROPERTY CleanupInnerFirst
