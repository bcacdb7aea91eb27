SPECIFICATION MCSpec
CONSTANTS
    NONE = NONE
    Names = {1, 2}
    Fds = {0, 1, 2}
    Std = {0}
    Builds = {b1, b2}
    Includes <- MCIncludes
    Budget = 2
    MaxLen = 1
    DynFiles = {10}
    PopenSlots = {1}
    Children = {1, 2}
    NtSlots = {1}
    MapSlots = {1}
    LzSlots = {1}
    Clean = TRUE
    MaxHeld = 3
    MaxCalls = 6
    MaxMixed = 3
    Unbounded = {"scan", "map", "lz", "race"}
    Parts = {"race"}
INVARIANTS NeverWrongBytes
