SPECIFICATION MCSpec
CONSTANTS
    USHORT = 8
    NULL = NULL
    Texts <- MCTexts
    WideTexts <- MCWideTexts
    Rooms = {0, 3, 4}
    MaxCalls = 3
    ULONG = 256
    Truncate = Truncate
    ArraySize = 4
    Sources <- MCSources
    Counts = {0, 1, 3}
    ScanBuf = 10
    FormatTmp = 6
    MaxPath = 9
    IniSlack = 5
    ByteBase = 2
    RingSize = 4
    RingStart = 2
    TempNames = 4
    Epoch = 3
    Ticks = 4
INVARIANTS TextLaws PathLaws PixelLaws
PROPERTY StringBuffers
CHECK_DEADLOCK FALSE
