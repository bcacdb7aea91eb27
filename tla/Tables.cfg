SPECIFICATION MCSpec
CONSTANTS
    Regions = {r1, r2}
    Grid <- MCGrid
    Boxes <- MCBoxes
    Shapes <- MCShapes
    Risky = {}
    GdiMax = 7
    SaveMax = 2
    StockIds = {0, 7, 13, 15}
    Display = TRUE
    MenuMax = 4
    MItemMax = 3
    MenuWindows = {w1, w2}
    SysCommands <- MCSysCommands
    AtomMax = 2
    NameRoom = 2
    AtomTables = {"local", "global"}
    AtomNames <- MCAtomNames
    AtomFold <- MCFold
    ComAddrs = {1, 2, 7, 15, 23}
    ComCap = 2
    ComSizes = {0, 2}
    ListBoxes = {b1, b2}
    ItemTexts = {"x", "y"}
    FirstCap = 2
    Oom = {"none", "array"}
    BoxMax = 3
    Buttons = {1, 2, 3, 4, 5}
    BsType <- MCBsType
    BsParent <- MCBsParent
    TreeMax = 3
    DataMax = 3
    Owners = {w1, w2}
    DataKeys = {k1, k2}
    DataVals = {1, 2}
    Ends = {0, 2, 5}
    Imls = {i1, i2}
    ImlCx = 2
    ImlCap = 1
    Sources <- MCSources
    ImlMax = 4
INVARIANTS GdiOwnership RegionSound ControlsSound TablesReadBack ComTracked
PROPERTIES RestoreIsSave ListsKept TreeWalks
