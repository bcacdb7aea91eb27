SPECIFICATION MCSpec
CONSTANTS
    Roots = 1
    MaxKey = 4
    MaxVal = 2
    NameCap = 3
    DataCap = 2
    Paths <- MCPaths
    ValueNames <- MCNames
    DataSet <- MCData
    Types = {"sz", "expand"}
    Tables <- MCTables
    NoName = NoName
INVARIANT RegistryAnswers
PROPERTIES RefinesTree QueryEnds
