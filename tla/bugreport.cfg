\* The detector with executions that vary and fail and the runners' thresholds;
\* sqlsim on reports against DBMSs with one bug; sqlsimx on small scripts.
SPECIFICATION MCSpec
CHECK_DEADLOCK FALSE
CONSTANTS
    None = None
    NoColumns = NoColumns
    NoTable = NoTable
    Rows <- AllRows
    FlatOf <- RowText
    MaxRows = 3
    Outcomes <- ReExecuted
    ReExecutions = 3
    SmallDiff = 1
    ThresholdPercent = 67
    Mutations = {"FixMAllToAnyU", "FixMNullEqToLowerL"}
    Table <- TwoRows
    Image <- Images
    Reports <- BugReports
    DBMSs <- BuggyDBMSs
    Scripts <- DdlScripts
    Statements <- Selections
    DmlFuncs <- Functions2
INVARIANTS
    SuspicionJustified
    SimplifiedBug
    SameResult
