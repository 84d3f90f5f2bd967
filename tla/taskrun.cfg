\* Tasks alone in every configuration, and two tasks of a pool.
SPECIFICATION Spec
CHECK_DEADLOCK FALSE
CONSTANTS
    Tasks = {t1, t2}
    Lone = t1
    Names = {m1, m2}
    Rows = {1, 2, NULLRow, TextRow}
    FlatOf <- RowText
    NumberOf <- ValueOf
    NumericRows <- NumbersAndNulls
    NaN = NaN
    NotNumber = NotNumber
    NULLRow = NULLRow
    TextRow = TextRow
    QueryKinds <- PlainAndCount
    MaxDml = 1
    Configs <- Everything
    Outcomes <- OutcomesFor
    Units <- UnitsFor
    MaxUnits <- MaxUnitsFor
    Errors = {m1}
INVARIANTS
    ReportsNumbered
    StatsMatchResults
    UnitsSortable
    FalsePositivesAreReports
    NoFalseAlarm
    NoMissedCount
    ResultMeansFinished
PROPERTIES
    AllFinish
