\* An ordinary query.
SPECIFICATION Spec
CHECK_DEADLOCK FALSE
CONSTANTS
    Tasks = {t1}
    Lone = t1
    Names = {m1}
    Rows = {1, 2, TextRow}
    FlatOf <- RowText
    NumberOf <- ValueOf
    NumericRows <- NumbersAndNulls
    NaN = NaN
    NotNumber = NotNumber
    NULLRow = NULLRow
    TextRow = TextRow
    QueryKinds <- Plain
    MaxDml = 1
    Configs <- Mysql
    Outcomes <- OutcomesFor
    Units <- UnitsFor
    MaxUnits <- MaxUnitsFor
    Errors = {}
INVARIANT NoMissedBug
