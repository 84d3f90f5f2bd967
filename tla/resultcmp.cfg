\* Results of all connectors, with every spelling of a number but -0; and
\* scripts of two statements with quotes of every kind.
SPECIFICATION MCSpec
CHECK_DEADLOCK FALSE
CONSTANTS
    Scripts <- SomeScripts
    Rows <- Printed
    FlatOf <- NormalText
    Connectors <- AllConnectors
    Plain = Plain
    Places = 3
    MaxRows = 3
INVARIANTS
    MapIsRemainder
    CMPIsContainment
    NumbersCompared
    StatementsFound
