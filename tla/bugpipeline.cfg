\* Two tasks, one connector, two versions, five commands, any of which may be
\* killed.
SPECIFICATION Spec
CHECK_DEADLOCK FALSE
CONSTANTS
    b1 = b1
    b2 = b2
    Tasks = {1, 2}
    Bugs = {b1, b2}
    Found <- TwoTasks
    Newest = 2
    ThreadNum = 1
    WhereStatuses = {1}
    ReportTime <- Times
    MaxCommands = 5
    NoDir = NoDir
INVARIANTS
    VerifiedOnce
    SortedOnce
    VerifiedAll
    ClassifiedRight
    OnlyResultsPass
