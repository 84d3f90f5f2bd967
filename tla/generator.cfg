\* Small databases, with all features and without JOINs.
SPECIFICATION Spec
CONSTANTS
    Databases <- SmallDatabases
    Configs <- AllOrNoJoin
    MaxDepth = 2
INVARIANTS
    RefsResolve
    TypesComparable
PROPERTIES
    Generated
