\* A candidate below NOT, and a comparison beside it that is mutated instead.
SPECIFICATION PgSpec
CONSTANTS
    Ints <- TwoInts
    NULL = NULL
    None = None
    Statements <- UnderNot
    Nodes <- AllNodes
    Parsed <- ParsedNodes
    Depth <- Depths
INVARIANT EveryImplicationHolds
