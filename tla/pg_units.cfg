\* Every kind of statement; the directions wherever a mutation has one.
SPECIFICATION PgSpec
CONSTANTS
    Ints <- TwoInts
    NULL = NULL
    None = None
    Statements <- EveryStatement
    Nodes <- AllNodes
    Parsed <- ParsedNodes
    Depth <- Depths
INVARIANTS
    UnitsIndependent
    ImplicationHolds
