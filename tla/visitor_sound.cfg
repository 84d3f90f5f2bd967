\* The fragment in which the claimed direction is right.
SPECIFICATION Spec
CONSTANTS
    Ints <- TwoInts
    NULL = NULL
    FuncMaps <- GrowingMaps
    CteUses <- GrowingMaps
    ScalarMaps <- GrowingMaps
    SetOps <- Unions
    Mutations <- AllMutations
    EmptyRows = FALSE
INVARIANTS
    PolaritySound
    MutationContained
    ImplicationHolds
