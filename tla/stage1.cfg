\* All syntax trees of up to four nodes, and deeper ones of five.
SPECIFICATION StageSpec
CHECK_DEADLOCK FALSE
CONSTANTS
    FullSize = 4
    Nodes <- MCNodes
    Root = 1
    Trees <- MCTrees
    Modes <- AllModes
INVARIANTS
    Cleaned
