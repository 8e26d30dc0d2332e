SPECIFICATION LiveSpec
CONSTANTS
    g1 = g1
    g2 = g2
    Graphs <- TwoGraphs
    Contexts <- TwoContexts
    Dir <- OwnDirs
    Sizes <- Pages
    Align = 2
    Word = 32
    Setups <- AllSetups
INVARIANTS GraphsDisjoint ResultIsOwn
PROPERTIES JobsEnd
CHECK_DEADLOCK FALSE
