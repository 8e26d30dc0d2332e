SPECIFICATION ParseSpec
CONSTANTS
    Word = 16
    BssWords = 45
    SubWords = 12
    Bounds <- MCBounds
INVARIANTS SectionsInFile RefsInRange TensorsById
CHECK_DEADLOCK FALSE
