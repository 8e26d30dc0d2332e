SPECIFICATION LiveSpec
CONSTANTS
    Setups <- MCSetups
    MaxBinds = 3
INVARIANTS NoFault NothingLeaks
PROPERTIES DoneIsTaken
CHECK_DEADLOCK FALSE
