SPECIFICATION Spec
CONSTANTS
    MaxBufs = 11
    Handles <- TwoHandles
    Setups <- MCSetups
INVARIANTS NoLeak ScheduledMemoryHeld
CHECK_DEADLOCK FALSE
