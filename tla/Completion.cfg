SPECIFICATION CompletionSpec
CONSTANTS
    t1 = t1
    t2 = t2
    t3 = t3
    MaxJobs = 3
    Endings <- MCEndings
    Threads = {t1, t2, t3}
    Uthread <- MCUthread
    Usages <- MCUsages
INVARIANTS EndIsTheJobs NoLostWakeup
PROPERTIES EveryPollReturns
CHECK_DEADLOCK FALSE
