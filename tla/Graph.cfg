SPECIFICATION FairSpec
CONSTANTS
    t1 = t1
    t2 = t2
    b1 = b1
    b2 = b2
    Bufs = {b1, b2}
    Threads = {t1, t2}
    Poller = Poller
    NoBuf = NoBuf
    MaxJobs = 3
    Setups <- MCSetups
INVARIANTS
    EndIsTrue
    BufferExclusive
    NoStatusLost
    WaitSucceeds
PROPERTY
    WaitReturns
CHECK_DEADLOCK FALSE
