SPECIFICATION FairSpec
CONSTANTS
    j1 = j1
    j2 = j2
    j3 = j3
    s1 = s1
    s2 = s2
    t1 = t1
    t2 = t2
    id1 = id1
    id2 = id2
    NoJob = NoJob
    Jobs = {j1, j2, j3}
    Sessions = {s1}
    Threads = {t1, t2}
    JobIds = {id1, id2}
    Owner <- ThreeOwner
    Uthread <- ThreeUthread
    JobId <- ThreeJobId
    UserPid <- OnePid
    MaxCnt = 2
    Outcomes = {"done"}
    IdleLag = FALSE
INVARIANTS
    TypeOK
    OneJobOnDevice
    EndedJobWillBeVisited
    BhCursorsLinked
PROPERTIES
    InOrder
    EveryJobCompletes
