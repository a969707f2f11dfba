\* A job whose client retries, under fairness and against the abstract history.
SPECIFICATION FairSpec
CONSTANTS
    j1 = j1  j2 = j2  j3 = j3  p1 = p1
    main = main  t1 = t1  t2 = t2
    Jobs = {j1}
    MaxAttempts = 3
    Projects = {p1}
    Branches = {main}
    NoBranch = NoBranch
    Keys = {t1}
    NoKey = NoKey
    Reports <- Fail
    NoRun = NoRun
    RunRetention = 1
    MaxTime = 1
    MaxFaults = 9
PROPERTIES
    ClientsFinish
    ImplementsRunHistory
\* The service may stop: every job has ended and the clock is at its bound.
CHECK_DEADLOCK FALSE
