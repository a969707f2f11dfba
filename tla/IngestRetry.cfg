\* Two jobs that retry, with crashes, lost answers and deleted projects.
SPECIFICATION Spec
CONSTANTS
    j1 = j1  j2 = j2  j3 = j3  p1 = p1
    main = main  t1 = t1  t2 = t2
    Jobs = {j1, j2}
    MaxAttempts = 2
    Projects = {p1}
    Branches = {main, NoBranch}
    NoBranch = NoBranch
    Keys = {t1, t2}
    NoKey = NoKey
    Reports <- Mixed
    NoRun = NoRun
    RunRetention = 1
    MaxTime = 2
    MaxFaults = 1
CONSTRAINT FewFaults
SYMMETRY JobSymmetry
INVARIANTS
    TypeOK
    SeesFinishedRuns
    CountersMatchListing
    AcknowledgedRunIsKept
    DeletedProjectStaysEmpty
\* The service may stop: every job has ended and the clock is at its bound.
CHECK_DEADLOCK FALSE
