\* Three overlapping uploads to one branch, with one fault.
SPECIFICATION Spec
CONSTANTS
    j1 = j1  j2 = j2  j3 = j3  p1 = p1
    main = main  t1 = t1  t2 = t2
    Jobs = {j1, j2, j3}
    MaxAttempts = 1
    Projects = {p1}
    Branches = {main}
    NoBranch = NoBranch
    Keys = {t1}
    NoKey = NoKey
    Reports <- PassRerun
    NoRun = NoRun
    RunRetention = 1
    MaxTime = 2
    MaxFaults = 1
CONSTRAINT FewFaults
SYMMETRY JobSymmetry
INVARIANTS
    NoRegressionMissed
    RegressionRelativeToPrevious
\* The service may stop: every job has ended and the clock is at its bound.
CHECK_DEADLOCK FALSE
