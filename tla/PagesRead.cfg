\* A browser on one slug, beside three uploads, prunes and a deleted project.
SPECIFICATION Spec
CONSTANTS
    Keys = {1, 2}
    main = main  NoBranch = NoBranch
    Branches = {main, NoBranch}
    RecentLimit = 2
    WindowLimit = 3
    TopLimit = 1
    Slugs = {"s1"}
    NoProject = NoProject
    MaxProjects = 2
    MaxRuns = 3
    MaxTime = 3
    Reports <- TwoTests
    Sorts = {"slowest"}
    ListLimit = 2
CONSTRAINT LaterProjectIsSmall
ACTION_CONSTRAINT AnswersAreSentAtOnce
INVARIANTS
    TypeOK
    RunPageIsWhole
    OwnStatusIsRecent
    NothingForeignIsShown
    ListedFailuresAreNamed
PROPERTIES
    FlakyTestsAlternate
    LatestNeverGoesBack
