\* Two uploads that keep their files and outputs, and a nightly prune that may die.
SPECIFICATION FairSpec
CONSTANTS
    u1 = u1  u2 = u2  u3 = u3  p1 = p1  n1 = n1  n2 = n2
    short = short  long = long
    Uploads = {u1, u2}
    Projects = {p1}
    Streams = {"stdout", "stderr"}
    Texts <- ShortAndLong
    NoText = NoText
    Cut <- CutToShort
    Names = {n1, n2}
    Reports <- AllReports
    KeepParsedArtifacts = TRUE
    StoreAllTestOutputs = FALSE
    OutputRetention = 1
    RunRetention = 1
    NoWriter = NoWriter
    NoProject = NoProject
    MaxFaults = 1
    MaxTime = 2
INVARIANTS
    TypeOK
    OutputsCanBeRead
    FreshOutputsAreComplete
    ArtifactRowsHaveFiles
PROPERTIES
    ImplementsOutputLog
    OrphansAreCollected
\* The service may stop: every upload has ended and the clock is at its bound.
CHECK_DEADLOCK FALSE
