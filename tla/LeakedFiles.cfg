\* An upload that gets old while a prune dies.
SPECIFICATION Spec
CONSTANTS
    u1 = u1  u2 = u2  u3 = u3  p1 = p1  n1 = n1  n2 = n2
    short = short  long = long
    Uploads = {u1}
    Projects = {p1}
    Streams = {"stdout", "stderr"}
    Texts <- ShortAndLong
    NoText = NoText
    Cut <- CutToShort
    Names = {n1, n2}
    Reports <- BrokenOnly
    KeepParsedArtifacts = FALSE
    StoreAllTestOutputs = FALSE
    OutputRetention = 1
    RunRetention = 2
    NoWriter = NoWriter
    NoProject = NoProject
    MaxFaults = 1
    MaxTime = 3
CONSTRAINT PromptUploads
INVARIANTS
    NoExpiredFilesAfterPrune
\* The service may stop: every upload has ended and the clock is at its bound.
CHECK_DEADLOCK FALSE
