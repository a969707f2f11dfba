\* A server and a prune that migrate together, beside an earlier version.
SPECIFICATION FairSpec
CONSTANTS
    a = a  b = b  k1 = k1  k2 = k2  l1 = l1  l2 = l2  n1 = n1  o1 = o1  o2 = o2
    Processes = {"server", "timer"}
    Server = "server"
    Pruners = {"timer"}
    Legacy = {l1, l2}
    New = {n1}
    Late = {o1, o2}
    LateColumns = "inline"
    Old = {l2}
    KeyOf <- MCKeyOf
    Printed <- MCPrinted
    NoKey = NoKey
    Streams = {"stdout", "stderr"}
    Texts = {a, b}
    NoText = NoText
    BlobColumns <- MCBlobColumns
    Dialect = "sqlite"
    MaxFaults = 2
INVARIANTS
    TypeOK
    ServedAfterMigration
PROPERTIES
    ImplementsResultStore
    ServerComesUp
    OldOutputsAreRemoved
