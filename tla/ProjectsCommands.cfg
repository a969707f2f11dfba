\* Two operators at work on one slug beside an upload.
SPECIFICATION Spec
CONSTANTS
    o1 = o1  o2 = o2  r1 = r1  x1 = x1  x2 = x2
    Slugs = {"s1"}
    Secrets = {x1, x2}
    Operators = {o1, o2}
    Requests = {r1}
    NoId = NoId
    MaxProjects = 3
SYMMETRY Interchangeable
INVARIANTS
    TypeOK
    TablesAgree
PROPERTIES
    NoNewProjectIsDeleted
    RotationTakesEffect
    ImplementsAccounts
