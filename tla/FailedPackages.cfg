\* A package fails and its file shows no failed result.
SPECIFICATION Spec
CONSTANTS
    p1 = p1  p2 = p2  t1 = t1  t2 = t2
    Packages = {p1, p2}
    Tests = {t1, t2}
    Texts = {"x"}
    None = None
    MaxLines = 4
    MaxTorn = 0
    Lower <- FoldCase
    Documents = {}
    GoFiles <- GoReports
SYMMETRY PackagesAndTests
INVARIANT FailedPackageIsReported
CHECK_DEADLOCK FALSE
