\* A job over two packages whose output is torn and killed, and XML files of each kind.
SPECIFICATION Spec
CONSTANTS
    p1 = p1  p2 = p2  t1 = t1  t2 = t2
    Packages = {p1, p2}
    Tests = {t1, t2}
    Texts = {"x"}
    None = None
    MaxLines = 5
    MaxTorn = 1
    Lower <- FoldCase
    Documents <- AllDocuments
    GoFiles <- GoReports
SYMMETRY PackagesAndTests
INVARIANTS
    GoTypeOK
    RowsTellLastVerdict
    OutputsStayApart
    BrokenPackageIsReported
    OneParserPerFile
    EveryXmlCaseIsReported
    KeysTellTestsApart
\* The file has been parsed.
CHECK_DEADLOCK FALSE
