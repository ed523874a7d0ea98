SPECIFICATION ManagementSpec
CONSTANTS
    w1 = w1
    w2 = w2
    w3 = w3
    v1 = v1
    v2 = v2
    c1 = c1
    c2 = c2
    p1 = p1
    Workers = {w1, w2}
    MaxRequests = 3
    None = None
    Endpoints = {"vuln_status", "default_reasons", "comments", "sa"}
    Vulns = {v1}
    Authors = {1, 2}
    Resolutions = {"wont_fix"}
    Texts = {"reason"}
    NoText = ""
    Subscribers <- MCSubscribers
    Reasons = {"r1", "r2", "r3"}
    Entities = {"e1", "e2"}
    MaxSecond = 1
    LowCount = 2
    Jsons <- MCJsons
    VulnIds = {v1, v2}
    Cpes = {c1}
    Packages = {p1}
    Branches = {1, 2}
INVARIANTS
    ManagementTypeOK
    RepliesFormTrees
    RecordsHaveComments
    NoContradictionUnlessOvertaken
PROPERTIES
    BackToNewOnlyIfOvertaken
    PutKeepsLength
    ReplacedStaysAway
    OneTreeUnlessOvertaken
CHECK_DEADLOCK FALSE
SYMMETRY MCSymmetry
