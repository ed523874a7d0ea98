SPECIFICATION QueriesSpec
CONSTANTS
    s1 = s1
    s2 = s2
    v1 = v1
    v2 = v2
    Kinds = {"task_repo", "task_history", "build_dependency_set", "backport",
             "vuln_fixes", "dependency_sort", "misconflict", "pagination"}
    Pkgs = {"a"}
    MaxTasks = 3
    MaxRows = 1
    Sources = {s1, s2}
    Bins = {1, 2, 3}
    Names = {1, 2, 3, 4}
    Catalogs <- MCCatalogs
    MaxHistory = 5
    Lineages <- MCLineages
    Histories <- MCHistories
    Srpms = {s1, s2}
    Rpms = {1, 2, 3}
    Capabilities = {"m", "x", "y", "z", "rpmlib"}
    Backports <- MCBackports
    Vulns = {v1, v2}
    Versions = {0, 1, 2}
    Branches = {"own", "parent"}
    MaxPackages = 4
    Hashes = {1, 2, 3, 4}
    Files = {"f", "g"}
    Cases <- MCCases
    TableSets <- MCTableSets
    Pagings <- MCPagings
INVARIANTS
    QueriesTypeOK
    NothingMissing
    ExactUnlessReplaced
    NothingUnrelated
    RequirementsMetUnlessOverruled
    FixedOnlyByErratum
    AffectedNeverLost
    ListIsComplete
    AncestryCounts
    BuildOrder
    MisconflictsReported
    PagesShowAll
PROPERTIES
    LoopsEnd
CHECK_DEADLOCK FALSE
