------------------------------ MODULE Queries ------------------------------
(***************************************************************************)
(* The read-only requests that compute something.  None changes what       *)
(* another one reads, so that each is looked at on its own.  Three go from *)
(* statement to statement, and one through a graph, and are state          *)
(* machines; the others are functions from what the tables say, the        *)
(* question, to the answer.                                                *)
(***************************************************************************)
EXTENDS TaskRepo, TaskHistory, PackageDependencies, BackportHelper, VulnFixes,
        DependencySort, Misconflict, Pagination

CONSTANTS
    Kinds,       \* the requests that are looked at
    Histories,   \* tasks of branches
    Cases,       \* packages with their vulnerabilities and errata
    TableSets,   \* tables of packages with files in common
    Pagings      \* lists and limits

ASSUME QueriesAssumption ==
    /\ Kinds \subseteq {"task_repo", "task_history", "build_dependency_set", "backport",
                       "vuln_fixes", "dependency_sort", "misconflict", "pagination"}
    /\ \A h \in Histories : h \in History /\ IsHistory(h)
    /\ Cases \subseteq Case
    /\ \A t \in TableSets : t \in Tables /\ AsksAboutInputs(t)
    /\ \A p \in Pagings : p.list \in Seq(Range(p.list)) /\ p.limit \in Int

VARIABLES kind, question, answer

queriesVars == <<kind, question, answer>>
allVars == <<queriesVars, taskRepoVars, dependencyVars, backportVars, sortVars>>

NotAsked == <<>>
NoBranch ==
    /\ done = 0
    /\ contents = [k \in 0..MaxTasks |-> {}]
    /\ plans = [k \in 1..MaxTasks |-> NoPlan]
    /\ snapshots = {}
    /\ early = [k \in 0..MaxTasks |-> {}]
NoCatalog ==
    catalog = [requires |-> [p \in Sources \cup Bins |-> {}], provides |-> [b \in Bins |-> {}]]
NoBackport ==
    backport = [requires |-> [p \in Srpms \cup Rpms |-> {}], provides |-> [b \in Rpms |-> {}],
                srpm |-> [b \in Rpms |-> CHOOSE s \in Srpms : TRUE], arch |-> [p \in Rpms |-> "noarch"],
                into |-> {}, assumed |-> {}, names |-> {}, dpType |-> "both"]

NoSort == packageReqs = [p \in Packages |-> {}]

Questions ==
    CASE kind = "task_history" -> Histories
      [] kind = "vuln_fixes" -> Cases
      [] kind = "misconflict" -> TableSets
      [] kind = "pagination" -> Pagings
      [] OTHER -> {NotAsked}

QueriesInit ==
    /\ kind \in Kinds
    /\ question \in Questions
    /\ answer = NotAsked
    /\ IF kind = "task_repo" THEN BranchInit ELSE NoBranch
    /\ IF kind = "build_dependency_set" THEN catalog \in Catalogs ELSE NoCatalog
    /\ IF kind = "backport" THEN backport \in Backports ELSE NoBackport
    /\ IF kind = "dependency_sort" THEN packageReqs \in Requirements ELSE NoSort
    /\ BuildIdle
    /\ DependenciesIdle
    /\ BackportIdle
    /\ SortIdle

Reply(reply) ==
    /\ answer = NotAsked
    /\ answer' = <<reply>>
    /\ UNCHANGED <<kind, question>>
    /\ UNCHANGED <<taskRepoVars, dependencyVars, backportVars, sortVars>>

QueriesNext ==
    \/ /\ kind = "task_repo" /\ TaskRepoNext
       /\ UNCHANGED <<queriesVars, dependencyVars, backportVars, sortVars>>
    \/ /\ kind = "build_dependency_set" /\ DependenciesNext
       /\ UNCHANGED <<queriesVars, taskRepoVars, backportVars, sortVars>>
    \/ /\ kind = "backport" /\ BackportNext
       /\ UNCHANGED <<queriesVars, taskRepoVars, dependencyVars, sortVars>>
    \/ /\ kind = "dependency_sort" /\ SortNext
       /\ UNCHANGED <<queriesVars, taskRepoVars, dependencyVars, backportVars>>
    \/ kind = "task_history" /\ Reply(BranchHistories(question))
    \/ kind = "vuln_fixes" /\ Reply(Fixes(question))
    \/ kind = "misconflict" /\ Reply(Report(question))
    \/ kind = "pagination" /\ Reply(Pages(question.list, question.limit))

QueriesSpec ==
    /\ QueriesInit
    /\ [][QueriesNext]_allVars
    /\ WF_dependencyVars(kind = "build_dependency_set" /\ QueriesNext)
    /\ WF_backportVars(kind = "backport" /\ QueriesNext)
    /\ WF_sortVars(kind = "dependency_sort" /\ QueriesNext)

Answered(k) == kind = k /\ answer # NotAsked

QueriesTypeOK ==
    /\ kind = "task_repo" => TaskRepoTypeOK
    /\ kind = "build_dependency_set" => DependenciesTypeOK
    /\ kind = "backport" => BackportTypeOK
    /\ kind = "dependency_sort" => SortTypeOK
    /\ Answered("vuln_fixes") => answer[1] \subseteq Record
    /\ Answered("pagination") => answer[1] \in Seq(Seq(Range(question.list)))

-----------------------------------------------------------------------------
(* What the answers of the requests promise: see the modules for each. *)

(* A package is fixed only where an erratum that counts says so (common.py:1002-1072). *)
FixedOnlyByErratum ==
    Answered("vuln_fixes") => FixedIsJustified(question, answer[1])

(* No affected package is cleared or lost on the way (common.py:1089-1109). *)
AffectedNeverLost ==
    Answered("vuln_fixes") => AffectedIsAnswered(question, answer[1])

(* Errata of the tasks a branch has come from count (common.py:523-600, oval.py:94-96). *)
AncestryCounts ==
    Answered("task_history") => AncestorsCount(question, answer[1])

(* Requirements are built first, and what a leaf needs is there and in its *)
(* order (dependency_sorting.py:46-57, pkg_build_dependency.py:482-499).   *)
BuildOrder == kind = "dependency_sort" => RequiredComesFirst /\ LeafIsComplete

(* Files that differ are reported, others are not (misconflict_packages.py:259-424). *)
MisconflictsReported ==
    Answered("misconflict") => DifferencesReported(question, answer[1])

(* The pages are the list (pagination.py:27-62). *)
PagesShowAll ==
    Answered("pagination") => PagesAreTheList(question.list, answer[1])

(* The levels of a build dependency set and of a backport end, and so does *)
(* the sort (package_dependencies.py:477-481, backport_helper.py:223-260,  *)
(* dependency_sorting.py:37-57).                                           *)
LoopsEnd ==
    /\ kind = "build_dependency_set" => AllCollected
    /\ kind = "backport" => BackportAnswered
    /\ kind = "dependency_sort" => AllSorted
=============================================================================
