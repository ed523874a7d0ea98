----------------------------- MODULE VulnFixes -----------------------------
(***************************************************************************)
(* Which vulnerabilities a package of a branch has and which of them are   *)
(* fixed: altrepo_api/api/vulnerabilities/endpoints/common.py.  Packages   *)
(* are matched and looked up by their names and there is one version of    *)
(* each in a branch, so that one package stands for all.  Versions are     *)
(* numbers in the order librpm gives them, 0 is the empty one.             *)
(***************************************************************************)
EXTENDS Naturals

CONSTANTS Vulns, Versions, Branches

ASSUME VersionsAssumption == Versions \subseteq Nat

Own == "own"   \* the branch of the package; others are its parents

VersionRange ==
    [cpe : {"ours", "other"}, start : Versions, startExcluded : BOOLEAN,
     end : Versions, endExcluded : BOOLEAN]
Errata == [branch : Branches, state : {"none", "DONE", "EPERM", "DELETED"},
           version : Versions, vulns : SUBSET Vulns]

(* The package and what is known about it: the vulnerabilities asked for   *)
(* with their affected versions, and the errata of its name.               *)
Case == [version : Versions, ranges : [Vulns -> SUBSET VersionRange],
         erratas : SUBSET Errata, taskless : SUBSET Branches]

Record == [vuln : Vulns, vulnerable : BOOLEAN, fixed : BOOLEAN, fixedIn : SUBSET Errata]

-----------------------------------------------------------------------------
LessOrEqual(v1, v2, strictly) == v1 < v2 \/ (~strictly /\ v1 = v2)

Unspecified(r) == r.start = 0 /\ r.end = 0 /\ ~r.startExcluded /\ ~r.endExcluded

MatchVersions(version, r) ==
    \/ Unspecified(r)
    \/ /\ LessOrEqual(version, r.end, r.endExcluded)
       /\ LessOrEqual(r.start, version, r.startExcluded)

(* The ranges given for a CPE of the package. *)
Related(c, v) == {r \in c.ranges[v] : r.cpe = "ours"}
Affected(c, v) == \E r \in Related(c, v) : MatchVersions(c.version, r)

(* An erratum with a task counts unless the task or subtask was deleted. *)
Kept(c) == {e \in c.erratas : e.state \in {"none", "DONE", "EPERM"}}
Done(c, e) == e.state = "DONE" \/ e.branch \in c.taskless

(* What the errata of the package's own branch say of an affected package: *)
(* a branch without tasks needs no more than one.                          *)
OwnErratas(c, v) == {e \in Kept(c) : Affected(c, v) /\ e.branch = Own /\ v \in e.vulns}
OwnFixed(c, v) ==
    \/ OwnErratas(c, v) # {} /\ Own \in c.taskless
    \/ \E e \in OwnErratas(c, v) : e.state = "DONE"
OwnRecord(c, v) ==
    [vuln |-> v, vulnerable |-> Affected(c, v) /\ ~OwnFixed(c, v),
     fixed |-> OwnFixed(c, v), fixedIn |-> OwnErratas(c, v)]

(* matcher: a record for each vulnerability with a CPE of the package. *)
OwnRecords(c) == {OwnRecord(c, v) : v \in {u \in Vulns : Related(c, u) # {}}}
StillVulnerable(c) == {r.vuln : r \in {s \in OwnRecords(c) : s.vulnerable}}
Known(c) == UNION {r.fixedIn : r \in OwnRecords(c)}

(* What the errata of a parent branch say of those that are still there:   *)
(* a package that is not older has the fix, too.                           *)
HistoryRecord(c, e, v) ==
    [vuln |-> v, vulnerable |-> c.version < e.version,
     fixed |-> c.version >= e.version /\ Done(c, e), fixedIn |-> {e}]

(* Mutant of HistoryRecords: any erratum that names a vulnerability is as  *)
(* good as one that names this one.                                        *)
HistoryRecordsOfAny(c) ==
    {HistoryRecord(c, p[1], p[2]) :
        p \in {q \in (Kept(c) \ Known(c)) \X StillVulnerable(c) : q[1].vulns # {}}}

HistoryRecords(c) ==
    {HistoryRecord(c, p[1], p[2]) :
        p \in {q \in (Kept(c) \ Known(c)) \X StillVulnerable(c) : q[2] \in q[1].vulns}}

(* Mutant of Fixes: what is vulnerable gives way without being replaced. *)
FixesOnly(c) == {r \in OwnRecords(c) : ~r.vulnerable} \cup HistoryRecords(c)

(* get_vulnerability_fix_errata: they take the place of the first ones. *)
Fixes(c) ==
    {r \in OwnRecords(c) :
        ~(r.vulnerable /\ ~r.fixed /\ \E h \in HistoryRecords(c) : h.vuln = r.vuln)}
    \cup HistoryRecords(c)

-----------------------------------------------------------------------------
(* A package is said to be fixed only where an erratum that names the      *)
(* vulnerability is there to show for it: one that is done, of the         *)
(* package's branch or for a version it has reached; and it is not said to *)
(* be vulnerable at once (common.py:1002-1022, 1061-1072).                 *)
FixedIsJustified(c, records) ==
    \A r \in records : r.fixed =>
        /\ ~r.vulnerable
        /\ \E e \in r.fixedIn :
              /\ r.vuln \in e.vulns
              /\ Done(c, e)
              /\ e.branch = Own \/ e.version <= c.version

(* Nothing is lost on the way: each vulnerability with a CPE of the        *)
(* package has a record, and if the package's version is affected then it  *)
(* is vulnerable or an erratum that still counts says why not, the only    *)
(* errata that may clear it (common.py:1089-1109).                         *)
AffectedIsAnswered(c, records) ==
    \A v \in Vulns : Related(c, v) # {} =>
        \E r \in records :
            /\ r.vuln = v
            /\ Affected(c, v) /\ ~r.vulnerable =>
                  \E e \in r.fixedIn : e \in Kept(c) /\ v \in e.vulns
=============================================================================
