---------------------------- MODULE TaskHistory ----------------------------
(***************************************************************************)
(* The tasks a branch has come from.  Branches fork from each other: each  *)
(* task names the one before it, and the first task of a branch one of the *)
(* branch it was forked from.  What was fixed there before the fork is     *)
(* fixed in the new branch, too.  Two walks along the tasks decide which   *)
(* errata that gives: that for a package in                                *)
(* altrepo_api/api/vulnerabilities/endpoints/common.py, and that for the   *)
(* OVAL export in altrepo_api/api/errata/endpoints/oval.py.  Tasks are     *)
(* numbered in the order in which they were done.                          *)
(***************************************************************************)
EXTENDS Naturals, Sequences, FiniteSetsExt

CONSTANTS
    MaxHistory,   \* bound on the tasks
    Lineages      \* Lineages[b]: the branches b inherits from, nearest first

ASSUME LineagesAssumption ==
    /\ MaxHistory \in Nat
    /\ Lineages \in [DOMAIN Lineages -> Seq(DOMAIN Lineages)]
    /\ \A b \in DOMAIN Lineages : \A i \in DOMAIN Lineages[b] :   \* they nest
          Lineages[Lineages[b][i]] = SubSeq(Lineages[b], i + 1, Len(Lineages[b]))

(* What the tables say; `built` are the tasks with the package, `stored`   *)
(* is the task of the branch's last package set.                           *)
History == [branch : [1..MaxHistory -> DOMAIN Lineages],
            prev : [1..MaxHistory -> 0..MaxHistory],
            built : SUBSET (1..MaxHistory),
            stored : 1..MaxHistory]

Inherited(b) == {Lineages[b][i] : i \in DOMAIN Lineages[b]}
TasksOf(h, branches) == {t \in 1..MaxHistory : h.branch[t] \in branches}

(* A task follows the newest one of its branch; the first one follows the  *)
(* task of the nearest branch that it was forked at.                       *)
Earlier(h, t) == {u \in 1..(t - 1) : h.branch[u] = h.branch[t]}
IsHistory(h) ==
    \A t \in 1..MaxHistory :
        IF Earlier(h, t) # {} THEN h.prev[t] = Max(Earlier(h, t))
        ELSE IF Lineages[h.branch[t]] = <<>> THEN h.prev[t] = 0
        ELSE h.prev[t] \in 1..(t - 1) /\ h.branch[h.prev[t]] = Lineages[h.branch[t]][1]

(* The tasks met from t backwards, as long as they are among `known`: what *)
(* is in each set that has t and the known task before each of its own.    *)
Walk(h, known, t) ==
    {u \in known : \A S \in SUBSET known :
        (/\ t \in known => t \in S
         /\ \A v \in S : h.prev[v] \in known => h.prev[v] \in S) => u \in S}

-----------------------------------------------------------------------------
(* The tasks with the package in the branch and those it inherits from,    *)
(* without those that are newer than the first one of the branch itself.   *)
Candidates(h, b) == h.built \cap TasksOf(h, {b} \cup Inherited(b))
FirstOwn(h, b) == Min(Candidates(h, b) \cap TasksOf(h, {b}))
UntilFirstOwn(h, b) ==
    IF Candidates(h, b) \cap TasksOf(h, {b}) = {} THEN Candidates(h, b)
    ELSE {t \in Candidates(h, b) : t <= FirstOwn(h, b)}

(* Mutant of HistoryBranches: without what they inherit from. *)
HistoryBranchesOnly(h, b) == {h.branch[t] : t \in Candidates(h, b)}

HistoryBranches(h, b) ==
    LET found == {h.branch[t] : t \in Candidates(h, b)}
    IN  found \cup UNION {Inherited(c) : c \in found}

(* branch_history: from the newest task of a branch to the oldest one. *)
BranchHistory(h, b, c) ==
    LET known == TasksOf(h, HistoryBranches(h, b))
    IN  Walk(h, known, Max(TasksOf(h, {c})))

(* The nearest of the branches with tasks that are left decides. *)
WithTasks(h, b) ==
    {i \in DOMAIN Lineages[b] : UntilFirstOwn(h, b) \cap TasksOf(h, {Lineages[b][i]}) # {}}

(* _get_task_history for a package. *)
PackageHistory(h, b) ==
    IF Candidates(h, b) = {} \/ WithTasks(h, b) = {} THEN UntilFirstOwn(h, b)
    ELSE UntilFirstOwn(h, b) \cap BranchHistory(h, b, Lineages[b][Min(WithTasks(h, b))])

(* OVAL: _branch_tasks_history; a task without one before it ends the walk *)
(* before it is counted.                                                   *)
OvalHistory(h, b) ==
    {t \in Walk(h, TasksOf(h, {b} \cup Inherited(b)), h.stored) : h.prev[t] # 0}

BranchHistories(h) ==
    [b \in DOMAIN Lineages |->
        [package |-> PackageHistory(h, b),
         oval |-> IF h.branch[h.stored] = b THEN OvalHistory(h, b) ELSE {}]]

-----------------------------------------------------------------------------
(* The errata of a package are those of the tasks its branch has come      *)
(* from: no such task with the package is left out, whichever branches it  *)
(* was built in and forked from, and where the branch has built it itself  *)
(* nothing that came later is taken for older (common.py:523-600).  The    *)
(* export has every task the branch's last package set has come from but   *)
(* for the very first one (oval.py:94-96).                                 *)
AncestorsCount(h, histories) ==
    \A b \in DOMAIN Lineages :
        LET own == TasksOf(h, {b})
            ancestors == IF own = {} THEN {} ELSE Walk(h, 1..MaxHistory, Max(own))
        IN  /\ (h.built \cap ancestors) \ own \subseteq histories[b].package
            /\ \A t \in histories[b].package, u \in h.built \cap own : t <= u
            /\ h.branch[h.stored] = b =>
                  \A t \in Walk(h, 1..MaxHistory, h.stored) : t \in histories[b].oval \/ h.prev[t] = 0
=============================================================================
