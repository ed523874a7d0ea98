------------------------------ MODULE TaskRepo ------------------------------
(***************************************************************************)
(* The state of a branch that a task was built upon, as                    *)
(* altrepo_api/api/task/endpoints/task_repo.py computes it: the packages   *)
(* of a stored snapshot of the branch with the plans of the tasks done     *)
(* since applied on top.  The tables are filled by other programs, so that *)
(* the branch goes on between the statements of a request.                 *)
(***************************************************************************)
EXTENDS Naturals, FiniteSets

CONSTANTS
    Pkgs,      \* package hashes
    MaxTasks,  \* bound on the tasks done
    MaxRows    \* bound on the rows of a task that tell of its earlier states

ASSUME MaxTasksAssumption == MaxTasks \in Nat

VARIABLES
    done,      \* how many tasks are DONE; they are numbered in their order
    contents,  \* contents[k]: the packages of the branch after k tasks
    plans,     \* plans[k]: what task k added and deleted
    snapshots, \* those k for which contents[k] is stored as a package set
    early,     \* early[k]: after how many tasks, k not among them yet, rows
               \* of earlier states of task k came, if it has a snapshot
    step,      \* the statement the request is about to send
    asked,     \* the task it is about
    chain,     \* the tasks after chain.from up to chain.to are applied ...
    base,      \* ... on top of contents[base]
    built      \* what build_task_repo has computed

branchVars == <<done, contents, plans, snapshots, early>>
buildVars == <<step, asked, chain, base, built>>
taskRepoVars ==
    <<done, contents, plans, snapshots, early, step, asked, chain, base, built>>

Plan == [add : SUBSET Pkgs, del : SUBSET Pkgs]
NoPlan == [add |-> {}, del |-> {}]
Apply(pkgs, plan) == (pkgs \ plan.del) \cup plan.add

(* A task deletes packages that are there and adds some that are not. *)
PlansFor(pkgs) == {p \in Plan : p.del \subseteq pkgs /\ p.add \cap pkgs = {}}

(* A task that is not DONE has a number of its own, 0 here. *)
Task == [number : 0..MaxTasks, state : {"DONE", "EPERM", "FAILED", "NEW"}, plan : Plan]
NoTask == [number |-> 0, state |-> "NEW", plan |-> NoPlan]
NotBuilt == [ok |-> FALSE, base |-> {}, current |-> {}]
NoChain == [from |-> 0, to |-> 0]

BuildIdle ==
    /\ step = "idle"
    /\ asked = NoTask
    /\ chain = NoChain
    /\ base = 0
    /\ built = NotBuilt

BranchInit ==
    /\ done = 0
    /\ contents \in {[k \in 0..MaxTasks |-> IF k = 0 THEN pkgs ELSE {}] : pkgs \in SUBSET Pkgs}
    /\ plans = [k \in 1..MaxTasks |-> NoPlan]
    /\ snapshots = {}
    /\ early = [k \in 0..MaxTasks |-> {}]

TaskRepoInit == BranchInit /\ BuildIdle

(* The branch: a task is done, or a state of the branch is stored.  The    *)
(* rows of the task's states that TaskStates has by then matter to no      *)
(* request before.                                                         *)
TaskDone ==
    /\ done < MaxTasks
    /\ done' = done + 1
    /\ \E p \in PlansFor(contents[done]) :
          /\ plans' = [plans EXCEPT ![done + 1] = p]
          /\ contents' = [contents EXCEPT ![done + 1] = Apply(contents[done], p)]
    /\ UNCHANGED <<snapshots, early>> /\ UNCHANGED buildVars

StoreSnapshot ==
    /\ \E k \in 0..done :
          /\ \A s \in snapshots : s < k
          /\ snapshots' = snapshots \cup {k}
          /\ \E rows \in SUBSET {j \in 0..done : j < k} :
                Cardinality(rows) <= MaxRows /\ early' = [early EXCEPT ![k] = rows]
    /\ UNCHANGED <<done, contents, plans>> /\ UNCHANGED buildVars

(* A request begins anew, or ends with an error. *)
Fresh == chain' = NoChain /\ base' = 0 /\ built' = NotBuilt
Refuse == step' = "idle" /\ asked' = NoTask /\ Fresh

(* The first statements: the task's branch, state, iterations and plan.    *)
(* Only a FAILED task may have none.                                       *)
Start(task) ==
    /\ IF \/ task.state = "NEW"
          \/ task.plan = NoPlan /\ task.state # "FAILED"
       THEN Refuse
       ELSE step' = "chain" /\ asked' = task /\ Fresh
    /\ UNCHANGED branchVars

DoneTask(k) == [number |-> k, state |-> "DONE", plan |-> plans[k]]

AskDone ==
    /\ step = "idle"
    /\ \E k \in 1..done : Start(DoneTask(k))

AskPending ==
    /\ step = "idle"
    /\ \E state \in {"EPERM", "FAILED", "NEW"}, p \in PlansFor(contents[done]) :
          Start([number |-> 0, state |-> state, plan |-> p])

(* LastRepoStateFromTask: the newest task that was done after the newest   *)
(* snapshot, if there is one, stands for the branch as it is now.          *)
AskLastState ==
    /\ step = "idle"
    /\ snapshots # {} /\ \A s \in snapshots : s < done
    /\ Start(DoneTask(done))

(* When the task of a snapshot changed its state, as the number of tasks   *)
(* done by then.  For a DONE task every row of TaskStates from before it   *)
(* was done counts, of whatever state and of whatever snapshot's task, its *)
(* own included; for others only that the last snapshot's task was done.   *)
Changes(s) ==
    IF asked.state = "DONE" THEN {j \in {s} \cup early[s] : j < asked.number} ELSE {s}
LastBefore == IF asked.state = "DONE" THEN asked.number - 1 ELSE done

(* The change of a snapshot's task that is the newest one.  After a number *)
(* of tasks, the DONE row of the last of them comes first.                 *)
IsNewest(s, j) ==
    /\ j \in Changes(s)
    /\ \A t \in snapshots : \A i \in Changes(t) :
          \/ i < j
          \/ i = j /\ (t = j \/ s # j)

(* repo_tasks_diff_list_before_task, repo_last_repo_tasks_diff_list: no    *)
(* tasks compare as later than a change that is not there.                 *)
ReadChain ==
    /\ step = "chain"
    /\ \/ /\ \A s \in snapshots : Changes(s) = {}
          /\ chain' = [from |-> LastBefore, to |-> LastBefore]
       \/ \E s \in snapshots, j \in 0..done :
             IsNewest(s, j) /\ chain' = [from |-> j, to |-> LastBefore]
    /\ step' = "base"
    /\ UNCHANGED <<asked, base, built>> /\ UNCHANGED branchVars

(* repo_last_repo_hashes_before_task, repo_last_repo_hashes: an empty      *)
(* answer is an error.                                                     *)
ReadBase ==
    /\ step = "base"
    /\ \/ /\ \A s \in snapshots : Changes(s) = {}
          /\ Refuse
       \/ \E s \in snapshots :
             /\ \E j \in 0..done : IsNewest(s, j)
             /\ IF contents[s] = {}
                THEN Refuse
                ELSE /\ base' = s
                     /\ step' = "plans"
                     /\ UNCHANGED <<asked, chain, built>>
    /\ UNCHANGED branchVars

(* The packages that tasks from+1 to to have added, or deleted. *)
Added(from, to) == {p \in Pkgs : \E k \in 1..MaxTasks : from < k /\ k <= to /\ p \in plans[k].add}
Deleted(from, to) == {p \in Pkgs : \E k \in 1..MaxTasks : from < k /\ k <= to /\ p \in plans[k].del}

(* Mutants of BaseRepo: what was deleted stays; adding comes first. *)
BaseRepoKept == contents[base] \cup Added(chain.from, chain.to)
BaseRepoAddFirst ==
    (contents[base] \cup Added(chain.from, chain.to)) \ Deleted(chain.from, chain.to)

(* All the deletions of the chain are made before all its additions. *)
BaseRepo ==
    (contents[base] \ Deleted(chain.from, chain.to)) \cup Added(chain.from, chain.to)

(* repo_tasks_plan_hshs: tasks that planned nothing at all are an error. *)
Build ==
    /\ step = "plans"
    /\ IF /\ chain.from < chain.to
          /\ Added(chain.from, chain.to) \cup Deleted(chain.from, chain.to) = {}
       THEN Refuse
       ELSE /\ built' = [ok |-> TRUE, base |-> BaseRepo,
                         current |-> Apply(BaseRepo, asked.plan)]
            /\ step' = "idle"
            /\ UNCHANGED <<asked, chain, base>>
    /\ UNCHANGED branchVars

TaskRepoNext ==
    \/ TaskDone \/ StoreSnapshot
    \/ AskDone \/ AskPending \/ AskLastState
    \/ ReadChain \/ ReadBase \/ Build

TaskRepoSpec == TaskRepoInit /\ [][TaskRepoNext]_taskRepoVars

TaskRepoTypeOK ==
    /\ done \in 0..MaxTasks
    /\ contents \in [0..MaxTasks -> SUBSET Pkgs]
    /\ plans \in [1..MaxTasks -> Plan]
    /\ snapshots \subseteq 0..done
    /\ early \in [0..MaxTasks -> SUBSET (0..MaxTasks)]
    /\ step \in {"idle", "chain", "base", "plans"}
    /\ asked \in Task
    /\ chain \in [from : 0..MaxTasks, to : 0..MaxTasks]
    /\ base \in 0..MaxTasks
    /\ built \in [ok : BOOLEAN, base : SUBSET Pkgs, current : SUBSET Pkgs]

-----------------------------------------------------------------------------
(* The chain is read by one statement and the snapshot by another one, and *)
(* the snapshot may be of the task itself or of a later one: if it is not  *)
(* older than the start of the chain, then what the branch had when the    *)
(* task found it is missing from what was built only if a task up to the   *)
(* snapshot deleted it, whatever the order in which the tasks of the chain *)
(* added and deleted packages (task_repo.py:276-280).                      *)
NothingMissing ==
    (built.ok /\ chain.from <= base) =>
        LET deleted == Deleted(chain.to, base)
        IN  /\ contents[chain.to] \subseteq built.base \cup deleted
            /\ Apply(contents[chain.to], asked.plan) \subseteq built.current \cup deleted

(* The states of the branch between which the chain and the snapshot lie. *)
Earliest == IF chain.from < base THEN chain.from ELSE base
Latest == IF chain.to < base THEN base ELSE chain.to

(* What is built is exactly the branch after the chain, or at the snapshot *)
(* if that is of a later state, unless one task added a package and        *)
(* another deleted it (task_repo.py:276).                                  *)
ExactUnlessReplaced ==
    (/\ built.ok
     /\ chain.from <= base
     /\ Added(Earliest, Latest) \cap Deleted(Earliest, Latest) = {})
        => built.base = contents[Latest]

(* "use last previous repo and applly all 'DONE' task chain on top of it"  *)
(* (task_repo.py:166): the tasks of a chain are applied in their order, so *)
(* that what comes out is the branch as the task found it.                 *)
ChainOnTop == (built.ok /\ base = chain.from) => built.base = contents[chain.to]

(* "get latest repo before task hashes" (task_repo.py:181): the snapshot   *)
(* that a DONE task is put on top of is one from before the task.          *)
LatestRepoBeforeTask == (built.ok /\ asked.state = "DONE") => base < asked.number
=============================================================================
