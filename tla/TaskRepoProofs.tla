--------------------------- MODULE TaskRepoProofs ---------------------------
(***************************************************************************)
(* What TaskRepo says of the state a task was built upon holds for any     *)
(* packages and any number of tasks.  The plans of a chain are forgotten   *)
(* as soon as they are joined, so that the argument is about what any two  *)
(* states of the branch have to do with the plans between them.            *)
(***************************************************************************)
EXTENDS TaskRepo, TLAPS

(* A package of a later state was there or has been added; one of an       *)
(* earlier state is there or has been deleted; one that was added is there *)
(* or has been deleted, and one that was deleted is gone or has been added.*)
Between(s, k, p) ==
    /\ p \in contents[k] => p \in contents[s] \/ p \in Added(s, k)
    /\ p \in contents[s] => p \in contents[k] \/ p \in Deleted(s, k)
    /\ p \in Added(s, k) => p \in contents[k] \/ p \in Deleted(s, k)
    /\ p \in Deleted(s, k) => p \notin contents[k] \/ p \in Added(s, k)

PlansExplain == \A s, k \in 0..done : s <= k => \A p \in Pkgs : Between(s, k, p)

(* The numbers the request has read are those of states of the branch. *)
RequestSound ==
    /\ asked.state = "DONE" => asked.number \in 1..done
    /\ chain.from <= chain.to /\ chain.to <= done
    /\ base <= done

(* What was built was built from the numbers that are still remembered. *)
BuiltSound ==
    built.ok =>
        /\ step = "idle"
        /\ built.base = BaseRepo
        /\ built.current = Apply(BaseRepo, asked.plan)

TaskRepoInv == TaskRepoTypeOK /\ PlansExplain /\ RequestSound /\ BuiltSound

-----------------------------------------------------------------------------
(* The chain never starts after the last task before the one asked for.    *)
LEMMA NewestIsBefore ==
    ASSUME TaskRepoTypeOK, RequestSound, NEW s \in snapshots, NEW j, IsNewest(s, j)
    PROVE  j \in 0..done /\ j <= LastBefore
BY MaxTasksAssumption DEF TaskRepoTypeOK, RequestSound, IsNewest, Changes, LastBefore

(* The chain of plans between two states, one task longer. *)
LEMMA AddedMembers ==
    ASSUME NEW s, NEW k, NEW p \in Pkgs
    PROVE  /\ p \in Added(s, k) <=>
                \E j \in 1..MaxTasks : s < j /\ j <= k /\ p \in plans[j].add
           /\ p \in Deleted(s, k) <=>
                \E j \in 1..MaxTasks : s < j /\ j <= k /\ p \in plans[j].del
BY DEF Added, Deleted

LEMMA TaskRepoInvInit == TaskRepoInit => TaskRepoInv
<1> SUFFICES ASSUME TaskRepoInit PROVE TaskRepoInv
    OBVIOUS
<1> USE MaxTasksAssumption DEF TaskRepoInit, BranchInit, BuildIdle, NoChain, NotBuilt, NoTask, NoPlan
<1>1. TaskRepoTypeOK
      BY DEF TaskRepoTypeOK, Task, Plan
<1>2. RequestSound /\ BuiltSound
      BY DEF RequestSound, BuiltSound
<1>3. PlansExplain
      BY AddedMembers DEF PlansExplain, Between
<1> QED BY <1>1, <1>2, <1>3 DEF TaskRepoInv

(* A request leaves the branch alone, and what is said of it with it. *)
LEMMA BranchKept ==
    ASSUME TaskRepoInv, UNCHANGED branchVars
    PROVE  PlansExplain'
BY DEF TaskRepoInv, branchVars, PlansExplain, Between, Added, Deleted

(* A task that is done reaches no chain that was read before. *)
LEMMA OldChainsKept ==
    ASSUME TaskRepoTypeOK, TaskDone, NEW s \in Nat, NEW k \in Nat, k <= done
    PROVE  Added(s, k)' = Added(s, k) /\ Deleted(s, k)' = Deleted(s, k)
<1>1. done \in Nat /\ \A j \in 1..MaxTasks : j <= k => plans'[j] = plans[j]
      BY MaxTasksAssumption DEF TaskDone, TaskRepoTypeOK
<1>2. ASSUME NEW j \in 1..MaxTasks, NEW p \in Pkgs
      PROVE  /\ (s < j /\ j <= k /\ p \in plans[j].add)' <=> (s < j /\ j <= k /\ p \in plans[j].add)
             /\ (s < j /\ j <= k /\ p \in plans[j].del)' <=> (s < j /\ j <= k /\ p \in plans[j].del)
      BY <1>1
<1> QED BY <1>2 DEF Added, Deleted

LEMMA TaskDoneExplains == ASSUME TaskRepoInv, TaskDone PROVE PlansExplain'
<1> USE MaxTasksAssumption
<1>0. TaskRepoTypeOK /\ done \in Nat /\ done < MaxTasks /\ done' = done + 1
      BY DEF TaskRepoInv, TaskRepoTypeOK, TaskDone
<1>1. PICK q \in PlansFor(contents[done]) :
          /\ plans' = [plans EXCEPT ![done + 1] = q]
          /\ contents' = [contents EXCEPT ![done + 1] = Apply(contents[done], q)]
      BY DEF TaskDone
<1>2. /\ q.del \subseteq contents[done]
      /\ q.add \cap contents[done] = {}
      /\ contents'[done + 1] = (contents[done] \ q.del) \cup q.add
      /\ plans'[done + 1] = q
      /\ \A k \in 0..done : contents'[k] = contents[k]
      BY <1>0, <1>1 DEF PlansFor, Apply, TaskRepoTypeOK
<1> SUFFICES ASSUME NEW s \in 0..(done + 1), NEW k \in 0..(done + 1), s <= k,
                    NEW p \in Pkgs
             PROVE  Between(s, k, p)'
    BY <1>0 DEF PlansExplain
<1>3. CASE k <= done
      <2>1. s \in 0..done /\ k \in 0..done
            BY <1>0, <1>3
      <2>2. Between(s, k, p)
            BY <2>1 DEF TaskRepoInv, PlansExplain
      <2>3. Added(s, k)' = Added(s, k) /\ Deleted(s, k)' = Deleted(s, k)
            BY <1>0, <2>1, OldChainsKept
      <2> QED BY <1>2, <2>1, <2>2, <2>3 DEF Between
<1>4. CASE k = done + 1 /\ s = done + 1
      <2>1. p \notin Added(s, k)' /\ p \notin Deleted(s, k)'
            BY <1>4, <1>0 DEF Added, Deleted
      <2> QED BY <1>4, <2>1 DEF Between
<1>5. CASE k = done + 1 /\ s \in 0..done
      <2>0. PICK d \in Nat : d = done
            BY <1>0
      <2>1. Between(s, d, p)
            BY <1>0, <1>5, <2>0 DEF TaskRepoInv, PlansExplain
      <2>2. Added(s, d)' = Added(s, d) /\ Deleted(s, d)' = Deleted(s, d)
            BY <1>0, <1>5, <2>0, OldChainsKept
      <2>3. p \in Added(s, k)' <=> p \in Added(s, d)' \/ p \in q.add
            BY <1>0, <1>2, <1>5, <2>0 DEF Added
      <2>4. p \in Deleted(s, k)' <=> p \in Deleted(s, d)' \/ p \in q.del
            BY <1>0, <1>2, <1>5, <2>0 DEF Deleted
      <2>5. contents'[s] = contents[s]
            BY <1>2, <1>5
      <2> QED BY <1>2, <1>5, <2>0, <2>1, <2>2, <2>3, <2>4, <2>5 DEF Between
<1> QED BY <1>0, <1>3, <1>4, <1>5

LEMMA TaskDoneInv == ASSUME TaskRepoInv, TaskDone PROVE TaskRepoInv'
<1> USE MaxTasksAssumption
<1>1. TaskRepoTypeOK'
      <2>1. PICK q \in PlansFor(contents[done]) :
                /\ plans' = [plans EXCEPT ![done + 1] = q]
                /\ contents' = [contents EXCEPT ![done + 1] = Apply(contents[done], q)]
            BY DEF TaskDone
      <2>2. q \in Plan /\ Apply(contents[done], q) \in SUBSET Pkgs
            BY DEF PlansFor, Plan, Apply, TaskRepoInv, TaskRepoTypeOK
      <2> QED BY <2>1, <2>2 DEF TaskDone, buildVars, TaskRepoInv, TaskRepoTypeOK
<1>2. RequestSound'
      BY DEF TaskDone, buildVars, TaskRepoInv, TaskRepoTypeOK, RequestSound, Task
<1>3. BuiltSound'
      <2>1. chain.from \in Nat /\ chain.to \in Nat /\ chain.to <= done /\ base \in 0..done
            BY DEF TaskRepoInv, TaskRepoTypeOK, RequestSound
      <2>2. contents'[base] = contents[base]
            BY <2>1 DEF TaskDone, TaskRepoInv, TaskRepoTypeOK
      <2>3. BaseRepo' = BaseRepo
            BY <2>1, <2>2, OldChainsKept DEF BaseRepo, TaskDone, buildVars, TaskRepoInv
      <2> QED BY <2>3 DEF BuiltSound, TaskDone, buildVars, TaskRepoInv, Apply
<1> QED BY <1>1, <1>2, <1>3, TaskDoneExplains DEF TaskRepoInv

LEMMA StoreSnapshotInv == ASSUME TaskRepoInv, StoreSnapshot PROVE TaskRepoInv'
<1> USE MaxTasksAssumption
<1>1. PICK k \in 0..done : snapshots' = snapshots \cup {k}
      BY DEF StoreSnapshot
<1>2. PICK l \in 0..done : \E rows \in SUBSET {j \in 0..done : j < l} :
            early' = [early EXCEPT ![l] = rows]
      BY DEF StoreSnapshot
<1>3. TaskRepoTypeOK' /\ RequestSound'
      <2>1. early' \in [0..MaxTasks -> SUBSET (0..MaxTasks)]
            BY <1>2 DEF TaskRepoInv, TaskRepoTypeOK
      <2> QED BY <1>1, <2>1 DEF StoreSnapshot, buildVars, TaskRepoInv, TaskRepoTypeOK, RequestSound
<1>4. PlansExplain' /\ BuiltSound'
      BY DEF StoreSnapshot, buildVars, TaskRepoInv, PlansExplain, Between, BuiltSound, BaseRepo,
             Added, Deleted, Apply
<1> QED BY <1>3, <1>4 DEF TaskRepoInv

(* A request that begins, or ends with an error, remembers nothing. *)
LEMMA FreshInv ==
    ASSUME TaskRepoInv, UNCHANGED branchVars, Fresh, step' \in {"idle", "chain"}, asked' \in Task,
           asked'.state = "DONE" => asked'.number \in 1..done
    PROVE  TaskRepoInv'
<1> USE MaxTasksAssumption
<1>1. TaskRepoTypeOK' /\ RequestSound' /\ BuiltSound'
      BY DEF Fresh, NoChain, NotBuilt, branchVars, TaskRepoInv, TaskRepoTypeOK, RequestSound, BuiltSound
<1> QED BY <1>1, BranchKept DEF TaskRepoInv

LEMMA StartInv ==
    ASSUME TaskRepoInv, NEW task \in Task, Start(task),
           task.state = "DONE" => task.number \in 1..done
    PROVE  TaskRepoInv'
<1>1. NoTask \in Task /\ NoTask.state # "DONE"
      BY MaxTasksAssumption DEF NoTask, Task, NoPlan, Plan
<1> QED BY <1>1, FreshInv DEF Start, Refuse

LEMMA AskInv == ASSUME TaskRepoInv, AskDone \/ AskPending \/ AskLastState PROVE TaskRepoInv'
<1> USE MaxTasksAssumption
<1>1. ASSUME NEW k \in 1..done PROVE DoneTask(k) \in Task /\ DoneTask(k).number = k
      BY DEF DoneTask, Task, TaskRepoInv, TaskRepoTypeOK
<1>2. CASE AskDone
      BY <1>1, <1>2, StartInv DEF AskDone
<1>3. CASE AskPending
      <2>1. PICK state \in {"EPERM", "FAILED", "NEW"}, p \in PlansFor(contents[done]) :
                Start([number |-> 0, state |-> state, plan |-> p])
            BY <1>3 DEF AskPending
      <2>2. [number |-> 0, state |-> state, plan |-> p] \in Task
            BY DEF PlansFor, Task
      <2> QED BY <2>1, <2>2, StartInv
<1>4. CASE AskLastState
      <2>1. done \in 1..done
            <3>1. PICK s \in snapshots : s < done
                  BY <1>4 DEF AskLastState
            <3>2. s \in Nat /\ done \in Nat
                  BY DEF TaskRepoInv, TaskRepoTypeOK
            <3> QED BY <3>1, <3>2
      <2> QED BY <1>1, <1>4, <2>1, StartInv DEF AskLastState
<1> QED BY <1>2, <1>3, <1>4

LEMMA ReadInv == ASSUME TaskRepoInv, ReadChain \/ ReadBase \/ Build PROVE TaskRepoInv'
<1> USE MaxTasksAssumption
<1>1. /\ TaskRepoTypeOK /\ RequestSound /\ BuiltSound /\ done \in 0..MaxTasks
      /\ snapshots \subseteq 0..done
      /\ LastBefore \in 0..done
      BY DEF TaskRepoInv, TaskRepoTypeOK, RequestSound, LastBefore, Task
<1>2. ASSUME NEW s \in snapshots, NEW j, IsNewest(s, j)
      PROVE  j \in 0..done /\ j <= LastBefore
      BY <1>1, <1>2, NewestIsBefore
<1>3. NoTask \in Task /\ NoTask.state # "DONE"
      BY DEF NoTask, Task, NoPlan, Plan
<1>4. ASSUME Refuse, UNCHANGED branchVars PROVE TaskRepoInv'
      BY <1>3, <1>4, FreshInv DEF Refuse
<1>5. CASE ReadChain
      <2>1. UNCHANGED <<branchVars, asked, base, built>>
            BY <1>5 DEF ReadChain
      <2>2. PICK j \in 0..done : j <= LastBefore /\ chain' = [from |-> j, to |-> LastBefore]
            <3>1. CASE chain' = [from |-> LastBefore, to |-> LastBefore]
                  BY <1>1, <3>1
            <3>2. CASE \E s \in snapshots, j \in 0..done :
                          IsNewest(s, j) /\ chain' = [from |-> j, to |-> LastBefore]
                  BY <1>2, <3>2
            <3> QED BY <1>5, <3>1, <3>2 DEF ReadChain
      <2>4. TaskRepoTypeOK' /\ RequestSound'
            BY <1>1, <1>5, <2>1, <2>2 DEF ReadChain, branchVars, TaskRepoTypeOK, RequestSound
      <2>3. ~built'.ok
            BY <1>1, <1>5, <2>1 DEF ReadChain, BuiltSound
      <2> QED BY <2>1, <2>3, <2>4, BranchKept DEF TaskRepoInv, BuiltSound
<1>6. CASE ReadBase
      <2>1. CASE Refuse
            BY <1>4, <1>6, <2>1 DEF ReadBase
      <2>2. CASE ~Refuse
            <3>1. /\ base' \in snapshots /\ step = "base" /\ step' = "plans"
                  /\ UNCHANGED <<asked, chain, built>> /\ UNCHANGED branchVars
                  BY <1>6, <2>2 DEF ReadBase
            <3>2. TaskRepoTypeOK' /\ RequestSound'
                  BY <1>1, <3>1 DEF branchVars, TaskRepoTypeOK, RequestSound
            <3>3. ~built'.ok
                  BY <1>1, <3>1 DEF BuiltSound
            <3> QED BY <3>1, <3>2, <3>3, BranchKept DEF TaskRepoInv, BuiltSound
      <2> QED BY <2>1, <2>2
<1>7. CASE Build
      <2>1. CASE Refuse
            BY <1>4, <1>7, <2>1 DEF Build
      <2>2. CASE ~Refuse
            <3>1. /\ built' = [ok |-> TRUE, base |-> BaseRepo, current |-> Apply(BaseRepo, asked.plan)]
                  /\ step' = "idle"
                  /\ UNCHANGED <<asked, chain, base>> /\ UNCHANGED branchVars
                  BY <1>7, <2>2 DEF Build
            <3>2. BaseRepo \in SUBSET Pkgs /\ Apply(BaseRepo, asked.plan) \in SUBSET Pkgs
                  BY <1>1 DEF BaseRepo, Added, Deleted, Apply, TaskRepoTypeOK, Task, Plan
            <3>3. TaskRepoTypeOK' /\ RequestSound'
                  BY <1>1, <3>1, <3>2 DEF branchVars, TaskRepoTypeOK, RequestSound
            <3>4. BaseRepo' = BaseRepo /\ Apply(BaseRepo, asked.plan)' = Apply(BaseRepo, asked.plan)
                  BY <3>1 DEF BaseRepo, Added, Deleted, Apply, branchVars
            <3> QED BY <3>1, <3>3, <3>4, BranchKept DEF TaskRepoInv, BuiltSound
      <2> QED BY <2>1, <2>2
<1> QED BY <1>5, <1>6, <1>7

LEMMA TaskRepoInvStep == ASSUME TaskRepoInv, [TaskRepoNext]_taskRepoVars PROVE TaskRepoInv'
<1>1. CASE UNCHANGED taskRepoVars
      <2>1. UNCHANGED branchVars /\ UNCHANGED buildVars
            BY <1>1 DEF taskRepoVars, branchVars, buildVars
      <2>2. TaskRepoTypeOK' /\ RequestSound'
            BY <2>1 DEF branchVars, buildVars, TaskRepoInv, TaskRepoTypeOK, RequestSound
      <2>3. BuiltSound'
            BY <2>1 DEF branchVars, buildVars, TaskRepoInv, BuiltSound, BaseRepo, Added, Deleted, Apply
      <2> QED BY <2>1, <2>2, <2>3, BranchKept DEF TaskRepoInv
<1> QED BY <1>1, TaskDoneInv, StoreSnapshotInv, AskInv, ReadInv DEF TaskRepoNext

THEOREM TaskRepoInvariant == TaskRepoSpec => []TaskRepoInv
<1>1. TaskRepoInv /\ [TaskRepoNext]_taskRepoVars => TaskRepoInv'
      BY TaskRepoInvStep
<1> QED BY TaskRepoInvInit, <1>1, PTL DEF TaskRepoSpec

-----------------------------------------------------------------------------
(* The variables keep their types: no statement reads a snapshot or a task *)
(* that is not there.                                                      *)
THEOREM TaskRepoTypeCorrect == TaskRepoSpec => []TaskRepoTypeOK
<1>1. TaskRepoInv => TaskRepoTypeOK
      BY DEF TaskRepoInv
<1> QED BY TaskRepoInvariant, <1>1, PTL

(* A longer stretch of the chain has added and deleted no less. *)
LEMMA ChainsGrow ==
    ASSUME TaskRepoTypeOK, NEW s \in Nat, NEW k \in Nat, NEW r \in Nat, NEW l \in Nat,
           r <= s, k <= l
    PROVE  Added(s, k) \subseteq Added(r, l) /\ Deleted(s, k) \subseteq Deleted(r, l)
<1>1. \A j \in 1..MaxTasks : s < j /\ j <= k => r < j /\ j <= l
      OBVIOUS
<1> QED BY <1>1 DEF Added, Deleted

LEMMA InvNothingMissing == TaskRepoInv => NothingMissing
<1> SUFFICES ASSUME TaskRepoInv, built.ok, chain.from <= base,
                    NEW f, NEW t, NEW b, f = chain.from, t = chain.to, b = base
             PROVE  /\ contents[t] \subseteq built.base \cup Deleted(t, b)
                    /\ Apply(contents[t], asked.plan) \subseteq built.current \cup Deleted(t, b)
    BY DEF NothingMissing
<1>1. /\ f \in 0..done /\ t \in 0..done /\ b \in 0..done /\ f <= t /\ f <= b
      /\ done \in Nat /\ contents[t] \subseteq Pkgs
      BY MaxTasksAssumption DEF TaskRepoInv, TaskRepoTypeOK, RequestSound
<1>2. BaseRepo = (contents[b] \ Deleted(f, t)) \cup Added(f, t)
      BY DEF BaseRepo
<1>3. contents[t] \subseteq BaseRepo \cup Deleted(t, b)
      <2> SUFFICES ASSUME NEW p \in contents[t] PROVE p \in BaseRepo \cup Deleted(t, b)
          OBVIOUS
      <2>1. p \in Pkgs /\ Between(f, t, p)
            BY <1>1 DEF TaskRepoInv, PlansExplain
      <2>2. CASE b <= t
            <3>1. Between(b, t, p)
                  BY <1>1, <2>1, <2>2 DEF TaskRepoInv, PlansExplain
            <3>2. Added(b, t) \subseteq Added(f, t)
                  BY <1>1, ChainsGrow DEF TaskRepoInv
            <3> QED BY <1>2, <2>1, <3>1, <3>2 DEF Between
      <2>3. CASE t <= b
            <3>1. Between(t, b, p)
                  BY <1>1, <2>1, <2>3 DEF TaskRepoInv, PlansExplain
            <3> QED BY <1>2, <2>1, <3>1 DEF Between
      <2> QED BY <1>1, <2>2, <2>3
<1> QED BY <1>3 DEF TaskRepoInv, BuiltSound, Apply

(* For any packages, plans and number of tasks nothing is missing from the *)
(* state a task was built upon, but what was deleted up to the snapshot.   *)
THEOREM NothingIsMissing == TaskRepoSpec => []NothingMissing
BY InvNothingMissing, TaskRepoInvariant, PTL

LEMMA InvExact == TaskRepoInv => ExactUnlessReplaced
<1> DEFINE f == chain.from
           b == base
           t == chain.to
<1> SUFFICES ASSUME TaskRepoInv, built.ok, f <= b,
                    Added(Earliest, Latest) \cap Deleted(Earliest, Latest) = {}
             PROVE  built.base = contents[Latest]
    BY DEF ExactUnlessReplaced
<1>1. /\ TaskRepoTypeOK /\ built.base = BaseRepo
      /\ f \in 0..done /\ b \in 0..done /\ t \in 0..done /\ f <= t /\ done \in Nat
      /\ contents[b] \subseteq Pkgs /\ contents[t] \subseteq Pkgs
      BY MaxTasksAssumption DEF TaskRepoInv, TaskRepoTypeOK, RequestSound, BuiltSound
<1>2. Earliest = f /\ Latest = IF t < b THEN b ELSE t
      BY <1>1 DEF Earliest, Latest
<1>3. BaseRepo = (contents[b] \ Deleted(f, t)) \cup Added(f, t)
      BY DEF BaseRepo
<1>4. Added(f, t) \subseteq Pkgs
      BY DEF Added
<1> HIDE DEF f, b, t
<1>5. CASE t < b
      <2>1. \A p \in Pkgs : Between(f, b, p)
            BY <1>1 DEF TaskRepoInv, PlansExplain
      <2>2. Added(f, t) \subseteq Added(f, b) /\ Deleted(f, t) \subseteq Deleted(f, b)
            BY <1>1, <1>5, ChainsGrow
      <2> QED BY <1>1, <1>2, <1>3, <1>4, <1>5, <2>1, <2>2 DEF Between
<1>6. CASE ~(t < b)
      <2>1. \A p \in Pkgs : Between(f, t, p) /\ Between(b, t, p)
            BY <1>1, <1>6 DEF TaskRepoInv, PlansExplain
      <2>2. Added(b, t) \subseteq Added(f, t) /\ Deleted(b, t) \subseteq Deleted(f, t)
            BY <1>1, <1>6, ChainsGrow
      <2> QED BY <1>1, <1>2, <1>3, <1>4, <1>6, <2>1, <2>2 DEF Between
<1> QED BY <1>5, <1>6

(* Nor is there anything in it that the branch has not, unless one task    *)
(* added and another one deleted it, even if a snapshot was stored after   *)
(* the chain had been read.                                                *)
THEOREM ExactWithoutReplacements == TaskRepoSpec => []ExactUnlessReplaced
BY InvExact, TaskRepoInvariant, PTL
=============================================================================
