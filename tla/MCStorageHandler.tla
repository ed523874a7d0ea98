-------------------------- MODULE MCStorageHandler --------------------------
(* Two worker processes of one thread each, two records, one of them a     *)
(* bystander that expires.                                                 *)
EXTENDS StorageHandler, TLC

CONSTANTS t1, t2, p1, p2, n1, n2, v1

MCProcessOf == t1 :> p1 @@ t2 :> p2

(* The threads of a threaded server share the process. *)
MCOneProcess == [t \in Threads |-> p1]

MCCalls ==
    { [op |-> "init"],
      [op |-> "get", name |-> n1],
      [op |-> "delete", name |-> n1],
      [op |-> "set", name |-> n1, value |-> v1, expires |-> Absent],
      [op |-> "set", name |-> n1, value |-> v1, expires |-> 1] }

MCFewCalls == MCCalls \ {[op |-> "delete", name |-> n1],
                          [op |-> "set", name |-> n1, value |-> v1, expires |-> Absent]}

MCLeftBehind == {n1 :> Absent @@ n2 :> Create(v1, 1, 0)}

(* The workers are interchangeable, each with its thread. *)
Symmetry == {t1 :> t2 @@ t2 :> t1 @@ p1 :> p2 @@ p2 :> p1}

(* The records a process without a call keeps in memory are never read:    *)
(* the next call loads the file first.                                     *)
InUse(p) == \E t \in Threads : ProcessOf[t] = p /\ hpc[t] \notin {"idle", "load"}
View == <<lockVars, disk, file, now, hpc, call, reply, since,
          [p \in Processes |-> IF InUse(p) THEN memory[p] ELSE EMPTY_STORAGE]>>
=============================================================================
