--------------------------- MODULE StorageHandler ---------------------------
(***************************************************************************)
(* The storage of access-token blacklist, refresh sessions and user roles  *)
(* when TOKEN_STORAGE is "file": class StorageHandler of                   *)
(* altrepo_api/api/auth/token/file_storage.py over its FileLock.           *)
(*                                                                         *)
(* A call of get, set or delete enters the lock, loads the whole file,     *)
(* drops the expired records (and saves the file if there were any),       *)
(* works on the records in memory, saves the file if it changed them and   *)
(* leaves the lock.  A save truncates the file first and fills it after.   *)
(* All workers share the file; the threads of a process share the object   *)
(* and so the records in memory.  A process may be killed between any two  *)
(* steps.  If DiskFaults, an exception may cut a save short: the disk is   *)
(* full, or gunicorn aborts a worker that has missed its timeout.          *)
(***************************************************************************)
EXTENDS FileLock, StorageRecords

CONSTANTS
    MaxTime,      \* bound on the clock
    DiskFaults    \* saves may fail

ASSUME MaxTimeAssumption == MaxTime \in Nat
ASSUME DiskFaultsAssumption == DiskFaults \in BOOLEAN

VARIABLES
    disk,      \* the storage file: "missing", "torn" (not a whole JSON), "ok"
    file,      \* the contents last saved, or being saved, to the file
    memory,    \* memory[p]: attribute storage of p's StorageHandler
    now,       \* the clock, in seconds
    hpc,       \* hpc[t]: where t is in the handler's code
    call,      \* call[t]: the last call of t
    reply,     \* reply[t]: its result
    since      \* since[t]: when it was made (no variable of the code)

handlerVars == <<disk, file, memory, now, hpc, call, reply, since>>
vars == <<lockVars, handlerVars>>

HandlerPC == {"idle", "load", "create", "savePurged", "writePurged", "apply",
              "save", "write", "leave"}

TypeOK ==
    /\ LockTypeOK
    /\ disk \in {"missing", "torn", "ok"}
    /\ file \in Contents
    /\ memory \in [Processes -> Contents]
    /\ now \in 0 .. MaxTime
    /\ hpc \in [Threads -> HandlerPC]
    /\ call \in [Threads -> Calls \cup {NoCall}]
    /\ reply \in [Threads -> Reply]
    /\ since \in [Threads -> 0 .. MaxTime]

Init ==
    /\ LockInit
    /\ \/ disk = "missing" /\ file = EMPTY_STORAGE
       \/ disk = "ok" /\ file \in LeftBehind \cup {EMPTY_STORAGE}
    /\ memory = [p \in Processes |-> EMPTY_STORAGE]
    /\ now = 0
    /\ hpc = [t \in Threads |-> "idle"]
    /\ call = [t \in Threads |-> NoCall]
    /\ reply = [t \in Threads |-> "none"]
    /\ since = [t \in Threads |-> 0]

HandlerGoto(t, from, to) ==
    /\ hpc[t] = from
    /\ hpc' = [hpc EXCEPT ![t] = to]

Answer(t, r) == reply' = [reply EXCEPT ![t] = r]

(* Thread t runs a step of the `with` block's body. *)
InBody(t) == lpc[t] = "body" /\ UNCHANGED <<lockVars, now, call, since>>

Invoke(t) ==
    /\ HandlerGoto(t, "idle", "load")
    /\ Enter(t)
    /\ \E c \in Calls : call' = [call EXCEPT ![t] = c]
    /\ since' = [since EXCEPT ![t] = now]
    /\ UNCHANGED <<disk, file, memory, now, reply>>

(* Waiting for the lock, or giving up with TimeoutError. *)
Acquire(t) ==
    /\ hpc[t] = "load"
    /\ \/ OpenLockFile(t) \/ Poll(t) \/ SetLocked(t)
    /\ UNCHANGED handlerVars

GiveUp(t) ==
    /\ HandlerGoto(t, "load", "leave")
    /\ TimeOut(t)
    /\ Answer(t, "error")
    /\ UNCHANGED <<disk, file, memory, now, call, since>>

(***************************************************************************)
(* _load_file: create the file if it is not there, fail if it is no JSON.  *)
(***************************************************************************)
CreateFile(t) ==
    /\ HandlerGoto(t, "load", "create")
    /\ InBody(t)
    /\ disk = "missing"
    /\ disk' = "torn"
    /\ file' = EMPTY_STORAGE
    /\ UNCHANGED <<memory, reply>>

WriteNewFile(t) ==
    /\ HandlerGoto(t, "create", "load")
    /\ InBody(t)
    /\ disk' = "ok"
    /\ UNCHANGED <<file, memory, reply>>

(* Mistake: a file that cannot be read is made anew. *)
LoadTornFileAnew(t) ==
    /\ HandlerGoto(t, "load", "leave")
    /\ InBody(t)
    /\ disk = "torn"
    /\ disk' = "missing"
    /\ file' = EMPTY_STORAGE
    /\ Answer(t, "error")
    /\ UNCHANGED memory

LoadTornFile(t) ==
    /\ HandlerGoto(t, "load", "leave")
    /\ InBody(t)
    /\ disk = "torn"
    /\ Answer(t, "error")
    /\ UNCHANGED <<disk, file, memory>>

(* The constructor only loads; the methods go on with _remove_expired. *)
LoadFirst(t) ==
    /\ HandlerGoto(t, "load", "leave")
    /\ InBody(t)
    /\ call[t].op = "init"
    /\ disk = "ok"
    /\ memory' = [memory EXCEPT ![ProcessOf[t]] = file]
    /\ Answer(t, "ok")
    /\ UNCHANGED <<disk, file>>

(* Mistake: the expired records are removed in memory only. *)
RemoveExpiredInMemory(t) ==
    /\ HandlerGoto(t, "load", "apply")
    /\ InBody(t)
    /\ call[t].op # "init"
    /\ disk = "ok"
    /\ memory' = [memory EXCEPT ![ProcessOf[t]] = RemoveExpired(file, now)]
    /\ UNCHANGED <<disk, file, reply>>

LoadAndRemoveExpired(t) ==
    /\ HandlerGoto(t, "load", IF RemoveExpired(file, now) = file
                              THEN "apply" ELSE "savePurged")
    /\ InBody(t)
    /\ call[t].op # "init"
    /\ disk = "ok"
    /\ memory' = [memory EXCEPT ![ProcessOf[t]] = RemoveExpired(file, now)]
    /\ UNCHANGED <<disk, file, reply>>

(***************************************************************************)
(* _save_file: opening for writing truncates, json.dump fills.             *)
(***************************************************************************)
Truncate(t, from, to) ==
    /\ HandlerGoto(t, from, to)
    /\ InBody(t)
    /\ disk' = "torn"
    /\ file' = memory[ProcessOf[t]]
    /\ UNCHANGED <<memory, reply>>

Write(t, from, to) ==
    /\ HandlerGoto(t, from, to)
    /\ InBody(t)
    /\ disk' = "ok"
    /\ file' = memory[ProcessOf[t]]
    /\ UNCHANGED <<memory, reply>>

SavePurged(t) == Truncate(t, "savePurged", "writePurged")
WritePurged(t) == Write(t, "writePurged", "apply")
Save(t) == Truncate(t, "save", "write")
WriteSaved(t) == Write(t, "write", "leave")

(* FileStorageError: the file stays as the failure left it, and the lock   *)
(* is released by the exception.                                           *)
SaveFails(t) ==
    /\ DiskFaults
    /\ \E pc \in {"create", "savePurged", "writePurged", "save", "write"} :
          HandlerGoto(t, pc, "leave")
    /\ InBody(t)
    /\ Answer(t, "error")
    /\ UNCHANGED <<disk, file, memory>>

(***************************************************************************)
(* get, set and delete, on the records in memory.                          *)
(***************************************************************************)
Get(t) ==
    LET r == memory[ProcessOf[t]][call[t].name] IN
    /\ HandlerGoto(t, "apply", "leave")
    /\ InBody(t)
    /\ call[t].op = "get"
    /\ Answer(t, IF r = Absent THEN Absent ELSE r.value)
    /\ UNCHANGED <<disk, file, memory>>

Set(t) ==
    /\ HandlerGoto(t, "apply", "save")
    /\ InBody(t)
    /\ call[t].op = "set"
    /\ memory' = [memory EXCEPT ![ProcessOf[t]] =
                     SetRecord(@, call[t].name, call[t].value, call[t].expires, now)]
    /\ Answer(t, "ok")
    /\ UNCHANGED <<disk, file>>

(* Mistake: the records are not saved. *)
DeleteInMemory(t) ==
    /\ HandlerGoto(t, "apply", "leave")
    /\ InBody(t)
    /\ call[t].op = "delete"
    /\ memory[ProcessOf[t]][call[t].name] # Absent
    /\ memory' = [memory EXCEPT ![ProcessOf[t]] = DeleteRecord(@, call[t].name)]
    /\ Answer(t, "ok")
    /\ UNCHANGED <<disk, file>>

DeletePresent(t) ==
    /\ HandlerGoto(t, "apply", "save")
    /\ InBody(t)
    /\ call[t].op = "delete"
    /\ memory[ProcessOf[t]][call[t].name] # Absent
    /\ memory' = [memory EXCEPT ![ProcessOf[t]] = DeleteRecord(@, call[t].name)]
    /\ Answer(t, "ok")
    /\ UNCHANGED <<disk, file>>

DeleteAbsent(t) ==
    /\ HandlerGoto(t, "apply", "leave")
    /\ InBody(t)
    /\ call[t].op = "delete"
    /\ memory[ProcessOf[t]][call[t].name] = Absent
    /\ Answer(t, "ok")
    /\ UNCHANGED <<disk, file, memory>>

(***************************************************************************)
(* The `with` block is left, by return or by exception, and when the lock  *)
(* is released the call returns: its frame is gone.  An exception of the   *)
(* lock replaces the result.                                               *)
(***************************************************************************)
DropFrames(S) ==
    /\ hpc' = [t \in Threads |-> IF t \in S THEN "idle" ELSE hpc[t]]
    /\ call' = [t \in Threads |-> IF t \in S THEN NoCall ELSE call[t]]
    /\ since' = [t \in Threads |-> IF t \in S THEN 0 ELSE since[t]]
    /\ reply' = [t \in Threads |-> IF t \in S THEN "none" ELSE reply[t]]
    /\ UNCHANGED <<disk, file, memory, now>>

Leave(t) ==
    /\ hpc[t] = "leave"
    /\ Exit(t) \/ Close(t) \/ Unlink(t)
    /\ lpc'[t] # "out"
    /\ Answer(t, IF lpc'[t] = "raised" THEN "error" ELSE reply[t])
    /\ UNCHANGED <<disk, file, memory, now, hpc, call, since>>

Return(t) ==
    /\ hpc[t] = "leave"
    /\ Exit(t) \/ ClearLocked(t) \/ Raised(t)
    /\ lpc'[t] = "out"
    /\ DropFrames({t})

KillProcess(p) == Kill(p) /\ DropFrames({t \in Threads : ProcessOf[t] = p})

ForkProcess(p) == Fork(p) /\ UNCHANGED handlerVars

Tick ==
    /\ now < MaxTime
    /\ now' = now + 1
    /\ UNCHANGED <<lockVars, disk, file, memory, hpc, call, reply, since>>

(* The steps of a call that was made. *)
Step(t) ==
    \/ Acquire(t) \/ GiveUp(t)
    \/ CreateFile(t) \/ WriteNewFile(t) \/ LoadTornFile(t)
    \/ LoadFirst(t) \/ LoadAndRemoveExpired(t)
    \/ SavePurged(t) \/ WritePurged(t) \/ Save(t) \/ WriteSaved(t) \/ SaveFails(t)
    \/ Get(t) \/ Set(t) \/ DeletePresent(t) \/ DeleteAbsent(t)
    \/ Leave(t) \/ Return(t)

Next ==
    \/ \E t \in Threads : Invoke(t) \/ Step(t)
    \/ \E p \in Processes : KillProcess(p) \/ ForkProcess(p)
    \/ Tick

Spec == Init /\ [][Next]_vars

(* A process that is not killed is scheduled by the operating system. *)
FairSpec == Spec /\ \A t \in Threads : WF_vars(Step(t))

(***************************************************************************)
(* Properties.                                                             *)
(***************************************************************************)

(* No call ever finds the file torn: a save that was cut short leaves the  *)
(* lock file behind, so that nobody gets to read the half of it.  (With    *)
(* failing saves the lock is released and this does not hold.)             *)
NeverLoadsTornFile ==
    ~DiskFaults =>
      \A t \in Threads : lpc[t] = "body" /\ hpc[t] = "load" => disk # "torn"

(* A file left torn by a save that failed is torn for good, whatever the   *)
(* workers do: each of their calls loads it, fails and leaves it as it is. *)
TornForGood ==
    disk = "torn" /\ \A t \in Threads : hpc[t] \notin {"create", "writePurged", "write"}

TornIsPermanent == [][TornForGood => TornForGood']_vars

(* What a call works on in memory is what the file holds: no save brings   *)
(* back records that another worker has changed since they were loaded.    *)
NoStaleMemory ==
    \A t \in Threads :
        hpc[t] = "apply" /\ lpc[t] = "body" => memory[ProcessOf[t]] = file

(* Every call returns, with a result or an error, unless its process is    *)
(* killed: the lock's timeout ends the wait for a lock nobody releases.    *)
CallsReturn == \A t \in Threads : hpc[t] # "idle" ~> hpc[t] = "idle"

(* The handler keeps the promise of RecordStore: the store is the file's   *)
(* contents, and a call takes effect when its save begins.                 *)
phaseBar == [t \in Threads |-> CASE hpc[t] = "idle" -> "idle"
                                 [] hpc[t] \in {"write", "leave"} -> "done"
                                 [] OTHER -> "called"]
replyBar == [t \in Threads |-> IF phaseBar[t] = "called" THEN "none" ELSE reply[t]]

RS == INSTANCE RecordStore WITH store <- file, phase <- phaseBar, reply <- replyBar

ImplementsRecordStore == RS!Spec
=============================================================================
