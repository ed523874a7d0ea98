------------------------------ MODULE FileLock ------------------------------
(***************************************************************************)
(* The lock that guards the token storage file: class FileLock of          *)
(* altrepo_api/api/auth/token/file_storage.py.                             *)
(*                                                                         *)
(* The lock is a file created with O_CREAT | O_EXCL.  Every worker process *)
(* has one FileLock object, shared by the threads of that process, with    *)
(* the attribute _is_locked and the file descriptor fd.  A thread enters   *)
(* and leaves a `with lock:` block; the atomic steps below are the system  *)
(* calls and the accesses to the shared attributes, in the code's order.   *)
(* A process may be killed between any two of them (gunicorn kills a       *)
(* worker that misses its timeout) and is then forked anew.                *)
(***************************************************************************)
EXTENDS Naturals

CONSTANTS
    Threads,      \* the threads of all worker processes
    Processes,    \* the worker processes
    ProcessOf,    \* ProcessOf[t]: the process thread t runs in
    LockTimeout   \* LOCK_FILE_TIMEOUT, in polls of one second

ASSUME ProcessOfAssumption == ProcessOf \in [Threads -> Processes]
ASSUME LockTimeoutAssumption == LockTimeout \in Nat

VARIABLES
    lockfile,   \* the lock file exists
    isLocked,   \* isLocked[p]: attribute _is_locked of p's FileLock
    fdOpen,     \* fdOpen[p]: attribute fd of p's FileLock is an open descriptor
    lpc,        \* lpc[t]: where thread t is in the lock's code
    waited,     \* waited[t]: the polls of t's current _acquire, else 0
    creator     \* the thread whose os.open has created the lock file that is
                \* there, if it still runs (no variable of the code)

lockVars == <<lockfile, isLocked, fdOpen, lpc, waited, creator>>

(* "body" is the inside of the `with` block, "raised" the exception that   *)
(* leaves it or keeps the thread from entering it.                         *)
LockPC == {"out", "acquire", "opened", "body", "close", "unlink", "clear",
           "raised", "dead"}

LockTypeOK ==
    /\ lockfile \in BOOLEAN
    /\ isLocked \in [Processes -> BOOLEAN]
    /\ fdOpen \in [Processes -> BOOLEAN]
    /\ lpc \in [Threads -> LockPC]
    /\ waited \in [Threads -> 0 .. LockTimeout]
    /\ creator \subseteq Threads

LockInit ==
    /\ lockfile = FALSE
    /\ isLocked = [p \in Processes |-> FALSE]
    /\ fdOpen = [p \in Processes |-> FALSE]
    /\ lpc = [t \in Threads |-> "out"]
    /\ waited = [t \in Threads |-> 0]
    /\ creator = {}

Goto(t, from, to) ==
    /\ lpc[t] = from
    /\ lpc' = [lpc EXCEPT ![t] = to]

(***************************************************************************)
(* __enter__: a FileLock that is already locked is not acquired again.     *)
(***************************************************************************)
Enter(t) ==
    /\ Goto(t, "out", IF isLocked[ProcessOf[t]] THEN "body" ELSE "acquire")
    /\ UNCHANGED <<lockfile, isLocked, fdOpen, waited, creator>>

(* Mistake: the file is opened without O_EXCL. *)
OpenLockFileShared(t) ==
    /\ Goto(t, "acquire", "opened")
    /\ lockfile' = TRUE
    /\ creator' = IF lockfile THEN creator ELSE {t}
    /\ fdOpen' = [fdOpen EXCEPT ![ProcessOf[t]] = TRUE]
    /\ waited' = [waited EXCEPT ![t] = 0]
    /\ UNCHANGED isLocked

(* _acquire: os.open with O_EXCL succeeds only if there is no lock file.   *)
OpenLockFile(t) ==
    /\ Goto(t, "acquire", "opened")
    /\ ~lockfile
    /\ lockfile' = TRUE
    /\ creator' = {t}
    /\ fdOpen' = [fdOpen EXCEPT ![ProcessOf[t]] = TRUE]
    /\ waited' = [waited EXCEPT ![t] = 0]
    /\ UNCHANGED isLocked

(* Mistake: one poll too many. *)
PollOnceMore(t) ==
    /\ lpc[t] = "acquire"
    /\ lockfile
    /\ waited[t] <= LockTimeout
    /\ waited' = [waited EXCEPT ![t] = @ + 1]
    /\ UNCHANGED <<lockfile, isLocked, fdOpen, lpc, creator>>

(* _acquire: EEXIST before the timeout, sleep(1) and try again.            *)
Poll(t) ==
    /\ lpc[t] = "acquire"
    /\ lockfile
    /\ waited[t] < LockTimeout
    /\ waited' = [waited EXCEPT ![t] = @ + 1]
    /\ UNCHANGED <<lockfile, isLocked, fdOpen, lpc, creator>>

(* Mistake: a lock that was waited for too long is broken. *)
TimeOutBreaksLock(t) ==
    /\ Goto(t, "acquire", "raised")
    /\ lockfile
    /\ lockfile' = FALSE
    /\ creator' = {}
    /\ waited' = [waited EXCEPT ![t] = 0]
    /\ UNCHANGED <<isLocked, fdOpen>>

(* Mistake: the wait never comes to its end. *)
TimeOutNever(t) ==
    /\ Goto(t, "acquire", "raised")
    /\ lockfile /\ waited[t] > LockTimeout
    /\ waited' = [waited EXCEPT ![t] = 0]
    /\ UNCHANGED <<lockfile, isLocked, fdOpen, creator>>

(* _acquire: EEXIST when the timeout has passed.  sleep(1) lasts a second  *)
(* or more, so the timeout may pass after any number of polls, and has     *)
(* passed after LockTimeout of them.                                       *)
TimeOut(t) ==
    /\ Goto(t, "acquire", "raised")
    /\ lockfile
    /\ waited' = [waited EXCEPT ![t] = 0]
    /\ UNCHANGED <<lockfile, isLocked, fdOpen, creator>>

(* The end of _acquire: the flag is set after the file was created.        *)
SetLocked(t) ==
    /\ Goto(t, "opened", "body")
    /\ isLocked' = [isLocked EXCEPT ![ProcessOf[t]] = TRUE]
    /\ UNCHANGED <<lockfile, fdOpen, waited, creator>>

(***************************************************************************)
(* __exit__ and _release: nothing if the flag is clear, else close the     *)
(* descriptor, unlink the file and clear the flag, in this order.  Either  *)
(* system call raises OSError when another thread was faster.              *)
(***************************************************************************)
Exit(t) ==
    /\ Goto(t, "body", IF isLocked[ProcessOf[t]] THEN "close" ELSE "out")
    /\ UNCHANGED <<lockfile, isLocked, fdOpen, waited, creator>>

Close(t) ==
    /\ Goto(t, "close", IF fdOpen[ProcessOf[t]] THEN "unlink" ELSE "raised")
    /\ fdOpen' = [fdOpen EXCEPT ![ProcessOf[t]] = FALSE]
    /\ UNCHANGED <<lockfile, isLocked, waited, creator>>

Unlink(t) ==
    /\ Goto(t, "unlink", IF lockfile THEN "clear" ELSE "raised")
    /\ lockfile' = FALSE
    /\ creator' = {}
    /\ UNCHANGED <<isLocked, fdOpen, waited>>

ClearLocked(t) ==
    /\ Goto(t, "clear", "out")
    /\ isLocked' = [isLocked EXCEPT ![ProcessOf[t]] = FALSE]
    /\ UNCHANGED <<lockfile, fdOpen, waited, creator>>

(* Mistake: the lock file is removed although it was not acquired. *)
RaisedUnlocks(t) ==
    /\ Goto(t, "raised", "out")
    /\ lockfile' = FALSE
    /\ creator' = {}
    /\ UNCHANGED <<isLocked, fdOpen, waited>>

(* The exception has left the `with` statement and the request.            *)
Raised(t) ==
    /\ Goto(t, "raised", "out")
    /\ UNCHANGED <<lockfile, isLocked, fdOpen, waited, creator>>

Dead(p) == \A t \in Threads : ProcessOf[t] = p => lpc[t] = "dead"

(***************************************************************************)
(* A process is killed: its object and descriptors are gone, the lock file *)
(* stays.  A process forked in its place has a FileLock of its own.        *)
(***************************************************************************)
Kill(p) ==
    /\ ~Dead(p)
    /\ lpc' = [t \in Threads |-> IF ProcessOf[t] = p THEN "dead" ELSE lpc[t]]
    /\ isLocked' = [isLocked EXCEPT ![p] = FALSE]
    /\ fdOpen' = [fdOpen EXCEPT ![p] = FALSE]
    /\ waited' = [t \in Threads |-> IF ProcessOf[t] = p THEN 0 ELSE waited[t]]
    /\ creator' = {t \in creator : ProcessOf[t] # p}
    /\ UNCHANGED lockfile

Fork(p) ==
    /\ Dead(p)
    /\ lpc' = [t \in Threads |-> IF ProcessOf[t] = p THEN "out" ELSE lpc[t]]
    /\ UNCHANGED <<lockfile, isLocked, fdOpen, waited, creator>>

(* The steps the code of the lock takes by itself once it was entered, and *)
(* the whole lock with a body that does nothing.                           *)
AcquireStep(t) == OpenLockFile(t) \/ Poll(t) \/ TimeOut(t) \/ SetLocked(t)
ReleaseStep(t) == Close(t) \/ Unlink(t) \/ ClearLocked(t) \/ Raised(t)

LockNext ==
    \/ \E t \in Threads : Enter(t) \/ AcquireStep(t) \/ Exit(t) \/ ReleaseStep(t)
    \/ \E p \in Processes : Kill(p) \/ Fork(p)

LockSpec == LockInit /\ [][LockNext]_lockVars

(***************************************************************************)
(* Properties.                                                             *)
(***************************************************************************)

(* Thread t works under the lock: the inside of the `with` block, and what *)
(* leads in and out of it.                                                 *)
Holds(t) == lpc[t] \in {"opened", "body", "close", "unlink"}

(* The deployment with gunicorn's synchronous workers (bin/altrepo-api).   *)
OneThreadPerProcess ==
    \A s, t \in Threads : ProcessOf[s] = ProcessOf[t] => s = t

(* The body of the `with` block, where the storage file is read, changed   *)
(* and written, is executed by one thread at a time.                       *)
MutualExclusion == \A s, t \in Threads : Holds(s) /\ Holds(t) => s = t

(* The lock file outlived the process that created it.                     *)
Stale == lockfile /\ creator = {}

(* A lock file is removed only by a step of the thread whose open created  *)
(* it: no thread breaks the lock of another one, not after a timeout, nor  *)
(* by the flag, shared or left over, of a lock that is somebody else's     *)
(* (file_storage.py:313-340).                                              *)
OnlyCreatorUnlocks ==
    [][lockfile /\ ~lockfile' => \E t \in creator : lpc'[t] # lpc[t]]_lockVars

(* A lock file left by a killed process is never removed again, whatever   *)
(* the other processes do: the storage stays closed to every worker.       *)
StaleIsPermanent == [][Stale => Stale']_lockVars
=============================================================================
