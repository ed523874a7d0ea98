------------------------ MODULE StorageHandlerProofs ------------------------
(***************************************************************************)
(* What FileLock guarantees for any number of worker processes and any     *)
(* timeout, and what the StorageHandler makes of it.  Mutual exclusion and *)
(* the two properties of the lock file need the deployment with one thread *)
(* in each process: the run of two threads in one process shows that they  *)
(* fail without it.  The StorageHandler uses its FileLock as the lock is   *)
(* meant to be used, so that what is proved of the lock holds of the       *)
(* storage; from this, no worker ever loads half a file.                   *)
(***************************************************************************)
EXTENDS StorageHandler, TLAPS

(* The attribute _is_locked is set exactly from the end of _acquire to the *)
(* end of _release.                                                        *)
FlagSet(t) == lpc[t] \in {"body", "close", "unlink", "clear"}
FlagsAgree == \A t \in Threads : isLocked[ProcessOf[t]] <=> FlagSet(t)

(* The descriptor is open until it is closed by whoever holds the lock, so *)
(* that _release never fails half-way.                                     *)
FdAgrees ==
    \A t \in Threads : lpc[t] \in {"opened", "body", "close"} => fdOpen[ProcessOf[t]]

(* Whoever holds the lock has created the lock file, and is alone.         *)
HoldersHaveFile == \A t \in Threads : Holds(t) => lockfile /\ creator = {t}

LockInv == LockTypeOK /\ FlagsAgree /\ FdAgrees /\ HoldersHaveFile /\ MutualExclusion

-----------------------------------------------------------------------------
(* The attributes of the lock have their types, whatever the threads of a  *)
(* process do to each other.                                               *)
LEMMA LockTypeInit == LockInit => LockTypeOK
<1> SUFFICES ASSUME LockInit PROVE LockTypeOK
      OBVIOUS
<1>1. 0 \in 0 .. LockTimeout
        BY LockTimeoutAssumption
<1>2. "out" \in LockPC
        BY DEF LockPC
<1> QED BY <1>1, <1>2 DEF LockInit, LockTypeOK

LEMMA LockTypeStep == LockTypeOK /\ [LockNext]_lockVars => LockTypeOK'
<1> SUFFICES ASSUME LockTypeOK, [LockNext]_lockVars PROVE LockTypeOK'
    OBVIOUS
<1> USE ProcessOfAssumption, LockTimeoutAssumption
<1>1. ASSUME NEW t \in Threads, Enter(t) PROVE LockTypeOK'
      BY <1>1 DEF LockTypeOK, LockPC, Enter, Goto
<1>2. ASSUME NEW t \in Threads, AcquireStep(t) PROVE LockTypeOK'
  <2>1. CASE OpenLockFile(t)
        BY <2>1 DEF LockTypeOK, LockPC, OpenLockFile, Goto
  <2>2. CASE Poll(t)
        BY <2>2 DEF LockTypeOK, LockPC, Poll
  <2>3. CASE TimeOut(t)
        BY <2>3 DEF LockTypeOK, LockPC, TimeOut, Goto
  <2>4. CASE SetLocked(t)
        BY <2>4 DEF LockTypeOK, LockPC, SetLocked, Goto
  <2> QED BY <1>2, <2>1, <2>2, <2>3, <2>4 DEF AcquireStep
<1>3. ASSUME NEW t \in Threads, Exit(t) PROVE LockTypeOK'
      BY <1>3 DEF LockTypeOK, LockPC, Exit, Goto
<1>4. ASSUME NEW t \in Threads, ReleaseStep(t) PROVE LockTypeOK'
  <2>1. CASE Close(t)
        BY <2>1 DEF LockTypeOK, LockPC, Close, Goto
  <2>2. CASE Unlink(t)
        BY <2>2 DEF LockTypeOK, LockPC, Unlink, Goto
  <2>3. CASE ClearLocked(t)
        BY <2>3 DEF LockTypeOK, LockPC, ClearLocked, Goto
  <2>4. CASE Raised(t)
        BY <2>4 DEF LockTypeOK, LockPC, Raised, Goto
  <2> QED BY <1>4, <2>1, <2>2, <2>3, <2>4 DEF ReleaseStep
<1>5. ASSUME NEW p \in Processes, Kill(p) PROVE LockTypeOK'
      BY <1>5 DEF LockTypeOK, LockPC, Kill
<1>6. ASSUME NEW p \in Processes, Fork(p) PROVE LockTypeOK'
      BY <1>6 DEF LockTypeOK, LockPC, Fork
<1>7. CASE UNCHANGED lockVars
      BY <1>7 DEF LockTypeOK, lockVars
<1> QED BY <1>1, <1>2, <1>3, <1>4, <1>5, <1>6, <1>7 DEF LockNext

(* Type correctness of FileLock, with any number of threads per process.   *)
THEOREM LockTypeCorrect == LockSpec => []LockTypeOK
<1>1. LockInit => LockTypeOK
      BY LockTypeInit
<1>2. LockTypeOK /\ [LockNext]_lockVars => LockTypeOK'
      BY LockTypeStep
<1> QED BY <1>1, <1>2, PTL DEF LockSpec

-----------------------------------------------------------------------------
(* The steps of one thread leave the pc of every other one and the flag of *)
(* every other process alone.                                              *)
LEMMA LockInvStep ==
    ASSUME OneThreadPerProcess PROVE LockInv /\ [LockNext]_lockVars => LockInv'
<1> SUFFICES ASSUME LockInv, [LockNext]_lockVars PROVE LockInv'
    OBVIOUS
<1> USE ProcessOfAssumption
<1>0. LockTypeOK'
      BY LockTypeStep DEF LockInv
<1> DEFINE Goal == FlagsAgree' /\ FdAgrees' /\ HoldersHaveFile' /\ MutualExclusion'
<1>1. ASSUME NEW t \in Threads, Enter(t) PROVE Goal
      BY <1>1 DEF OneThreadPerProcess, LockInv, LockTypeOK, LockPC, FlagsAgree, FdAgrees,
                  FlagSet, HoldersHaveFile, MutualExclusion, Holds, Enter, Goto
<1>2. ASSUME NEW t \in Threads, AcquireStep(t) PROVE Goal
  <2>1. CASE OpenLockFile(t)
        BY <2>1 DEF OneThreadPerProcess, LockInv, LockTypeOK, LockPC, FlagsAgree, FdAgrees,
                    FlagSet, HoldersHaveFile, MutualExclusion, Holds, OpenLockFile, Goto
  <2>2. CASE Poll(t)
        BY <2>2 DEF LockInv, FlagsAgree, FdAgrees, FlagSet, HoldersHaveFile, MutualExclusion,
                    Holds, Poll
  <2>3. CASE TimeOut(t)
        BY <2>3 DEF OneThreadPerProcess, LockInv, LockTypeOK, LockPC, FlagsAgree, FdAgrees,
                    FlagSet, HoldersHaveFile, MutualExclusion, Holds, TimeOut, Goto
  <2>4. CASE SetLocked(t)
        BY <2>4 DEF OneThreadPerProcess, LockInv, LockTypeOK, LockPC, FlagsAgree, FdAgrees,
                    FlagSet, HoldersHaveFile, MutualExclusion, Holds, SetLocked, Goto
  <2> QED BY <1>2, <2>1, <2>2, <2>3, <2>4 DEF AcquireStep
<1>3. ASSUME NEW t \in Threads, Exit(t) PROVE Goal
      BY <1>3 DEF OneThreadPerProcess, LockInv, LockTypeOK, LockPC, FlagsAgree, FdAgrees,
                  FlagSet, HoldersHaveFile, MutualExclusion, Holds, Exit, Goto
<1>4. ASSUME NEW t \in Threads, ReleaseStep(t) PROVE Goal
  <2>1. CASE Close(t)
        BY <2>1 DEF OneThreadPerProcess, LockInv, LockTypeOK, LockPC, FlagsAgree, FdAgrees,
                    FlagSet, HoldersHaveFile, MutualExclusion, Holds, Close, Goto
  <2>2. CASE Unlink(t)
        BY <2>2 DEF OneThreadPerProcess, LockInv, LockTypeOK, LockPC, FlagsAgree, FdAgrees,
                    FlagSet, HoldersHaveFile, MutualExclusion, Holds, Unlink, Goto
  <2>3. CASE ClearLocked(t)
        BY <2>3 DEF OneThreadPerProcess, LockInv, LockTypeOK, LockPC, FlagsAgree, FdAgrees,
                    FlagSet, HoldersHaveFile, MutualExclusion, Holds, ClearLocked, Goto
  <2>4. CASE Raised(t)
        BY <2>4 DEF OneThreadPerProcess, LockInv, LockTypeOK, LockPC, FlagsAgree, FdAgrees,
                    FlagSet, HoldersHaveFile, MutualExclusion, Holds, Raised, Goto
  <2> QED BY <1>4, <2>1, <2>2, <2>3, <2>4 DEF ReleaseStep
<1>5. ASSUME NEW p \in Processes, Kill(p) PROVE Goal
      BY <1>5 DEF LockInv, LockTypeOK, LockPC, FlagsAgree, FdAgrees,
                  FlagSet, HoldersHaveFile, MutualExclusion, Holds, Kill
<1>6. ASSUME NEW p \in Processes, Fork(p) PROVE Goal
      BY <1>6 DEF OneThreadPerProcess, LockInv, LockTypeOK, LockPC, FlagsAgree, FdAgrees,
                  FlagSet, HoldersHaveFile, MutualExclusion, Holds, Fork, Dead
<1>7. CASE UNCHANGED lockVars
  <2>1. FlagsAgree' /\ FdAgrees'
        BY <1>7 DEF LockInv, FlagsAgree, FdAgrees, FlagSet, lockVars
  <2>2. HoldersHaveFile'
        BY <1>7 DEF LockInv, HoldersHaveFile, Holds, lockVars
  <2>3. MutualExclusion'
        BY <1>7 DEF LockInv, MutualExclusion, Holds, lockVars
  <2> QED BY <1>0, <2>1, <2>2, <2>3 DEF LockInv
<1> QED BY <1>0, <1>1, <1>2, <1>3, <1>4, <1>5, <1>6, <1>7 DEF LockNext, LockInv

LEMMA LockInvInit == LockInit => LockInv
<1> SUFFICES ASSUME LockInit PROVE LockInv
    OBVIOUS
<1>1. LockTypeOK
      BY LockTypeInit
<1>2. FlagsAgree /\ FdAgrees
      BY ProcessOfAssumption DEF LockInit, FlagsAgree, FdAgrees, FlagSet
<1>3. HoldersHaveFile /\ MutualExclusion
      BY DEF LockInit, HoldersHaveFile, MutualExclusion, Holds
<1> QED BY <1>1, <1>2, <1>3 DEF LockInv

LEMMA LockInvariant == ASSUME OneThreadPerProcess PROVE LockSpec => []LockInv
<1>1. LockInit => LockInv
      BY LockInvInit
<1>2. LockInv /\ [LockNext]_lockVars => LockInv'
      BY LockInvStep
<1> QED BY <1>1, <1>2, PTL DEF LockSpec

(* The body of the `with` block is executed by one worker at a time, even  *)
(* when workers are killed, time out and are forked anew.                  *)
THEOREM LockExcludes == ASSUME OneThreadPerProcess PROVE LockSpec => []MutualExclusion
<1>1. LockInv => MutualExclusion
      BY DEF LockInv
<1> QED BY <1>1, LockInvariant, PTL

-----------------------------------------------------------------------------
(* The lock file is created by OpenLockFile and removed by Unlink only.    *)
LEMMA LockfileSteps ==
    ASSUME LockTypeOK, [LockNext]_lockVars, lockfile' # lockfile
    PROVE  \E t \in Threads : OpenLockFile(t) \/ Unlink(t)
<1> USE DEF lockVars
<1>1. ASSUME NEW t \in Threads, Enter(t) \/ Exit(t) PROVE FALSE
      BY <1>1 DEF Enter, Exit
<1>2. ASSUME NEW t \in Threads, Poll(t) \/ TimeOut(t) \/ SetLocked(t) PROVE FALSE
      BY <1>2 DEF Poll, TimeOut, SetLocked
<1>3. ASSUME NEW t \in Threads, Close(t) \/ ClearLocked(t) \/ Raised(t) PROVE FALSE
      BY <1>3 DEF Close, ClearLocked, Raised
<1>4. ASSUME NEW p \in Processes, Kill(p) \/ Fork(p) PROVE FALSE
      BY <1>4 DEF Kill, Fork
<1> QED BY <1>1, <1>2, <1>3, <1>4 DEF LockNext, AcquireStep, ReleaseStep

(* Who unlinks the file has created it, because no one else is at the end  *)
(* of _release.                                                            *)
LEMMA UnlinkByCreator ==
    ASSUME NEW t \in Threads, LockInv, Unlink(t)
    PROVE  creator = {t} /\ lpc'[t] # lpc[t]
<1>1. Holds(t) /\ lpc[t] = "unlink" /\ lpc'[t] \in {"clear", "raised"}
      BY DEF LockInv, LockTypeOK, Unlink, Goto, Holds
<1> QED BY <1>1 DEF LockInv, HoldersHaveFile

(* No thread removes a lock file that it has not created, where each       *)
(* process runs one thread: there the flag _is_locked is set only by the   *)
(* thread that created the file.                                           *)
THEOREM LockNotBroken == ASSUME OneThreadPerProcess PROVE LockSpec => OnlyCreatorUnlocks
<1> DEFINE A == lockfile /\ ~lockfile' => \E t \in creator : lpc'[t] # lpc[t]
<1>1. ASSUME LockInv, [LockNext]_lockVars PROVE [A]_lockVars
  <2> SUFFICES ASSUME lockfile, ~lockfile' PROVE \E t \in creator : lpc'[t] # lpc[t]
      OBVIOUS
  <2>1. PICK t \in Threads : OpenLockFile(t) \/ Unlink(t)
        BY <1>1, LockfileSteps DEF LockInv
  <2>2. ~OpenLockFile(t)
        BY DEF OpenLockFile
  <2> QED BY <1>1, <2>1, <2>2, UnlinkByCreator
<1> QED BY <1>1, LockInvariant, PTL DEF LockSpec, OnlyCreatorUnlocks

(* A lock file whose creator is gone closes the storage for good.          *)
LEMMA StaleStep ==
    ASSUME LockInv, [LockNext]_lockVars, Stale PROVE Stale'
<1>1. ASSUME NEW t \in Threads, OpenLockFile(t) \/ Unlink(t) PROVE FALSE
      BY <1>1, UnlinkByCreator DEF OpenLockFile, Stale
<1>2. lockfile' = lockfile
      BY <1>1, LockfileSteps DEF LockInv
<1>3. creator' \subseteq creator
  <2>1. ASSUME NEW t \in Threads, Enter(t) \/ AcquireStep(t) \/ Exit(t) \/ ReleaseStep(t)
        PROVE  creator' \subseteq creator
        BY <1>1, <2>1 DEF Enter, AcquireStep, Poll, TimeOut, SetLocked, Exit, ReleaseStep,
                          Close, ClearLocked, Raised
  <2>2. ASSUME NEW p \in Processes, Kill(p) \/ Fork(p) PROVE creator' \subseteq creator
        BY <2>2 DEF Kill, Fork
  <2> QED BY <2>1, <2>2 DEF LockNext, lockVars
<1> QED BY <1>2, <1>3 DEF Stale

THEOREM StaleLockStays == ASSUME OneThreadPerProcess PROVE LockSpec => StaleIsPermanent
<1>1. LockInv /\ [LockNext]_lockVars => [Stale => Stale']_lockVars
      BY StaleStep
<1> QED BY <1>1, LockInvariant, PTL DEF LockSpec, StaleIsPermanent

-----------------------------------------------------------------------------
(***************************************************************************)
(* The handler implements the lock.                                        *)
(***************************************************************************)
BodyStep(t) ==
    \/ CreateFile(t) \/ WriteNewFile(t) \/ LoadTornFile(t)
    \/ LoadFirst(t) \/ LoadAndRemoveExpired(t)
    \/ SavePurged(t) \/ WritePurged(t) \/ Save(t) \/ WriteSaved(t) \/ SaveFails(t)
    \/ Get(t) \/ Set(t) \/ DeletePresent(t) \/ DeleteAbsent(t)

LEMMA BodyKeepsLock ==
    ASSUME NEW t \in Threads, BodyStep(t) PROVE lpc[t] = "body" /\ UNCHANGED lockVars
BY DEF BodyStep, InBody, CreateFile, WriteNewFile, LoadTornFile, LoadFirst,
       LoadAndRemoveExpired, SavePurged, WritePurged, Save, WriteSaved, SaveFails,
       Truncate, Write, Get, Set, DeletePresent, DeleteAbsent

LEMMA StepIsLockStep == [Next]_vars => [LockNext]_lockVars
<1> SUFFICES ASSUME [Next]_vars PROVE [LockNext]_lockVars
    OBVIOUS
<1>1. ASSUME NEW t \in Threads, Invoke(t) PROVE LockNext
      BY <1>1 DEF Invoke, LockNext
<1>2. ASSUME NEW t \in Threads, Acquire(t) \/ GiveUp(t) PROVE LockNext
      BY <1>2 DEF Acquire, GiveUp, LockNext, AcquireStep
<1>3. ASSUME NEW t \in Threads, BodyStep(t) PROVE UNCHANGED lockVars
      BY <1>3, BodyKeepsLock
<1>4. ASSUME NEW t \in Threads, Leave(t) \/ Return(t) PROVE LockNext
      BY <1>4 DEF Leave, Return, LockNext, ReleaseStep
<1>5. ASSUME NEW p \in Processes, KillProcess(p) \/ ForkProcess(p) PROVE LockNext
      BY <1>5 DEF KillProcess, ForkProcess, LockNext
<1>6. CASE Tick
      BY <1>6 DEF Tick, lockVars
<1>7. CASE UNCHANGED vars
      BY <1>7 DEF vars
<1> QED BY <1>1, <1>2, <1>3, <1>4, <1>5, <1>6, <1>7 DEF Next, Step, BodyStep

(* Whatever get, set, delete and the constructor do, the lock goes through *)
(* the steps of class FileLock only.                                       *)
THEOREM HandlerImplementsLock == Spec => LockSpec
<1>1. Init => LockInit
      BY DEF Init
<1> QED BY <1>1, StepIsLockStep, PTL DEF Spec, LockSpec

(* The three promises of the lock, of the handler: one worker at a time    *)
(* works on the file; ...                                                  *)
THEOREM StorageExcludes == ASSUME OneThreadPerProcess PROVE Spec => []MutualExclusion
BY HandlerImplementsLock, LockExcludes, PTL

(* ... only the worker that created the lock file removes it; ...          *)
THEOREM StorageLockNotBroken == ASSUME OneThreadPerProcess PROVE Spec => OnlyCreatorUnlocks
BY HandlerImplementsLock, LockNotBroken, PTL

(* ... and the lock file of a killed worker closes the storage for good.   *)
THEOREM StorageStaysClosed == ASSUME OneThreadPerProcess PROVE Spec => StaleIsPermanent
BY HandlerImplementsLock, StaleLockStays, PTL

(***************************************************************************)
(* Type correctness.                                                       *)
(***************************************************************************)
LEMMA RemoveExpiredType ==
    ASSUME NEW s \in Contents, NEW time PROVE RemoveExpired(s, time) \in Contents
BY DEF RemoveExpired, Contents

LEMMA SetRecordType ==
    ASSUME NEW s \in Contents, NEW n \in Names, NEW v \in Values,
           NEW e \in TTLs \cup {Absent}, NEW time \in Nat
    PROVE  SetRecord(s, n, v, e, time) \in Contents
<1>1. Create(v, e, time) \in Record
      BY DEF Create, Record
<1>2. ASSUME s[n] # Absent PROVE Update(s[n], v, e, time) \in Record
      BY <1>2 DEF Contents, Update, Record
<1> QED BY <1>1, <1>2 DEF SetRecord, Contents

LEMMA DeleteRecordType ==
    ASSUME NEW s \in Contents, NEW n \in Names PROVE DeleteRecord(s, n) \in Contents
BY DEF DeleteRecord, Contents

LEMMA EmptyStorageType == EMPTY_STORAGE \in Contents
BY DEF EMPTY_STORAGE, Contents

LEMMA NowType == now \in 0 .. MaxTime => now \in Nat
BY MaxTimeAssumption

LEMMA ValueType ==
    ASSUME NEW s \in Contents, NEW n \in Names, s[n] # Absent PROVE s[n].value \in Values
BY DEF Contents, Record

LEMMA HandlerTypeInit == Init => TypeOK
<1> SUFFICES ASSUME Init PROVE TypeOK
    OBVIOUS
<1>1. LockTypeOK
      BY LockTypeInit DEF Init
<1>2. disk \in {"missing", "torn", "ok"} /\ file \in Contents
      BY EmptyStorageType, LeftBehindAssumption DEF Init
<1>3. memory \in [Processes -> Contents]
      BY EmptyStorageType DEF Init
<1>4. now \in 0 .. MaxTime /\ since \in [Threads -> 0 .. MaxTime]
      BY MaxTimeAssumption DEF Init
<1>5. hpc \in [Threads -> HandlerPC] /\ call \in [Threads -> Calls \cup {NoCall}]
      BY DEF Init, HandlerPC
<1>6. reply \in [Threads -> Reply]
      BY DEF Init, Reply
<1> QED BY <1>1, <1>2, <1>3, <1>4, <1>5, <1>6 DEF TypeOK

LEMMA BodyType == ASSUME TypeOK, NEW t \in Threads, BodyStep(t) PROVE TypeOK'
<1> USE DEF HandlerGoto, HandlerPC, InBody, Answer
<1>1. LockTypeOK'
      BY BodyKeepsLock DEF TypeOK, LockTypeOK, lockVars
<1>2. now' \in 0 .. MaxTime /\ since' \in [Threads -> 0 .. MaxTime]
        /\ call' \in [Threads -> Calls \cup {NoCall}]
      BY DEF TypeOK, BodyStep, CreateFile, WriteNewFile, LoadTornFile, LoadFirst,
             LoadAndRemoveExpired, SavePurged, WritePurged, Save, WriteSaved, SaveFails,
             Truncate, Write, Get, Set, DeletePresent, DeleteAbsent
<1>3. call[t] \in Call \cup {NoCall} /\ ProcessOf[t] \in Processes
        /\ memory[ProcessOf[t]] \in Contents
      BY CallsAssumption, ProcessOfAssumption DEF TypeOK
<1> DEFINE Goal == /\ disk' \in {"missing", "torn", "ok"}
                   /\ file' \in Contents
                   /\ memory' \in [Processes -> Contents]
                   /\ hpc' \in [Threads -> HandlerPC]
                   /\ reply' \in [Threads -> Reply]
<1>4. ASSUME CreateFile(t) \/ WriteNewFile(t) \/ LoadTornFile(t) PROVE Goal
      BY <1>4, EmptyStorageType DEF TypeOK, CreateFile, WriteNewFile, LoadTornFile, Reply
<1>5. ASSUME LoadFirst(t) \/ LoadAndRemoveExpired(t) PROVE Goal
      BY <1>5, <1>3, RemoveExpiredType DEF TypeOK, LoadFirst, LoadAndRemoveExpired, Reply
<1>6. ASSUME SavePurged(t) \/ WritePurged(t) \/ Save(t) \/ WriteSaved(t) PROVE Goal
      BY <1>6, <1>3 DEF TypeOK, SavePurged, WritePurged, Save, WriteSaved, Truncate, Write
<1>7. ASSUME SaveFails(t) PROVE Goal
      BY <1>7 DEF TypeOK, SaveFails, Reply
<1>8. ASSUME Get(t) PROVE Goal
  <2>1. call[t].name \in Names
        BY <1>3, <1>8 DEF Get, Call, NoCall
  <2>2. IF memory[ProcessOf[t]][call[t].name] = Absent THEN Absent \in Reply
        ELSE memory[ProcessOf[t]][call[t].name].value \in Reply
        BY <1>3, <2>1, ValueType DEF Reply
  <2> QED BY <1>8, <2>2 DEF TypeOK, Get
<1>9. ASSUME Set(t) PROVE Goal
  <2>1. call[t].name \in Names /\ call[t].value \in Values
          /\ call[t].expires \in TTLs \cup {Absent}
        BY <1>3, <1>9 DEF Set, Call, NoCall
  <2>2. SetRecord(memory[ProcessOf[t]], call[t].name, call[t].value, call[t].expires, now)
          \in Contents
        BY <1>3, <2>1, SetRecordType, NowType DEF TypeOK
  <2> QED BY <1>9, <2>2 DEF TypeOK, Set, Reply
<1>10. ASSUME DeletePresent(t) \/ DeleteAbsent(t) PROVE Goal
  <2>1. call[t].name \in Names
        BY <1>3, <1>10 DEF DeletePresent, DeleteAbsent, Call, NoCall
  <2>2. DeleteRecord(memory[ProcessOf[t]], call[t].name) \in Contents
        BY <1>3, <2>1, DeleteRecordType
  <2> QED BY <1>10, <2>2 DEF TypeOK, DeletePresent, DeleteAbsent, Reply
<1>11. Goal
       BY <1>4, <1>5, <1>6, <1>7, <1>8, <1>9, <1>10 DEF BodyStep
<1> QED BY <1>1, <1>2, <1>11 DEF TypeOK

LEMMA DropFramesType ==
    ASSUME TypeOK, NEW S, DropFrames(S), LockTypeOK' PROVE TypeOK'
BY MaxTimeAssumption DEF TypeOK, DropFrames, HandlerPC, Reply

LEMMA HandlerTypeStep == TypeOK /\ [Next]_vars => TypeOK'
<1> SUFFICES ASSUME TypeOK, [Next]_vars PROVE TypeOK'
    OBVIOUS
<1>0. LockTypeOK'
      BY StepIsLockStep, LockTypeStep DEF TypeOK
<1>1. ASSUME NEW t \in Threads, Invoke(t) PROVE TypeOK'
      BY <1>0, <1>1 DEF TypeOK, Invoke, HandlerGoto, HandlerPC
<1>2. ASSUME NEW t \in Threads, Acquire(t) PROVE TypeOK'
      BY <1>0, <1>2 DEF TypeOK, Acquire, handlerVars
<1>3. ASSUME NEW t \in Threads, GiveUp(t) PROVE TypeOK'
      BY <1>0, <1>3 DEF TypeOK, GiveUp, HandlerGoto, HandlerPC, Answer, Reply
<1>4. ASSUME NEW t \in Threads, BodyStep(t) PROVE TypeOK'
      BY <1>4, BodyType
<1>5. ASSUME NEW t \in Threads, Leave(t) PROVE TypeOK'
      BY <1>0, <1>5 DEF TypeOK, Leave, Answer, Reply
<1>6. ASSUME NEW t \in Threads, Return(t) PROVE TypeOK'
      BY <1>0, <1>6, DropFramesType DEF Return
<1>7. ASSUME NEW p \in Processes, KillProcess(p) PROVE TypeOK'
      BY <1>0, <1>7, DropFramesType DEF KillProcess
<1>8. ASSUME NEW p \in Processes, ForkProcess(p) PROVE TypeOK'
      BY <1>0, <1>8 DEF TypeOK, ForkProcess, handlerVars
<1>9. CASE Tick
      BY <1>0, <1>9, MaxTimeAssumption DEF TypeOK, Tick
<1>10. CASE UNCHANGED vars
      BY <1>0, <1>10 DEF TypeOK, vars, handlerVars
<1> QED BY <1>1, <1>2, <1>3, <1>4, <1>5, <1>6, <1>7, <1>8, <1>9, <1>10
        DEF Next, Step, BodyStep

(* All variables have their types, for all records and times.              *)
THEOREM HandlerTypeCorrect == Spec => []TypeOK
BY HandlerTypeInit, HandlerTypeStep, PTL DEF Spec

(***************************************************************************)
(* The file as the holder of the lock sees it.  The invariant relates the  *)
(* place in the handler's code to the place in the lock's, and says that   *)
(* a torn file is being written by the holder of the lock, or has been by  *)
(* a killed one, so that the lock file is there.                           *)
(***************************************************************************)
BodyPC == {"create", "savePurged", "writePurged", "apply", "save", "write"}
WritingPC == {"create", "writePurged", "write"}

PlacesAgree ==
    \A t \in Threads :
        /\ hpc[t] = "idle" => lpc[t] \in {"out", "dead"}
        /\ hpc[t] = "load" => lpc[t] \in {"acquire", "opened", "body"}
        /\ hpc[t] \in BodyPC => lpc[t] = "body"
        /\ hpc[t] = "leave" => lpc[t] \in {"body", "close", "unlink", "clear", "raised"}

TornIsGuarded ==
    ~DiskFaults /\ disk = "torn" =>
        lockfile /\ \A t \in Threads : Holds(t) => hpc[t] \in WritingPC

HandlerInv == TypeOK /\ LockInv /\ PlacesAgree /\ TornIsGuarded /\ NoStaleMemory

LEMMA PlacesStep == TypeOK /\ PlacesAgree /\ [Next]_vars => PlacesAgree'
<1> SUFFICES ASSUME TypeOK, PlacesAgree, [Next]_vars PROVE PlacesAgree'
    OBVIOUS
<1> USE DEF TypeOK, LockTypeOK, PlacesAgree, BodyPC, HandlerGoto
<1>1. ASSUME NEW t \in Threads, Invoke(t) PROVE PlacesAgree'
  <2>1. lpc' = [lpc EXCEPT ![t] = lpc'[t]] /\ lpc'[t] \in {"body", "acquire"}
        BY <1>1 DEF Invoke, Enter, Goto
  <2> QED BY <1>1, <2>1 DEF Invoke
<1>2. ASSUME NEW t \in Threads, Acquire(t) PROVE PlacesAgree'
      BY <1>2 DEF Acquire, OpenLockFile, Poll, SetLocked, Goto, handlerVars
<1>3. ASSUME NEW t \in Threads, GiveUp(t) PROVE PlacesAgree'
      BY <1>3 DEF GiveUp, TimeOut, Goto
<1>4. ASSUME NEW t \in Threads, BodyStep(t) PROVE PlacesAgree'
  <2>1. lpc' = lpc /\ lpc[t] = "body"
        BY <1>4, BodyKeepsLock DEF lockVars
  <2>2. \E pc \in BodyPC \cup {"load", "leave"} : hpc' = [hpc EXCEPT ![t] = pc]
        BY <1>4 DEF BodyStep, CreateFile, WriteNewFile, LoadTornFile, LoadFirst,
             LoadAndRemoveExpired, SavePurged, WritePurged, Save, WriteSaved, SaveFails,
             Truncate, Write, Get, Set, DeletePresent, DeleteAbsent
  <2> QED BY <2>1, <2>2
<1>5. ASSUME NEW t \in Threads, Leave(t) PROVE PlacesAgree'
      BY <1>5 DEF Leave, Exit, Close, Unlink, Goto
<1>6. ASSUME NEW t \in Threads, Return(t) PROVE PlacesAgree'
  <2>1. lpc' = [lpc EXCEPT ![t] = "out"]
        BY <1>6 DEF Return, Exit, ClearLocked, Raised, Goto
  <2> QED BY <1>6, <2>1 DEF Return, DropFrames
<1>7. ASSUME NEW p \in Processes, KillProcess(p) PROVE PlacesAgree'
      BY <1>7 DEF KillProcess, Kill, DropFrames
<1>8. ASSUME NEW p \in Processes, ForkProcess(p) PROVE PlacesAgree'
  <2>1. ASSUME NEW t \in Threads, ProcessOf[t] = p PROVE hpc[t] = "idle"
    <3>1. lpc[t] = "dead"
          BY <1>8, <2>1 DEF ForkProcess, Fork, Dead
    <3> QED BY <3>1 DEF HandlerPC
  <2> QED BY <1>8, <2>1 DEF ForkProcess, Fork, handlerVars
<1>9. CASE Tick \/ UNCHANGED vars
      BY <1>9 DEF Tick, vars, handlerVars, lockVars
<1> QED BY <1>1, <1>2, <1>3, <1>4, <1>5, <1>6, <1>7, <1>8, <1>9 DEF Next, Step, BodyStep

(* The steps outside the body of the lock: they leave the file and the     *)
(* memory alone, and nobody who holds the lock after them did not before,  *)
(* but the one who has just created the lock file.                         *)
LEMMA OutsideStep ==
    ASSUME HandlerInv, [Next]_vars, \A t \in Threads : ~BodyStep(t)
    PROVE  /\ UNCHANGED <<disk, file, memory>>
           /\ \A t \in Threads : hpc'[t] \in {hpc[t], "idle", "load", "leave"}
<1> USE DEF HandlerInv, TypeOK, HandlerGoto
<1>1. ASSUME NEW t \in Threads, Invoke(t) \/ GiveUp(t)
      PROVE  /\ UNCHANGED <<disk, file, memory>>
             /\ \A s \in Threads : hpc'[s] \in {hpc[s], "idle", "load", "leave"}
      BY <1>1 DEF Invoke, GiveUp
<1>2. ASSUME NEW t \in Threads, Acquire(t) \/ Leave(t)
      PROVE  UNCHANGED <<disk, file, memory, hpc>>
      BY <1>2 DEF Acquire, Leave, handlerVars
<1>3. ASSUME NEW t \in Threads, Return(t)
      PROVE  /\ UNCHANGED <<disk, file, memory>>
             /\ \A s \in Threads : hpc'[s] \in {hpc[s], "idle"}
      BY <1>3 DEF Return, DropFrames
<1>4. ASSUME NEW p \in Processes, KillProcess(p)
      PROVE  /\ UNCHANGED <<disk, file, memory>>
             /\ \A s \in Threads : hpc'[s] \in {hpc[s], "idle"}
      BY <1>4 DEF KillProcess, DropFrames
<1>5. ASSUME NEW p \in Processes, ForkProcess(p)
      PROVE  UNCHANGED <<disk, file, memory, hpc>>
      BY <1>5 DEF ForkProcess, handlerVars
<1>6. CASE Tick \/ UNCHANGED vars
      BY <1>6 DEF Tick, vars, handlerVars
<1> QED BY <1>1, <1>2, <1>3, <1>4, <1>5, <1>6 DEF Next, Step, BodyStep

(* A call that is in the body of the lock works on what the file holds:    *)
(* nobody else is there to change it.                                      *)
LEMMA NoStaleMemoryStep ==
    ASSUME HandlerInv, [Next]_vars PROVE NoStaleMemory'
<1> SUFFICES ASSUME NEW s \in Threads, hpc'[s] = "apply"
             PROVE  memory'[ProcessOf[s]] = file'
    BY DEF NoStaleMemory
<1> USE ProcessOfAssumption DEF HandlerInv, TypeOK, HandlerGoto
<1>1. hpc[s] = "apply" => memory[ProcessOf[s]] = file /\ Holds(s)
      BY DEF NoStaleMemory, PlacesAgree, BodyPC, Holds
<1>2. ASSUME NEW t \in Threads, BodyStep(t), s # t PROVE FALSE
  <2>1. Holds(t)
        BY <1>2, BodyKeepsLock DEF Holds
  <2>2. hpc'[s] = hpc[s]
        BY <1>2 DEF BodyStep, CreateFile, WriteNewFile, LoadTornFile, LoadFirst,
             LoadAndRemoveExpired, SavePurged, WritePurged, Save, WriteSaved, SaveFails,
             Truncate, Write, Get, Set, DeletePresent, DeleteAbsent
  <2> QED BY <1>1, <1>2, <2>1, <2>2 DEF LockInv, MutualExclusion
<1>3. ASSUME BodyStep(s) PROVE memory'[ProcessOf[s]] = file'
  <2>1. LoadAndRemoveExpired(s) \/ WritePurged(s)
        BY <1>3 DEF BodyStep, CreateFile, WriteNewFile, LoadTornFile, LoadFirst,
             SavePurged, Save, WriteSaved, SaveFails, Truncate, Write, Get, Set,
             DeletePresent, DeleteAbsent
  <2>2. CASE LoadAndRemoveExpired(s)
        BY <2>2 DEF LoadAndRemoveExpired
  <2>3. CASE WritePurged(s)
        BY <2>3 DEF WritePurged, Write
  <2> QED BY <2>1, <2>2, <2>3
<1>4. ASSUME \A t \in Threads : ~BodyStep(t) PROVE memory'[ProcessOf[s]] = file'
      BY <1>1, <1>4, OutsideStep
<1> QED BY <1>2, <1>3, <1>4

(* A file is torn only while the holder of the lock writes it, or when the *)
(* lock file is there to stay.                                             *)
LEMMA TornStep ==
    ASSUME OneThreadPerProcess, HandlerInv, [Next]_vars PROVE TornIsGuarded'
<1> SUFFICES ASSUME ~DiskFaults, disk' = "torn"
             PROVE  lockfile' /\ \A s \in Threads : Holds(s)' => hpc'[s] \in WritingPC
    BY DEF TornIsGuarded
<1> USE ProcessOfAssumption DEF HandlerInv, TypeOK, HandlerGoto, WritingPC
<1>1. ASSUME NEW t \in Threads, BodyStep(t)
      PROVE  lockfile' /\ \A s \in Threads : Holds(s)' => hpc'[s] \in WritingPC
  <2>1. Holds(t) /\ lockfile /\ lpc' = lpc /\ lockfile' = lockfile
        BY <1>1, BodyKeepsLock DEF Holds, LockInv, HoldersHaveFile, lockVars
  <2>2. hpc'[t] \in WritingPC
    <3>1. CASE disk = "torn"
      <4>1. hpc[t] \in WritingPC
            BY <2>1, <3>1 DEF TornIsGuarded
      <4>2. WriteNewFile(t) \/ WritePurged(t) \/ WriteSaved(t) \/ SaveFails(t)
            BY <1>1, <4>1 DEF BodyStep, CreateFile, LoadTornFile, LoadFirst,
               LoadAndRemoveExpired, SavePurged, Save, Truncate, Get, Set, DeletePresent,
               DeleteAbsent
      <4> QED BY <4>2 DEF WriteNewFile, WritePurged, WriteSaved, SaveFails, Write
    <3>2. CASE disk # "torn"
      <4>1. CreateFile(t) \/ SavePurged(t) \/ Save(t)
            BY <1>1, <3>2 DEF BodyStep, WriteNewFile, LoadTornFile, LoadFirst,
               LoadAndRemoveExpired, WritePurged, WriteSaved, SaveFails, Write, Get, Set,
               DeletePresent, DeleteAbsent
      <4> QED BY <4>1 DEF CreateFile, SavePurged, Save, Truncate
    <3> QED BY <3>1, <3>2
  <2> QED BY <2>1, <2>2 DEF Holds, LockInv, MutualExclusion
<1>2. ASSUME \A t \in Threads : ~BodyStep(t)
      PROVE  lockfile' /\ \A s \in Threads : Holds(s)' => hpc'[s] \in WritingPC
  <2>1. disk = "torn"
        BY <1>2, OutsideStep
  <2>2. lockfile /\ \A t \in Threads : Holds(t) => hpc[t] \in WritingPC
        BY <2>1 DEF TornIsGuarded
  <2>3. ASSUME NEW t \in Threads, hpc[t] \in WritingPC
        PROVE  lpc[t] = "body"
        BY <2>3 DEF PlacesAgree, BodyPC
  <2>4. lockfile'
    <3> SUFFICES ASSUME lockfile' # lockfile PROVE FALSE
        BY <2>2
    <3>1. PICK t \in Threads : OpenLockFile(t) \/ Unlink(t)
          BY StepIsLockStep, LockfileSteps
    <3> QED BY <2>2, <2>3, <3>1 DEF OpenLockFile, Unlink, Goto, Holds
  <2>5. ASSUME NEW s \in Threads, Holds(s)' PROVE Holds(s) /\ hpc'[s] = hpc[s]
    <3> USE <2>5 DEF LockTypeOK, Holds, Goto
    <3>1. ASSUME NEW t \in Threads, Invoke(t) PROVE Holds(s) /\ hpc'[s] = hpc[s]
          BY <3>1 DEF Invoke, Enter, LockInv, FlagsAgree, FlagSet
    <3>2. ASSUME NEW t \in Threads, Acquire(t) PROVE Holds(s) /\ hpc'[s] = hpc[s]
          BY <2>2, <3>2 DEF Acquire, OpenLockFile, Poll, SetLocked, handlerVars
    <3>3. ASSUME NEW t \in Threads, GiveUp(t) PROVE Holds(s) /\ hpc'[s] = hpc[s]
          BY <3>3 DEF GiveUp, TimeOut
    <3>4. ASSUME NEW t \in Threads, Leave(t) PROVE FALSE
          BY <2>2, <3>4 DEF Leave, Exit, Close, Unlink
    <3>5. ASSUME NEW t \in Threads, Return(t) PROVE Holds(s) /\ hpc'[s] = hpc[s]
          BY <3>5 DEF Return, Exit, ClearLocked, Raised, DropFrames
    <3>6. ASSUME NEW p \in Processes, KillProcess(p) PROVE Holds(s) /\ hpc'[s] = hpc[s]
          BY <3>6 DEF KillProcess, Kill, DropFrames
    <3>7. ASSUME NEW p \in Processes, ForkProcess(p) PROVE Holds(s) /\ hpc'[s] = hpc[s]
          BY <3>7 DEF ForkProcess, Fork, handlerVars
    <3>8. CASE Tick \/ UNCHANGED vars
          BY <3>8 DEF Tick, vars, handlerVars, lockVars
    <3> QED BY <1>2, <3>1, <3>2, <3>3, <3>4, <3>5, <3>6, <3>7, <3>8
            DEF Next, Step, BodyStep
  <2> QED BY <2>2, <2>4, <2>5
<1> QED BY <1>1, <1>2

LEMMA HandlerInvariant == ASSUME OneThreadPerProcess PROVE Spec => []HandlerInv
<1>1. Init => HandlerInv
  <2> SUFFICES ASSUME Init PROVE HandlerInv
      OBVIOUS
  <2>1. LockInit => LockInv
        BY LockInvInit
  <2>2. PlacesAgree /\ TornIsGuarded /\ NoStaleMemory
        BY DEF Init, LockInit, PlacesAgree, BodyPC, TornIsGuarded, NoStaleMemory
  <2> QED BY <2>1, <2>2, HandlerTypeInit DEF Init, HandlerInv
<1>2. HandlerInv /\ [Next]_vars => HandlerInv'
  <2> SUFFICES ASSUME HandlerInv, [Next]_vars PROVE HandlerInv'
      OBVIOUS
  <2>1. TypeOK' /\ PlacesAgree'
        BY HandlerTypeStep, PlacesStep DEF HandlerInv
  <2>2. LockInv'
        BY StepIsLockStep, LockInvStep DEF HandlerInv
  <2>3. TornIsGuarded' /\ NoStaleMemory'
        BY TornStep, NoStaleMemoryStep
  <2> QED BY <2>1, <2>2, <2>3 DEF HandlerInv
<1> QED BY <1>1, <1>2, PTL DEF Spec

(* While saves do not fail no call ever loads a torn file, though workers  *)
(* are killed in the middle of their saves: the lock file they leave keeps *)
(* everybody else out.                                                     *)
THEOREM TornFileNeverLoaded ==
    ASSUME OneThreadPerProcess PROVE Spec => []NeverLoadsTornFile
<1>1. HandlerInv => NeverLoadsTornFile
      BY DEF HandlerInv, TornIsGuarded, WritingPC, Holds, NeverLoadsTornFile
<1> QED BY <1>1, HandlerInvariant, PTL

(* A call changes what the file holds, and nothing older: no save brings   *)
(* back records that another worker has changed since they were loaded.    *)
THEOREM MemoryNeverStale == ASSUME OneThreadPerProcess PROVE Spec => []NoStaleMemory
<1>1. HandlerInv => NoStaleMemory
      BY DEF HandlerInv
<1> QED BY <1>1, HandlerInvariant, PTL

-----------------------------------------------------------------------------
(***************************************************************************)
(* The handler keeps the promise of RecordStore.  What a call has in       *)
(* memory is made of what the file holds, by its own operation and by      *)
(* removing expired records, until it begins to save it.                   *)
(***************************************************************************)
Own(t) == memory[ProcessOf[t]]

NoneExpired(s, time) == \A n \in Names : s[n] # Absent => ~Expired(s[n], time)

ToSave(t) ==
    /\ reply[t] = "ok"
    /\ \/ /\ call[t].op = "set"
          /\ \E time \in since[t] .. now :
                Own(t) = SetRecord(file, call[t].name, call[t].value, call[t].expires, time)
       \/ call[t].op = "delete" /\ Own(t) = DeleteRecord(file, call[t].name)

Works(t) ==
    /\ since[t] <= now
    /\ hpc[t] = "idle" => reply[t] = "none"
    /\ hpc[t] \in {"savePurged", "apply", "save"} => disk = "ok"
    /\ hpc[t] \in {"savePurged", "writePurged", "apply"} => NoneExpired(Own(t), since[t])
    /\ hpc[t] = "savePurged" => \E time \in 0 .. now : Own(t) = RemoveExpired(file, time)
    /\ hpc[t] \in {"writePurged", "apply", "write"} => Own(t) = file
    /\ hpc[t] = "save" => ToSave(t)

WorkInv ==
    /\ disk = "missing" => file = EMPTY_STORAGE
    /\ \A t \in Threads : Works(t)

LEMMA PurgedHasNoneExpired ==
    ASSUME NEW s \in Contents, NEW time \in Int, NEW before \in Int, before <= time
    PROVE  NoneExpired(RemoveExpired(s, time), before)
<1> SUFFICES ASSUME NEW n \in Names, s[n] # Absent, ~Expired(s[n], time)
             PROVE  ~Expired(s[n], before)
    BY DEF NoneExpired, RemoveExpired
<1>1. s[n] \in Record
      BY DEF Contents
<1>2. s[n].updated \in Nat /\ s[n].expires \in Nat
  <2>1. s[n].updated \in Nat /\ s[n].expires \in TTLs \cup {0}
        BY <1>1 DEF Record
  <2>2. TTLs \cup {0} \subseteq Nat
        BY TTLsAssumption
  <2> QED BY <2>1, <2>2
<1> QED BY <1>2 DEF Expired

(* While a call is in the body of the lock, no other call is at work. *)
LEMMA BodyIsAlone ==
    ASSUME HandlerInv, NEW t \in Threads, BodyStep(t), NEW u \in Threads, u # t
    PROVE  /\ hpc[u] \notin BodyPC
           /\ hpc'[u] = hpc[u] /\ reply'[u] = reply[u] /\ since'[u] = since[u] /\ now' = now
<1>1. hpc[u] \notin BodyPC
  <2>1. Holds(t)
        BY BodyKeepsLock DEF Holds
  <2> QED BY <2>1 DEF HandlerInv, LockInv, MutualExclusion, PlacesAgree, Holds
<1>2. hpc'[u] = hpc[u] /\ reply'[u] = reply[u] /\ since'[u] = since[u] /\ now' = now
      BY DEF HandlerInv, TypeOK, HandlerGoto, InBody, Answer, BodyStep, CreateFile, WriteNewFile,
             LoadTornFile, LoadFirst, LoadAndRemoveExpired, SavePurged, WritePurged, Save,
             WriteSaved, SaveFails, Truncate, Write, Get, Set, DeletePresent, DeleteAbsent
<1> QED BY <1>1, <1>2

LEMMA BodyWorks ==
    ASSUME HandlerInv, WorkInv, NEW t \in Threads, BodyStep(t) PROVE Works(t)'
<1> USE DEF HandlerGoto, InBody, Answer, Own
<1>1. /\ Works(t) /\ ProcessOf[t] \in Processes
      /\ hpc \in [Threads -> HandlerPC] /\ reply \in [Threads -> Reply]
      /\ memory \in [Processes -> Contents] /\ file \in Contents
      /\ now \in 0 .. MaxTime /\ since[t] \in 0 .. MaxTime
      BY ProcessOfAssumption DEF WorkInv, HandlerInv, TypeOK
<1>2. now \in Int /\ since[t] \in Int /\ since[t] <= now /\ now \in 0 .. now
      BY <1>1, MaxTimeAssumption DEF Works
<1>3. CASE CreateFile(t) \/ WriteNewFile(t) \/ LoadTornFile(t) \/ LoadFirst(t) \/ SaveFails(t)
           \/ WriteSaved(t) \/ Get(t) \/ DeleteAbsent(t)
  <2>1. hpc'[t] \in {"create", "load", "leave"} /\ since'[t] = since[t] /\ now' = now
        BY <1>1, <1>3 DEF CreateFile, WriteNewFile, LoadTornFile, LoadFirst, SaveFails, WriteSaved,
           Write, Get, DeleteAbsent
  <2> QED BY <1>2, <2>1 DEF Works
<1>4. CASE LoadAndRemoveExpired(t)
  <2>1. /\ hpc'[t] = IF RemoveExpired(file, now) = file THEN "apply" ELSE "savePurged"
        /\ memory'[ProcessOf[t]] = RemoveExpired(file, now)
        /\ disk' = "ok" /\ file' = file /\ since'[t] = since[t] /\ now' = now
        BY <1>1, <1>4 DEF LoadAndRemoveExpired
  <2>2. NoneExpired(RemoveExpired(file, now), since[t])
        BY <1>1, <1>2, PurgedHasNoneExpired
  <2> QED BY <1>2, <2>1, <2>2 DEF Works
<1>5. CASE SavePurged(t) \/ WritePurged(t) \/ Save(t)
  <2>1. /\ \/ hpc[t] = "savePurged" /\ hpc'[t] = "writePurged"
           \/ hpc[t] = "writePurged" /\ hpc'[t] = "apply" /\ disk' = "ok"
           \/ hpc[t] = "save" /\ hpc'[t] = "write"
        /\ file' = memory[ProcessOf[t]] /\ memory' = memory
        /\ since'[t] = since[t] /\ now' = now
        BY <1>1, <1>5 DEF SavePurged, WritePurged, Save, Truncate, Write
  <2> QED BY <1>1, <1>2, <2>1 DEF Works, NoneExpired
<1>6. CASE Set(t)
  <2>1. /\ hpc[t] = "apply" /\ hpc'[t] = "save" /\ reply'[t] = "ok" /\ call[t].op = "set"
        /\ memory'[ProcessOf[t]] = SetRecord(memory[ProcessOf[t]], call[t].name, call[t].value,
                                             call[t].expires, now)
        /\ UNCHANGED <<disk, file, since, now, call>>
        BY <1>1, <1>6 DEF Set
  <2>2. disk = "ok" /\ memory[ProcessOf[t]] = file
        BY <1>1, <2>1 DEF Works
  <2>3. now \in since[t] .. now
        BY <1>2
  <2> QED BY <1>2, <2>1, <2>2, <2>3 DEF Works, ToSave
<1>7. CASE DeletePresent(t)
  <2>1. /\ hpc[t] = "apply" /\ hpc'[t] = "save" /\ reply'[t] = "ok" /\ call[t].op = "delete"
        /\ memory'[ProcessOf[t]] = DeleteRecord(memory[ProcessOf[t]], call[t].name)
        /\ UNCHANGED <<disk, file, since, now, call>>
        BY <1>1, <1>7 DEF DeletePresent
  <2>2. disk = "ok" /\ memory[ProcessOf[t]] = file
        BY <1>1, <2>1 DEF Works
  <2> QED BY <1>2, <2>1, <2>2 DEF Works, ToSave
<1> QED BY <1>3, <1>4, <1>5, <1>6, <1>7 DEF BodyStep

(* A step outside of the body: calls return, are made, or stay as they are. *)
LEMMA OutsideCalls ==
    ASSUME HandlerInv, WorkInv, [Next]_vars, \A t \in Threads : ~BodyStep(t),
           NEW u \in Threads
    PROVE  /\ since'[u] <= now' /\ now <= now'
           /\ hpc'[u] = "idle" => reply'[u] = "none"
           /\ hpc'[u] \in BodyPC =>
                 /\ hpc'[u] = hpc[u] /\ reply'[u] = reply[u]
                 /\ call'[u] = call[u] /\ since'[u] = since[u]
<1> DEFINE Goal == /\ since'[u] <= now' /\ now <= now'
                   /\ hpc'[u] = "idle" => reply'[u] = "none"
                   /\ hpc'[u] \in BodyPC =>
                         /\ hpc'[u] = hpc[u] /\ reply'[u] = reply[u]
                         /\ call'[u] = call[u] /\ since'[u] = since[u]
<1> USE DEF BodyPC, HandlerGoto, Answer
<1>1. /\ hpc \in [Threads -> HandlerPC] /\ reply \in [Threads -> Reply]
      /\ call \in [Threads -> Calls \cup {NoCall}] /\ since \in [Threads -> 0 .. MaxTime]
      /\ now \in Nat /\ since[u] \in Nat /\ since[u] <= now
      /\ hpc[u] = "idle" => reply[u] = "none"
      BY MaxTimeAssumption DEF WorkInv, Works, HandlerInv, TypeOK
<1>2. ASSUME NEW t \in Threads, Invoke(t) PROVE Goal
      BY <1>1, <1>2 DEF Invoke
<1>3. ASSUME NEW t \in Threads, Acquire(t) PROVE Goal
      BY <1>1, <1>3 DEF Acquire, handlerVars
<1>4. ASSUME NEW t \in Threads, GiveUp(t) PROVE Goal
      BY <1>1, <1>4 DEF GiveUp
<1>5. ASSUME NEW t \in Threads, Leave(t) PROVE Goal
      BY <1>1, <1>5 DEF Leave
<1>6. ASSUME NEW t \in Threads, Return(t) PROVE Goal
      BY <1>1, <1>6 DEF Return, DropFrames
<1>7. ASSUME NEW p \in Processes, KillProcess(p) PROVE Goal
      BY <1>1, <1>7 DEF KillProcess, DropFrames
<1>8. ASSUME NEW p \in Processes, ForkProcess(p) PROVE Goal
      BY <1>1, <1>8 DEF ForkProcess, handlerVars
<1>9. CASE Tick
      BY <1>1, <1>9 DEF Tick
<1>10. CASE UNCHANGED vars
      BY <1>1, <1>10 DEF vars, handlerVars
<1> QED BY <1>2, <1>3, <1>4, <1>5, <1>6, <1>7, <1>8, <1>9, <1>10 DEF Next, Step, BodyStep

LEMMA OutsideWorks ==
    ASSUME HandlerInv, WorkInv, [Next]_vars, \A t \in Threads : ~BodyStep(t),
           NEW u \in Threads
    PROVE  Works(u)'
<1>1. /\ since'[u] <= now' /\ now <= now'
      /\ hpc'[u] = "idle" => reply'[u] = "none"
      /\ hpc'[u] \in BodyPC =>
            /\ hpc'[u] = hpc[u] /\ reply'[u] = reply[u]
            /\ call'[u] = call[u] /\ since'[u] = since[u]
      BY OutsideCalls
<1>2. Works(u) /\ UNCHANGED <<disk, file, memory>>
      BY OutsideStep DEF WorkInv
<1>3. now \in Int /\ now' \in Int /\ since[u] \in Int
  <2>1. TypeOK'
        BY HandlerTypeStep DEF HandlerInv
  <2> QED BY <2>1 DEF HandlerInv, TypeOK
<1>4. 0 .. now \subseteq 0 .. now' /\ since[u] .. now \subseteq since[u] .. now'
      BY <1>1, <1>3
<1>5. \A s, time : NoneExpired(s, time)' = NoneExpired(s, time)
      BY DEF NoneExpired
<1>6. CASE hpc'[u] \in BodyPC
  <2>1. /\ hpc'[u] = hpc[u] /\ reply'[u] = reply[u]
        /\ call'[u] = call[u] /\ since'[u] = since[u]
        BY <1>1, <1>6
  <2>2. Own(u)' = Own(u)
        BY <1>2 DEF Own
  <2>3. ToSave(u) => ToSave(u)'
        BY <1>2, <1>4, <2>1, <2>2 DEF ToSave
  <2> QED BY <1>1, <1>2, <1>4, <1>5, <1>6, <2>1, <2>2, <2>3 DEF Works, NoneExpired, BodyPC
<1>7. CASE hpc'[u] \notin BodyPC
      BY <1>1, <1>7 DEF Works, BodyPC
<1> QED BY <1>6, <1>7

LEMMA WorkInvStep == HandlerInv /\ WorkInv /\ [Next]_vars => WorkInv'
<1> SUFFICES ASSUME HandlerInv, WorkInv, [Next]_vars PROVE WorkInv'
    OBVIOUS
<1>1. CASE \A t \in Threads : ~BodyStep(t)
  <2>1. UNCHANGED <<disk, file>>
        BY <1>1, OutsideStep
  <2> QED BY <1>1, <2>1, OutsideWorks DEF WorkInv
<1>2. ASSUME NEW t \in Threads, BodyStep(t) PROVE WorkInv'
  <2>1. disk' = "missing" => file' = EMPTY_STORAGE
        BY <1>2 DEF WorkInv, BodyStep, CreateFile, WriteNewFile, LoadTornFile, LoadFirst,
           LoadAndRemoveExpired, SavePurged, WritePurged, Save, WriteSaved, SaveFails, Truncate,
           Write, Get, Set, DeletePresent, DeleteAbsent
  <2>2. ASSUME NEW u \in Threads, u # t PROVE Works(u)'
    <3>1. /\ hpc[u] \notin BodyPC
          /\ hpc'[u] = hpc[u] /\ reply'[u] = reply[u] /\ since'[u] = since[u] /\ now' = now
          BY <1>2, <2>2, BodyIsAlone
    <3>2. Works(u)
          BY DEF WorkInv
    <3> QED BY <3>1, <3>2 DEF Works, BodyPC
  <2> QED BY <1>2, <2>1, <2>2, BodyWorks DEF WorkInv
<1> QED BY <1>1, <1>2

LEMMA WorkInvariant == ASSUME OneThreadPerProcess PROVE Spec => []WorkInv
<1>1. Init => WorkInv
      BY DEF Init, WorkInv, Works
<1> QED BY <1>1, WorkInvStep, HandlerInvariant, PTL DEF Spec

(* A file that a failed save has left torn stays torn, since nobody saves  *)
(* what he has not loaded.                                                 *)
THEOREM TornFileStaysTorn == ASSUME OneThreadPerProcess PROVE Spec => TornIsPermanent
<1>1. HandlerInv /\ WorkInv /\ [Next]_vars => [TornForGood => TornForGood']_vars
  <2> SUFFICES ASSUME HandlerInv, WorkInv, [Next]_vars, TornForGood PROVE TornForGood'
      OBVIOUS
  <2>1. disk = "torn" /\ \A t \in Threads : hpc[t] \in {"idle", "load", "leave"}
        BY DEF TornForGood, WorkInv, Works, HandlerInv, TypeOK, HandlerPC
  <2>2. CASE \A t \in Threads : ~BodyStep(t)
        BY <2>1, <2>2, OutsideStep DEF TornForGood
  <2>3. ASSUME NEW t \in Threads, BodyStep(t) PROVE TornForGood'
    <3>1. LoadTornFile(t)
          BY <2>1, <2>3 DEF BodyStep, CreateFile, WriteNewFile, LoadFirst, LoadAndRemoveExpired,
             SavePurged, WritePurged, Save, WriteSaved, SaveFails, Truncate, Write, Get, Set,
             DeletePresent, DeleteAbsent, HandlerGoto
    <3> QED BY <2>1, <3>1 DEF LoadTornFile, HandlerGoto, TornForGood, HandlerInv, TypeOK
  <2> QED BY <2>2, <2>3
<1> QED BY <1>1, HandlerInvariant, WorkInvariant, PTL DEF Spec, TornIsPermanent

(* The steps of the handler that RecordStore does not see, and those with  *)
(* which a call takes effect.                                              *)
CalledPC == {"load", "create", "savePurged", "writePurged", "apply", "save"}

LEMMA BarsOf ==
    ASSUME TypeOK, NEW t \in Threads
    PROVE  /\ hpc[t] = "idle" => phaseBar[t] = "idle" /\ replyBar[t] = reply[t]
           /\ hpc[t] \in CalledPC => phaseBar[t] = "called" /\ replyBar[t] = "none"
           /\ hpc[t] \in {"write", "leave"} => phaseBar[t] = "done" /\ replyBar[t] = reply[t]
<1>1. phaseBar[t] = CASE hpc[t] = "idle" -> "idle"
                      [] hpc[t] \in {"write", "leave"} -> "done"
                      [] OTHER -> "called"
      BY DEF phaseBar
<1>2. /\ hpc[t] = "idle" => phaseBar[t] = "idle"
      /\ hpc[t] \in CalledPC => phaseBar[t] = "called"
      /\ hpc[t] \in {"write", "leave"} => phaseBar[t] = "done"
      BY <1>1 DEF CalledPC
<1>3. replyBar[t] = IF phaseBar[t] = "called" THEN "none" ELSE reply[t]
      BY DEF replyBar
<1> QED BY <1>2, <1>3

LEMMA BarsAreSame ==
    ASSUME TypeOK, TypeOK',
           \A u \in Threads : \/ hpc'[u] = hpc[u] /\ reply'[u] = reply[u]
                              \/ hpc[u] \in CalledPC /\ hpc'[u] \in CalledPC
                              \/ hpc[u] = "write" /\ hpc'[u] = "leave" /\ reply'[u] = reply[u]
    PROVE  phaseBar' = phaseBar /\ replyBar' = replyBar
<1>1. \A u \in Threads : phaseBar'[u] = phaseBar[u]
      BY DEF phaseBar, CalledPC
<1>2. phaseBar' = phaseBar
      BY <1>1 DEF phaseBar
<1>3. \A u \in Threads : replyBar'[u] = replyBar[u]
  <2> SUFFICES ASSUME NEW u \in Threads PROVE replyBar'[u] = replyBar[u]
      OBVIOUS
  <2>1. /\ replyBar[u] = IF phaseBar[u] = "called" THEN "none" ELSE reply[u]
        /\ replyBar'[u] = IF phaseBar'[u] = "called" THEN "none" ELSE reply'[u]
        BY DEF replyBar
  <2>2. reply'[u] = reply[u] \/ phaseBar[u] = "called"
        BY BarsOf
  <2> QED BY <1>1, <2>1, <2>2
<1>4. replyBar' = replyBar
      BY <1>3 DEF replyBar
<1> QED BY <1>2, <1>4

LEMMA CallIsDone ==
    ASSUME TypeOK, TypeOK', NEW t \in Threads, UNCHANGED <<now, call, since>>,
           hpc[t] \in CalledPC, hpc'[t] \in {"write", "leave"},
           \A u \in Threads \ {t} : hpc'[u] = hpc[u] /\ reply'[u] = reply[u]
    PROVE  RS!Finish(t, reply'[t])
<1>1. phaseBar[t] = "called"
      BY BarsOf
<1>2. phaseBar' = [phaseBar EXCEPT ![t] = "done"]
  <2>1. \A u \in Threads : phaseBar'[u] = IF u = t THEN "done" ELSE phaseBar[u]
        BY DEF phaseBar
  <2> QED BY <2>1 DEF phaseBar
<1>3. replyBar' = [replyBar EXCEPT ![t] = reply'[t]]
  <2>1. ASSUME NEW u \in Threads
        PROVE  replyBar'[u] = IF u = t THEN reply'[t] ELSE replyBar[u]
    <3>1. /\ replyBar[u] = IF phaseBar[u] = "called" THEN "none" ELSE reply[u]
          /\ replyBar'[u] = IF phaseBar'[u] = "called" THEN "none" ELSE reply'[u]
          BY DEF replyBar
    <3>2. phaseBar'[u] = IF u = t THEN "done" ELSE phaseBar[u]
          BY <1>2 DEF phaseBar
    <3> QED BY <3>1, <3>2
  <2> QED BY <2>1 DEF replyBar
<1> QED BY <1>1, <1>2, <1>3 DEF RS!Finish

(* The operations on records are the same in both. *)
LEMMA SameRecords ==
    /\ \A r, time : RS!Expired(r, time) <=> Expired(r, time)
    /\ \A s, time : RS!RemoveExpired(s, time) = RemoveExpired(s, time)
    /\ \A s, n, v, e, time : RS!SetRecord(s, n, v, e, time) = SetRecord(s, n, v, e, time)
    /\ \A s, n : RS!DeleteRecord(s, n) = DeleteRecord(s, n)
    /\ RS!EMPTY_STORAGE = EMPTY_STORAGE /\ RS!NoCall = NoCall
BY DEF RS!Expired, Expired, RS!RemoveExpired, RemoveExpired, RS!SetRecord, SetRecord,
       RS!Create, Create, RS!Update, Update, RS!DeleteRecord, DeleteRecord,
       RS!EMPTY_STORAGE, EMPTY_STORAGE, RS!NoCall, NoCall

(* The steps in the body, if saves do not fail. *)
LEMMA BodyImplements ==
    ASSUME ~DiskFaults, HandlerInv, WorkInv, NEW t \in Threads, BodyStep(t)
    PROVE  RS!Next \/ UNCHANGED RS!vars
<1> USE DEF HandlerGoto, InBody, Answer
<1>1. TypeOK /\ TypeOK' /\ Works(t)
      BY BodyType DEF HandlerInv, WorkInv
<1>2. /\ hpc \in [Threads -> HandlerPC] /\ reply \in [Threads -> Reply]
      /\ ProcessOf[t] \in Processes /\ memory \in [Processes -> Contents]
      BY <1>1, ProcessOfAssumption DEF TypeOK
<1>3. /\ UNCHANGED <<now, call, since>>
      /\ \A u \in Threads \ {t} : hpc'[u] = hpc[u] /\ reply'[u] = reply[u]
      BY <1>2 DEF BodyStep, CreateFile, WriteNewFile, LoadTornFile, LoadFirst, LoadAndRemoveExpired,
         SavePurged, WritePurged, Save, WriteSaved, SaveFails, Truncate, Write, Get, Set,
         DeletePresent, DeleteAbsent
<1>4. ASSUME file' = file, \/ hpc[t] \in CalledPC /\ hpc'[t] \in CalledPC
                           \/ hpc[t] = "write" /\ hpc'[t] = "leave" /\ reply'[t] = reply[t]
      PROVE  UNCHANGED RS!vars
      BY <1>1, <1>3, <1>4, BarsAreSame DEF RS!vars
<1>5. ASSUME hpc[t] \in CalledPC, hpc'[t] \in {"write", "leave"}
      PROVE  RS!Finish(t, reply'[t])
      BY <1>1, <1>3, <1>5, CallIsDone
<1>6. CASE CreateFile(t) \/ WriteNewFile(t) \/ LoadAndRemoveExpired(t) \/ WritePurged(t)
           \/ WriteSaved(t) \/ Set(t) \/ DeletePresent(t)
  <2>1. file' = file
        BY <1>1, <1>6 DEF CreateFile, WriteNewFile, LoadAndRemoveExpired, WritePurged, WriteSaved,
           Write, Set, DeletePresent, WorkInv, Works, Own
  <2>2. \/ hpc[t] \in CalledPC /\ hpc'[t] \in CalledPC
        \/ hpc[t] = "write" /\ hpc'[t] = "leave" /\ reply'[t] = reply[t]
        BY <1>2, <1>6 DEF CalledPC, CreateFile, WriteNewFile, LoadAndRemoveExpired, WritePurged,
           WriteSaved, Write, Set, DeletePresent
  <2> QED BY <1>4, <2>1, <2>2
<1>7. CASE SavePurged(t)
  <2>1. /\ hpc[t] = "savePurged" /\ hpc'[t] = "writePurged" /\ reply' = reply
        /\ file' = Own(t)
        BY <1>2, <1>7 DEF SavePurged, Truncate, Own
  <2>2. PICK time \in 0 .. now : file' = RemoveExpired(file, time)
        BY <1>1, <2>1 DEF Works
  <2>3. phaseBar' = phaseBar /\ replyBar' = replyBar
        BY <1>1, <1>3, <2>1, BarsAreSame DEF CalledPC
  <2>4. RS!Purge
        BY <1>3, <2>2, <2>3, SameRecords DEF RS!Purge
  <2> QED BY <2>4 DEF RS!Next
<1>8. CASE LoadTornFile(t)
  <2>1. hpc[t] = "load" /\ hpc'[t] = "leave" /\ reply'[t] = "error" /\ file' = file
        BY <1>2, <1>8 DEF LoadTornFile
  <2>2. RS!Fail(t)
        BY <1>5, <2>1 DEF RS!Fail, CalledPC
  <2> QED BY <2>2 DEF RS!Next
<1>9. CASE LoadFirst(t)
  <2>1. /\ hpc[t] = "load" /\ hpc'[t] = "leave" /\ reply'[t] = "ok" /\ file' = file
        /\ call[t].op = "init"
        BY <1>2, <1>9 DEF LoadFirst
  <2>2. RS!Construct(t)
        BY <1>5, <2>1 DEF RS!Construct, CalledPC
  <2> QED BY <2>2 DEF RS!Next
<1>10. CASE Save(t)
  <2>1. /\ hpc[t] = "save" /\ hpc'[t] = "write" /\ reply' = reply /\ file' = Own(t)
        BY <1>2, <1>10 DEF Save, Truncate, Own
  <2>2. ToSave(t)
        BY <1>1, <2>1 DEF Works
  <2>3. RS!Finish(t, "ok")
        BY <1>5, <2>1, <2>2 DEF CalledPC, ToSave
  <2>4. RS!Set(t) \/ RS!Delete(t)
        BY <2>1, <2>2, <2>3, SameRecords DEF RS!Set, RS!Delete, ToSave
  <2> QED BY <2>4 DEF RS!Next
<1>11. CASE Get(t)
  <2>1. PICK r : r = file[call[t].name]
        OBVIOUS
  <2>2. /\ hpc[t] = "apply" /\ hpc'[t] = "leave" /\ file' = file /\ call[t].op = "get"
        /\ Own(t) = file
        BY <1>1, <1>2, <1>11 DEF Get, Works
  <2>3. reply'[t] = IF r = Absent THEN Absent ELSE r.value
        BY <1>2, <1>11, <2>1, <2>2 DEF Get, Own
  <2>4. RS!Finish(t, IF r = Absent THEN Absent ELSE r.value)
        BY <1>5, <2>2, <2>3 DEF CalledPC
  <2>5. call[t].name \in Names
    <3>1. call[t] \in Call \cup {NoCall}
          BY <1>1, CallsAssumption DEF TypeOK
    <3> QED BY <2>2, <3>1 DEF Call, NoCall
  <2>6. r # Absent => ~RS!Expired(r, since[t])
        BY <1>1, <2>1, <2>2, <2>5, SameRecords DEF Works, NoneExpired
  <2>7. RS!GetHit(t) \/ RS!GetMiss(t)
        BY <2>1, <2>2, <2>4, <2>6 DEF RS!GetHit, RS!GetMiss
  <2> QED BY <2>7 DEF RS!Next
<1>12. CASE DeleteAbsent(t)
  <2>1. /\ hpc[t] = "apply" /\ hpc'[t] = "leave" /\ reply'[t] = "ok" /\ file' = file
        /\ call[t].op = "delete" /\ Own(t) = file /\ Own(t)[call[t].name] = Absent
        BY <1>1, <1>2, <1>12 DEF DeleteAbsent, Works, Own
  <2>2. file' = DeleteRecord(file, call[t].name)
    <3>1. file \in Contents
          BY <1>1 DEF TypeOK
    <3> QED BY <2>1, <3>1 DEF DeleteRecord, Contents
  <2>3. RS!Finish(t, "ok")
        BY <1>5, <2>1 DEF CalledPC
  <2>4. RS!Delete(t)
        BY <2>1, <2>2, <2>3, SameRecords DEF RS!Delete
  <2> QED BY <2>4 DEF RS!Next
<1>13. ~SaveFails(t)
       BY DEF SaveFails
<1> QED BY <1>6, <1>7, <1>8, <1>9, <1>10, <1>11, <1>12, <1>13 DEF BodyStep

(* Dropping the frames of calls is the same in both. *)
LEMMA DropImplements ==
    ASSUME TypeOK, TypeOK', NEW S, DropFrames(S) PROVE RS!Drop(S)
<1>1. ASSUME NEW u \in Threads
      PROVE  /\ phaseBar'[u] = IF u \in S THEN "idle" ELSE phaseBar[u]
             /\ replyBar'[u] = IF u \in S THEN "none" ELSE replyBar[u]
  <2>1. CASE u \in S
    <3>1. hpc'[u] = "idle" /\ reply'[u] = "none"
          BY <2>1 DEF DropFrames
    <3>2. phaseBar'[u] = "idle"
          BY <3>1 DEF phaseBar
    <3> QED BY <2>1, <3>1, <3>2 DEF replyBar
  <2>2. CASE u \notin S
    <3>1. hpc'[u] = hpc[u] /\ reply'[u] = reply[u]
          BY <2>2 DEF DropFrames
    <3>2. phaseBar'[u] = phaseBar[u]
          BY <3>1 DEF phaseBar
    <3> QED BY <2>2, <3>1, <3>2 DEF replyBar
  <2> QED BY <2>1, <2>2
<1>2. phaseBar' = [u \in Threads |-> IF u \in S THEN "idle" ELSE phaseBar[u]]
      BY <1>1 DEF phaseBar
<1>3. replyBar' = [u \in Threads |-> IF u \in S THEN "none" ELSE replyBar[u]]
      BY <1>1 DEF replyBar
<1> QED BY <1>2, <1>3, SameRecords DEF DropFrames, RS!Drop

LEMMA StepImplements ==
    ASSUME ~DiskFaults, HandlerInv, WorkInv, [Next]_vars PROVE RS!Next \/ UNCHANGED RS!vars
<1>1. TypeOK /\ TypeOK'
      BY HandlerTypeStep DEF HandlerInv
<1>2. ASSUME UNCHANGED <<file, now, call, since, hpc, reply>> PROVE UNCHANGED RS!vars
      BY <1>1, <1>2, BarsAreSame DEF RS!vars
<1>3. ASSUME NEW t \in Threads, Invoke(t) PROVE RS!Next
  <2>1. /\ hpc[t] = "idle" /\ hpc' = [hpc EXCEPT ![t] = "load"] /\ reply' = reply
        /\ reply[t] = "none" /\ hpc \in [Threads -> HandlerPC] /\ hpc'[t] = "load"
        BY <1>1, <1>3 DEF Invoke, HandlerGoto, WorkInv, Works, TypeOK
  <2>2. /\ phaseBar[t] = "idle" /\ replyBar[t] = "none"
        /\ phaseBar'[t] = "called" /\ replyBar'[t] = "none"
    <3>1. phaseBar[t] = "idle" /\ replyBar[t] = "none"
          BY <1>1, <2>1, BarsOf
    <3>2. phaseBar'[t] = "called"
          BY <2>1 DEF phaseBar
    <3>3. replyBar'[t] = "none"
          BY <3>2 DEF replyBar
    <3> QED BY <3>1, <3>2, <3>3
  <2>3. \A u \in Threads \ {t} : phaseBar'[u] = phaseBar[u]
        BY <2>1 DEF phaseBar
  <2>4. \A u \in Threads \ {t} : replyBar'[u] = replyBar[u]
        BY <2>1, <2>3 DEF replyBar
  <2>5. phaseBar' = [phaseBar EXCEPT ![t] = "called"]
        BY <2>2, <2>3 DEF phaseBar
  <2>6. replyBar' = replyBar
        BY <2>2, <2>4 DEF replyBar
  <2>7. RS!Invoke(t)
        BY <1>3, <2>2, <2>5, <2>6 DEF Invoke, RS!Invoke
  <2> QED BY <2>7 DEF RS!Next
<1>4. ASSUME NEW t \in Threads, Acquire(t) PROVE UNCHANGED RS!vars
      BY <1>2, <1>4 DEF Acquire, handlerVars
<1>5. ASSUME NEW t \in Threads, GiveUp(t) PROVE RS!Next
  <2>1. /\ hpc[t] = "load" /\ hpc'[t] = "leave" /\ reply'[t] = "error"
        /\ UNCHANGED <<file, now, call, since>>
        /\ \A u \in Threads \ {t} : hpc'[u] = hpc[u] /\ reply'[u] = reply[u]
        BY <1>1, <1>5 DEF GiveUp, HandlerGoto, Answer, TypeOK
  <2>2. RS!Finish(t, "error")
        BY <1>1, <2>1, CallIsDone DEF CalledPC
  <2>3. RS!Fail(t)
        BY <2>1, <2>2 DEF RS!Fail
  <2> QED BY <2>3 DEF RS!Next
<1>6. ASSUME NEW t \in Threads, BodyStep(t) PROVE RS!Next \/ UNCHANGED RS!vars
      BY <1>6, BodyImplements
<1>7. ASSUME NEW t \in Threads, Leave(t) PROVE UNCHANGED RS!vars
  <2>1. lpc'[t] # "raised"
        BY <1>7 DEF Leave, Exit, Close, Unlink, Goto, HandlerInv, LockInv, LockTypeOK, FdAgrees,
           HoldersHaveFile, Holds
  <2>2. reply' = reply
        BY <1>1, <1>7, <2>1 DEF Leave, Answer, TypeOK
  <2> QED BY <1>2, <1>7, <2>2 DEF Leave
<1>8. ASSUME NEW t \in Threads, Return(t) PROVE RS!Next
  <2>1. phaseBar[t] = "done"
        BY <1>1, <1>8, BarsOf DEF Return
  <2>2. RS!Return(t)
        BY <1>1, <1>8, <2>1, DropImplements DEF Return, RS!Return
  <2> QED BY <2>2 DEF RS!Next
<1>9. ASSUME NEW p \in Processes, KillProcess(p) PROVE RS!Next
  <2>1. RS!Abandon(p)
        BY <1>1, <1>9, DropImplements DEF KillProcess, RS!Abandon
  <2> QED BY <2>1 DEF RS!Next
<1>10. ASSUME NEW p \in Processes, ForkProcess(p) PROVE UNCHANGED RS!vars
       BY <1>2, <1>10 DEF ForkProcess, handlerVars
<1>11. CASE Tick
  <2>1. phaseBar' = phaseBar /\ replyBar' = replyBar
        BY <1>1, <1>11, BarsAreSame DEF Tick
  <2>2. RS!Tick
        BY <1>11, <2>1 DEF Tick, RS!Tick
  <2> QED BY <2>2 DEF RS!Next
<1>12. CASE UNCHANGED vars
       BY <1>2, <1>12 DEF vars, handlerVars
<1> QED BY <1>3, <1>4, <1>5, <1>6, <1>7, <1>8, <1>9, <1>10, <1>11, <1>12
        DEF Next, Step, BodyStep

(* While saves do not fail, get, set and delete act on the records as if   *)
(* each call did all of its work at one instant: whatever the calls of     *)
(* other workers do, and wherever workers are killed.                      *)
THEOREM HandlerImplementsRecords ==
    ASSUME OneThreadPerProcess, ~DiskFaults PROVE Spec => ImplementsRecordStore
<1>1. Init => RS!Init
  <2> SUFFICES ASSUME Init PROVE RS!Init
      OBVIOUS
  <2>1. phaseBar = [t \in Threads |-> "idle"]
        BY DEF Init, phaseBar
  <2>2. replyBar = [t \in Threads |-> "none"]
        BY DEF Init, replyBar
  <2> QED BY <2>1, <2>2, SameRecords DEF Init, RS!Init
<1>2. HandlerInv /\ WorkInv /\ [Next]_vars => [RS!Next]_(RS!vars)
      BY StepImplements
<1> QED BY <1>1, <1>2, HandlerInvariant, WorkInvariant, PTL
        DEF Spec, ImplementsRecordStore, RS!Spec
=============================================================================
