----------------------------- MODULE RecordStore -----------------------------
(***************************************************************************)
(* What the StorageHandler promises its callers: get, set and delete act   *)
(* on one store of records shared by all workers, each at one instant      *)
(* between its call and its return, or fail without an effect.  A record   *)
(* that has expired before a get was called is not returned.               *)
(***************************************************************************)
EXTENDS StorageRecords

CONSTANTS
    Threads,      \* callers
    Processes,    \* processes the callers run in
    ProcessOf,    \* ProcessOf[t]: the process of t
    MaxTime       \* bound on the clock

VARIABLES
    store,    \* the records
    now,      \* the clock, in seconds
    phase,    \* phase[t]: "idle", "called", or "done" and about to return
    call,     \* call[t]: the last call of t
    since,    \* since[t]: when that call was made
    reply     \* reply[t]: its result

vars == <<store, now, phase, call, since, reply>>

Phase == {"idle", "called", "done"}

Init ==
    /\ store \in LeftBehind \cup {EMPTY_STORAGE}
    /\ now = 0
    /\ phase = [t \in Threads |-> "idle"]
    /\ call = [t \in Threads |-> NoCall]
    /\ since = [t \in Threads |-> 0]
    /\ reply = [t \in Threads |-> "none"]

Invoke(t) ==
    /\ phase[t] = "idle"
    /\ phase' = [phase EXCEPT ![t] = "called"]
    /\ \E c \in Calls : call' = [call EXCEPT ![t] = c]
    /\ since' = [since EXCEPT ![t] = now]
    /\ UNCHANGED <<store, now, reply>>

Finish(t, r) ==
    /\ phase[t] = "called"
    /\ phase' = [phase EXCEPT ![t] = "done"]
    /\ reply' = [reply EXCEPT ![t] = r]
    /\ UNCHANGED <<now, call, since>>

GetHit(t) ==
    /\ call[t].op = "get"
    /\ store[call[t].name] # Absent
    /\ ~Expired(store[call[t].name], since[t])
    /\ Finish(t, store[call[t].name].value)
    /\ UNCHANGED store

GetMiss(t) ==
    /\ call[t].op = "get"
    /\ store[call[t].name] = Absent
    /\ Finish(t, Absent)
    /\ UNCHANGED store

(* The time of the record lies between the call and the effect. *)
Set(t) ==
    /\ call[t].op = "set"
    /\ \E time \in since[t] .. now :
          store' = SetRecord(store, call[t].name, call[t].value, call[t].expires, time)
    /\ Finish(t, "ok")

Delete(t) ==
    /\ call[t].op = "delete"
    /\ store' = DeleteRecord(store, call[t].name)
    /\ Finish(t, "ok")

Construct(t) ==
    /\ call[t].op = "init"
    /\ Finish(t, "ok")
    /\ UNCHANGED store

Fail(t) ==
    /\ Finish(t, "error")
    /\ UNCHANGED store

(* The frames of the calls of the threads in S are gone. *)
Drop(S) ==
    /\ phase' = [t \in Threads |-> IF t \in S THEN "idle" ELSE phase[t]]
    /\ call' = [t \in Threads |-> IF t \in S THEN NoCall ELSE call[t]]
    /\ since' = [t \in Threads |-> IF t \in S THEN 0 ELSE since[t]]
    /\ reply' = [t \in Threads |-> IF t \in S THEN "none" ELSE reply[t]]
    /\ UNCHANGED <<store, now>>

Return(t) == phase[t] = "done" /\ Drop({t})

(* Records that have expired go away at any time. *)
Purge ==
    /\ \E time \in 0 .. now : store' = RemoveExpired(store, time)
    /\ UNCHANGED <<now, phase, call, since, reply>>

(* The threads of a killed process never return from their calls. *)
Abandon(p) == Drop({t \in Threads : ProcessOf[t] = p})

Tick ==
    /\ now < MaxTime
    /\ now' = now + 1
    /\ UNCHANGED <<store, phase, call, since, reply>>

Next ==
    \/ \E t \in Threads :
          \/ Invoke(t) \/ GetHit(t) \/ GetMiss(t) \/ Set(t) \/ Delete(t)
          \/ Construct(t) \/ Fail(t) \/ Return(t)
    \/ \E p \in Processes : Abandon(p)
    \/ Purge
    \/ Tick

Spec == Init /\ [][Next]_vars
=============================================================================
