--------------------------- MODULE StorageRecords ---------------------------
(***************************************************************************)
(* The records of the token storage file and what the StorageHandler       *)
(* methods of altrepo_api/api/auth/token/file_storage.py do to them in     *)
(* memory.  A record is a RecordMeta with its data.  `created` is left     *)
(* out: it is never later than `updated`, and only their maximum is used.  *)
(* Time is in whole seconds, as the code stores it (int(now.timestamp())). *)
(* The clock itself has a fraction, so that it is after second s from the  *)
(* moment its whole part is s: now > s is time >= s below.                 *)
(* `type` is left out: FileStorage stores nothing but "dict".              *)
(***************************************************************************)
EXTENDS Integers

CONSTANTS
    Names,     \* names of records
    Values,    \* the mappings a record can hold
    TTLs,      \* expiration times in seconds, 0 meaning never
    Absent     \* Python's None: no record, no value, no expiration time given

ASSUME TTLsAssumption == TTLs \subseteq Nat

Record == [value : Values, updated : Nat, expires : TTLs \cup {0}]

ASSUME AbsentAssumption ==
    /\ Absent \notin Record
    /\ Absent \notin Values
    /\ Absent \notin TTLs

Contents == [Names -> Record \cup {Absent}]

EMPTY_STORAGE == [n \in Names |-> Absent]

Expired(r, time) == r.expires > 0 /\ time >= r.updated + r.expires

(* _remove_expired, the part in memory. *)
RemoveExpired(s, time) ==
    [n \in Names |-> IF s[n] # Absent /\ Expired(s[n], time) THEN Absent ELSE s[n]]

(* _create and _update: no expiration time means "never" for a new record  *)
(* and "as it was" for one that is there.                                  *)
Create(v, e, time) ==
    [value |-> v, updated |-> time, expires |-> IF e = Absent THEN 0 ELSE e]

Update(r, v, e, time) ==
    [value |-> v, updated |-> time, expires |-> IF e = Absent THEN r.expires ELSE e]

SetRecord(s, n, v, e, time) ==
    [s EXCEPT ![n] = IF s[n] = Absent THEN Create(v, e, time)
                                      ELSE Update(s[n], v, e, time)]

(* _delete *)
DeleteRecord(s, n) == [s EXCEPT ![n] = Absent]

(* The calls of the handler's methods; "init" is its constructor. *)
Call ==
    [op : {"init"}]
      \cup [op : {"get", "delete"}, name : Names]
      \cup [op : {"set"}, name : Names, value : Values, expires : TTLs \cup {Absent}]

CONSTANTS
    Calls,         \* the calls the callers make
    LeftBehind     \* what the file may hold from an earlier run of the program

ASSUME CallsAssumption == Calls \subseteq Call
ASSUME LeftBehindAssumption == LeftBehind \subseteq Contents

NoCall == [op |-> "none"]

Reply == Values \cup {Absent, "none", "ok", "error"}
=============================================================================
