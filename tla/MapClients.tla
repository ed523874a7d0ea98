----------------------------- MODULE MapClients -----------------------------
(***************************************************************************)
(* Workers that call the methods of the token storage in any order, and    *)
(* what the Storage protocol (altrepo_api/api/auth/token/token.py)         *)
(* promises them: what was set is there until it is deleted or expires,    *)
(* what was deleted is gone until it is set again.                         *)
(***************************************************************************)
EXTENDS MapStorage, FiniteSets

CONSTANTS
    Keys,      \* keys of mappings
    Expires    \* expiration times given to map_set, Absent among them

ASSUME MaxTimeAssumption == MaxTime \in Nat

(* The callers give lifetimes from the configuration, or at least 1        *)
(* (decorators.py:186).                                                    *)
ASSUME ExpiresAssumption == Expires \ {Absent} \subseteq Nat \ {0}

Mapping == UNION {[ks -> Workers] : ks \in SUBSET Keys}

StoredRecord ==
    [map : Mapping, updated : 0 .. MaxTime, expires : (Expires \ {Absent}) \cup {0}]

ASSUME AbsentAssumption == Absent \notin StoredRecord

VARIABLES
    kept,       \* the <<name, key>> whose map_set returned, not deleted since
    removed,    \* the <<name, key>> whose deletion returned, not set since
    overlap     \* overlap[w]: those touched by calls that overlap w's call

vars == <<mapVars, kept, removed, overlap>>

Init ==
    /\ MapInit
    /\ kept = {}
    /\ removed = {}
    /\ overlap = [w \in Workers |-> {}]

Fields(n, ks) == {n} \X ks

(* The fields that worker w's call in progress sets or deletes. *)
Setting(w) ==
    IF mpc[w] \in {"setWrite", "expire"} THEN Fields(arg[w].name, DOMAIN arg[w].mapping)
                                        ELSE {}
Deleting(w) ==
    IF mpc[w] = "deleteWrite" THEN Fields(arg[w].name, {arg[w].key}) ELSE {}

Busy(w) == mpc[w] # "ready"
Others(w) == UNION {Setting(x) \cup Deleting(x) : x \in Workers \ {w}}

(* Worker w calls a method that touches the fields fs. *)
Touch(w, fs) ==
    overlap' = [x \in Workers |-> IF x = w THEN (IF Busy(w)' THEN Others(w) ELSE {})
                                  ELSE IF Busy(x) THEN overlap[x] \cup fs ELSE {}]

(* A call that returns has done what it was to do, unless another one may  *)
(* have undone it meanwhile.                                               *)
StartSet(w) ==
    \E n \in Names, ks \in SUBSET Keys \ {{}}, e \in Expires :
       LET fs == Fields(n, ks) IN
       /\ MapSet(w, n, [k \in ks |-> w], e)
       /\ Touch(w, fs)
       /\ removed' = removed \ fs
       /\ kept' = IF Busy(w)' THEN kept ELSE kept \cup (fs \ Others(w))

StartDelete(w) ==
    \E n \in Names, k \in Keys :
       LET fs == Fields(n, {k}) IN
       /\ MapDelete(w, n, k)
       /\ Touch(w, fs)
       /\ kept' = kept \ fs
       /\ removed' = IF Busy(w)' THEN removed ELSE removed \cup (fs \ Others(w))

DeleteName(w) ==
    \E n \in Names :
       LET fs == Fields(n, Keys) IN
       /\ ~Busy(w)
       /\ Delete(n)
       /\ Touch(w, fs)
       /\ kept' = kept \ fs
       /\ removed' = removed \cup (fs \ Others(w))

Return(w) ==
    /\ MapStep(w)
    /\ kept' = kept \cup (Setting(w) \ overlap[w])
    /\ removed' = removed \cup (Deleting(w) \ overlap[w])
    /\ overlap' = [overlap EXCEPT ![w] = {}]

Expire ==
    /\ MapTick \/ \E n \in Names : RedisExpire(n)
    /\ kept' = {f \in kept : Live(f[1])'}
    /\ UNCHANGED <<removed, overlap>>

Next ==
    \/ \E w \in Workers : StartSet(w) \/ StartDelete(w) \/ DeleteName(w) \/ Return(w)
    \/ Expire

Spec == Init /\ [][Next]_vars

(***************************************************************************)
(* Properties.                                                             *)
(***************************************************************************)
TypeOK ==
    /\ now \in 0 .. MaxTime
    /\ mpc \in [Workers -> {"ready", "setWrite", "expire", "deleteWrite"}]
    /\ store \in [Names -> StoredRecord \cup {Absent}]
    /\ \A n \in Names : store[n] # Absent => store[n].updated <= now
    /\ kept \cup removed \subseteq Names \X Keys

(* map_set: "Saves mapping to storage and set expiration time."  A mapping *)
(* that was saved is found again until it is deleted or expires.           *)
SavedIsFound == \A f \in kept : f[2] \in DOMAIN MapOf(f[1])

(* map_delete: "Deletes value from mapping in storage by name and key." A  *)
(* deleted value does not come back unless it is set again.                *)
DeletedIsGone == \A f \in removed : f[2] \notin DOMAIN MapOf(f[1])

(* Both promises are kept as long as no method's second storage operation  *)
(* finds the mapping changed since its first, by another worker or by its  *)
(* expiration.                                                             *)
SavedIsFoundUnlessRaced == raced \/ SavedIsFound
DeletedIsGoneUnlessRaced == raced \/ DeletedIsGone

(* A mapping without an expiration time is one that was set without, or,   *)
(* with the file storage, one that was written back when it had expired.   *)
ExpiresUnlessRaced ==
    Absent \notin Expires /\ backend = "file" /\ ~raced =>
        \A n \in Names : store[n] # Absent => store[n].expires > 0
=============================================================================
