----------------------------- MODULE MapStorage -----------------------------
(***************************************************************************)
(* The token storage as the authentication code uses it: the mappings of   *)
(* class FileStorage (altrepo_api/api/auth/token/file_storage.py) over the *)
(* atomic get/set/delete that RecordStore promises, or of RedisStorage     *)
(* (altrepo_api/api/auth/token/redis.py) over the atomic commands of       *)
(* Redis.  FileStorage changes a mapping by a get and a set, RedisStorage  *)
(* sets a mapping and its expiration time by two commands; what happens    *)
(* between the two is up to the other workers.                             *)
(***************************************************************************)
EXTENDS Integers

CONSTANTS
    Workers,    \* the worker processes
    Names,      \* names of mappings
    Backends,   \* the values of TOKEN_STORAGE: "file", "redis"
    MaxTime,    \* bound on the clock
    Absent      \* Python's None

ASSUME BackendsAssumption == Backends \subseteq {"file", "redis"}

VARIABLES
    backend,   \* TOKEN_STORAGE, chosen when the program starts
    store,     \* store[n]: Absent or [map, updated, expires]
    now,       \* the clock, in whole seconds
    mpc,       \* mpc[w]: where w is in a storage method, "ready" outside
    arg,       \* arg[w]: the arguments of that method
    snap,      \* snap[w]: the mapping it has read
    raced      \* a method's second step found what its first relied on changed

mapVars == <<backend, store, now, mpc, arg, snap, raced>>

Nothing == [k \in {} |-> Absent]
NoArg == [name |-> Absent]

MapInit ==
    /\ backend \in Backends
    /\ store = [n \in Names |-> Absent]
    /\ now = 0
    /\ mpc = [w \in Workers |-> "ready"]
    /\ arg = [w \in Workers |-> NoArg]
    /\ snap = [w \in Workers |-> Nothing]
    /\ raced = FALSE

(* `now` is the whole part of the clock.  The file storage stores whole    *)
(* seconds and finds a record expired from second updated + expires on;    *)
(* Redis keeps the fraction and drops it at some time in that second.      *)
Expired(r) ==
    /\ r.expires > 0
    /\ IF backend = "file" THEN now >= r.updated + r.expires
                           ELSE now > r.updated + r.expires

Live(n) == store[n] # Absent /\ ~Expired(store[n])

(* map_getall: an empty mapping for a name that is not there. *)
MapOf(n) == IF Live(n) THEN store[n].map ELSE Nothing

Put(n, m, updated, expires) ==
    store' = [store EXCEPT ![n] = [map |-> m, updated |-> updated, expires |-> expires]]

(* StorageHandler.set: no expiration time keeps the one there is. *)
SetRecord(n, m, e) ==
    Put(n, m, now, IF e # Absent THEN e ELSE IF Live(n) THEN store[n].expires ELSE 0)

(* Mappings: one key with its value, dict.update, and del. *)
Field(k, v) == [x \in {k} |-> v]
Updated(m, new) ==
    [x \in DOMAIN m \cup DOMAIN new |-> IF x \in DOMAIN new THEN new[x] ELSE m[x]]
Without(m, k) == [x \in DOMAIN m \ {k} |-> m[x]]

(***************************************************************************)
(* delete, map_getall (MapOf) and map_get take one storage operation.  The *)
(* other methods begin with their first operation and may have a second.   *)
(***************************************************************************)
Delete(n) ==
    /\ store' = [store EXCEPT ![n] = Absent]
    /\ UNCHANGED <<backend, now, mpc, arg, snap, raced>>

(* The first operation: the second one is to come. *)
Begin(w, pc, a, m) ==
    /\ mpc[w] = "ready"
    /\ mpc' = [mpc EXCEPT ![w] = pc]
    /\ arg' = [arg EXCEPT ![w] = a]
    /\ snap' = [snap EXCEPT ![w] = m]
    /\ UNCHANGED <<backend, now, raced>>

(* The first operation is the only one. *)
Complete(w) ==
    /\ mpc[w] = "ready"
    /\ UNCHANGED <<backend, now, mpc, arg, snap, raced>>

(* The method returns: its frame is gone. *)
End(w) ==
    /\ mpc' = [mpc EXCEPT ![w] = "ready"]
    /\ arg' = [arg EXCEPT ![w] = NoArg]
    /\ snap' = [snap EXCEPT ![w] = Nothing]

(* The file storage writes back the mapping it has read, changed.          *)
WriteBack(w, m, e) ==
    /\ SetRecord(arg[w].name, m, e)
    /\ raced' = (raced \/ snap[w] # MapOf(arg[w].name))
    /\ End(w)
    /\ UNCHANGED <<backend, now>>

(***************************************************************************)
(* map_set *)
(***************************************************************************)
MapSetRead(w, n, m, e) ==
    /\ backend = "file"
    /\ Begin(w, "setWrite", [name |-> n, mapping |-> m, expire |-> e], MapOf(n))
    /\ UNCHANGED store

(* Mistake: the mapping replaces the one that is there. *)
MapSetReplace(w) ==
    /\ mpc[w] = "setWrite"
    /\ WriteBack(w, arg[w].mapping, arg[w].expire)

MapSetWrite(w) ==
    /\ mpc[w] = "setWrite"
    /\ WriteBack(w, Updated(snap[w], arg[w].mapping), arg[w].expire)

HSet(w, n, m, e) ==
    LET all == Updated(MapOf(n), m) IN
    /\ backend = "redis"
    /\ IF Live(n) THEN Put(n, all, store[n].updated, store[n].expires)
                  ELSE Put(n, all, now, 0)
    /\ IF e = Absent
       THEN Complete(w)
       ELSE Begin(w, "expire", [name |-> n, mapping |-> m, expire |-> e], Nothing)

(* Mistake: an expiration date is given for an expiration time. *)
HExpireAt(w) ==
    LET n == arg[w].name IN
    /\ mpc[w] = "expire"
    /\ IF Live(n) THEN Put(n, store[n].map, now, now + arg[w].expire) ELSE UNCHANGED store
    /\ raced' = (raced \/ ~(DOMAIN arg[w].mapping \subseteq DOMAIN MapOf(n)))
    /\ End(w)
    /\ UNCHANGED <<backend, now>>

HExpire(w) ==
    LET n == arg[w].name IN
    /\ mpc[w] = "expire"
    /\ IF Live(n) THEN Put(n, store[n].map, now, arg[w].expire) ELSE UNCHANGED store
    /\ raced' = (raced \/ ~(DOMAIN arg[w].mapping \subseteq DOMAIN MapOf(n)))
    /\ End(w)
    /\ UNCHANGED <<backend, now>>

MapSet(w, n, m, e) == MapSetRead(w, n, m, e) \/ HSet(w, n, m, e)

(***************************************************************************)
(* map_delete: the file storage writes the rest of the mapping it has read *)
(* and gives no expiration time.  Redis drops a hash without fields.       *)
(***************************************************************************)
MapDeleteAbsent(w, n, k) ==
    /\ backend = "file"
    /\ k \notin DOMAIN MapOf(n)
    /\ Complete(w)
    /\ UNCHANGED store

MapDeleteRead(w, n, k) ==
    /\ backend = "file"
    /\ k \in DOMAIN MapOf(n)
    /\ Begin(w, "deleteWrite", [name |-> n, key |-> k], MapOf(n))
    /\ UNCHANGED store

(* Mistake: the mapping is written as it was read. *)
MapDeleteNothing(w) ==
    /\ mpc[w] = "deleteWrite"
    /\ WriteBack(w, snap[w], Absent)

(* Mistake: the expiration time is cleared. *)
MapDeleteForever(w) ==
    /\ mpc[w] = "deleteWrite"
    /\ WriteBack(w, Without(snap[w], arg[w].key), 0)

MapDeleteWrite(w) ==
    /\ mpc[w] = "deleteWrite"
    /\ WriteBack(w, Without(snap[w], arg[w].key), Absent)

HDel(w, n, k) ==
    LET rest == Without(MapOf(n), k) IN
    /\ backend = "redis"
    /\ IF rest # Nothing THEN Put(n, rest, store[n].updated, store[n].expires)
                         ELSE store' = [store EXCEPT ![n] = Absent]
    /\ Complete(w)

MapDelete(w, n, k) == MapDeleteAbsent(w, n, k) \/ MapDeleteRead(w, n, k) \/ HDel(w, n, k)

(* The second operation of a method. *)
MapStep(w) == MapSetWrite(w) \/ HExpire(w) \/ MapDeleteWrite(w)

RedisExpire(n) ==
    /\ backend = "redis"
    /\ Live(n)
    /\ store[n].expires > 0 /\ now = store[n].updated + store[n].expires
    /\ store' = [store EXCEPT ![n] = Absent]
    /\ UNCHANGED <<backend, now, mpc, arg, snap, raced>>

MapTick ==
    /\ now < MaxTime
    /\ now' = now + 1
    /\ UNCHANGED <<backend, store, mpc, arg, snap, raced>>
=============================================================================
