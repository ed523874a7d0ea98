-------------------------- MODULE MapClientsProofs --------------------------
(***************************************************************************)
(* What the token storage promises to any number of workers that call it   *)
(* in any order, with both backends: types, and that what was set is there *)
(* and what was deleted is gone, as long as no call's second storage       *)
(* operation has found the mapping changed since its first.                *)
(***************************************************************************)
EXTENDS MapClients, TLAPS

Times == (Expires \ {Absent}) \cup {0}
AllFields == Names \X Keys

Typed ==
    /\ TypeOK
    /\ backend \in {"file", "redis"} /\ raced \in BOOLEAN
    /\ arg = [w \in Workers |-> arg[w]] /\ snap = [w \in Workers |-> snap[w]]
    /\ overlap \in [Workers -> SUBSET AllFields]

(* The frame of a method whose second operation is to come. *)
CallFits(w) ==
    /\ mpc[w] \in {"setWrite", "expire"} =>
          /\ arg[w].name \in Names
          /\ arg[w].mapping \in Mapping
          /\ arg[w].expire \in Expires
    /\ mpc[w] = "setWrite" => backend = "file" /\ snap[w] \in Mapping
    /\ mpc[w] = "expire" => backend = "redis" /\ arg[w].expire # Absent
    /\ mpc[w] = "deleteWrite" =>
          /\ backend = "file"
          /\ arg[w].name \in Names
          /\ snap[w] \in Mapping
          /\ arg[w].key \in DOMAIN snap[w]

(* Two calls in progress that touch the same field know of each other.     *)
Touched(w) == Setting(w) \cup Deleting(w)
OverlapsKnown ==
    \A w \in Workers : \A x \in Workers \ {w} : Touched(w) \cap Touched(x) \subseteq overlap[w]

(* No promise contradicts what a call in progress is to do.                *)
PromisesFree ==
    \A w \in Workers : Deleting(w) \cap kept = {} /\ Setting(w) \cap removed = {}

Promises == SavedIsFoundUnlessRaced /\ DeletedIsGoneUnlessRaced /\ ExpiresUnlessRaced

ClientsInv ==
    /\ Typed
    /\ \A w \in Workers : CallFits(w)
    /\ OverlapsKnown
    /\ PromisesFree
    /\ Promises

-----------------------------------------------------------------------------
(* Mappings and the records that hold them. *)
LEMMA MappingFacts ==
    /\ Nothing \in Mapping
    /\ \A m \in Mapping : DOMAIN m \subseteq Keys
    /\ \A m \in Mapping : DOMAIN m = {} => m = Nothing
    /\ \A m, new \in Mapping : Updated(m, new) \in Mapping
    /\ \A m \in Mapping : \A k : Without(m, k) \in Mapping
    /\ \A w \in Workers : \A ks \in SUBSET Keys : [k \in ks |-> w] \in Mapping
<1>1. \A ks \in SUBSET Keys : \A m \in [ks -> Workers] : m \in Mapping
      BY DEF Mapping
<1>2. \A m \in Mapping : DOMAIN m \in SUBSET Keys /\ m \in [DOMAIN m -> Workers]
      BY DEF Mapping
<1>3. Nothing \in [{} -> Workers]
      BY DEF Nothing
<1>4. \A m \in Mapping : DOMAIN m = {} => m = Nothing
      BY <1>2 DEF Nothing
<1>5. ASSUME NEW m \in Mapping, NEW new \in Mapping
      PROVE  Updated(m, new) \in [DOMAIN m \cup DOMAIN new -> Workers]
      BY <1>2 DEF Updated
<1>6. ASSUME NEW m \in Mapping, NEW k
      PROVE  Without(m, k) \in [DOMAIN m \ {k} -> Workers]
      BY <1>2 DEF Without
<1>7. ASSUME NEW m \in Mapping, NEW new \in Mapping
      PROVE  Updated(m, new) \in Mapping
  <2>1. DOMAIN m \cup DOMAIN new \in SUBSET Keys
        BY <1>2
  <2> QED BY <1>1, <1>5, <2>1
<1>8. ASSUME NEW m \in Mapping, NEW k
      PROVE  Without(m, k) \in Mapping
  <2>1. DOMAIN m \ {k} \in SUBSET Keys
        BY <1>2
  <2> QED BY <1>1, <1>6, <2>1
<1>9. ASSUME NEW w \in Workers, NEW ks \in SUBSET Keys
      PROVE  [k \in ks |-> w] \in Mapping
      BY <1>1
<1> QED BY <1>1, <1>2, <1>3, <1>4, <1>7, <1>8, <1>9

LEMMA TimesAreNumbers == Times \subseteq Nat /\ 0 \in Times /\ Expires \subseteq Times \cup {Absent}
BY ExpiresAssumption DEF Times

LEMMA RecordsAreThere ==
    ASSUME NEW m \in Mapping, NEW u \in 0 .. MaxTime, NEW e \in Times
    PROVE  /\ [map |-> m, updated |-> u, expires |-> e] \in StoredRecord
           /\ [map |-> m, updated |-> u, expires |-> e] # Absent
BY AbsentAssumption DEF StoredRecord, Times

LEMMA StoredFits ==
    ASSUME Typed, NEW n \in Names
    PROVE  /\ MapOf(n) \in Mapping
           /\ store[n] # Absent =>
                 /\ store[n].map \in Mapping
                 /\ store[n].updated \in Nat /\ store[n].updated <= now
                 /\ store[n].expires \in Times
           /\ ~Live(n) => MapOf(n) = Nothing
           /\ Live(n) => store[n] # Absent /\ MapOf(n) = store[n].map
<1>1. store[n] \in StoredRecord \cup {Absent}
      BY DEF Typed, TypeOK
<1>2. store[n] # Absent => /\ store[n].map \in Mapping
                           /\ store[n].updated \in 0 .. MaxTime
                           /\ store[n].expires \in Times
      BY <1>1 DEF StoredRecord, Times
<1>3. store[n] # Absent => store[n].updated \in Nat /\ store[n].updated <= now
      BY <1>2, MaxTimeAssumption DEF Typed, TypeOK
<1> QED BY <1>2, <1>3, MappingFacts DEF MapOf, Live

(* What a step that leaves the storage alone leaves alone. *)
LEMMA SameStore ==
    ASSUME store' = store, now' = now, backend' = backend, NEW n
    PROVE  MapOf(n)' = MapOf(n) /\ Live(n)' = Live(n)
BY DEF MapOf, Live, Expired

LEMMA PutEffect ==
    ASSUME Typed, NEW n \in Names, NEW m \in Mapping, NEW u \in 0 .. now, NEW e \in Times,
           Put(n, m, u, e), backend' = backend, now' = now
    PROVE  /\ store' \in [Names -> StoredRecord \cup {Absent}]
           /\ \A x \in Names : store'[x] # Absent => store'[x].updated <= now
           /\ store'[n] = [map |-> m, updated |-> u, expires |-> e] /\ store'[n] # Absent
           /\ \A x \in Names \ {n} : store'[x] = store[x] /\ MapOf(x)' = MapOf(x)
           /\ \A x \in Names \ {n} : Live(x)' = Live(x)
           /\ DOMAIN MapOf(n)' \subseteq DOMAIN m
           /\ u = now \/ e = 0 => Live(n)' /\ MapOf(n)' = m
           /\ u = store[n].updated /\ e = store[n].expires /\ Live(n) => Live(n)' /\ MapOf(n)' = m
<1> DEFINE rec == [map |-> m, updated |-> u, expires |-> e]
<1>1. u \in 0 .. MaxTime /\ u \in Nat /\ now \in Nat /\ u <= now /\ e \in Nat
      BY MaxTimeAssumption, TimesAreNumbers DEF Typed, TypeOK
<1>2. rec \in StoredRecord /\ rec # Absent
      BY <1>1, RecordsAreThere
<1>3. store \in [Names -> StoredRecord \cup {Absent}]
      BY DEF Typed, TypeOK
<1>4. store' = [store EXCEPT ![n] = rec]
      BY DEF Put
<1>5. store' \in [Names -> StoredRecord \cup {Absent}] /\ store'[n] = rec
      BY <1>2, <1>3, <1>4
<1>6. \A x \in Names \ {n} : store'[x] = store[x]
      BY <1>3, <1>4
<1>7. \A x \in Names \ {n} : MapOf(x)' = MapOf(x) /\ Live(x)' = Live(x)
      BY <1>6 DEF MapOf, Live, Expired
<1>8. \A x \in Names : store'[x] # Absent => store'[x].updated <= now
  <2>1. \A x \in Names \ {n} : store'[x] # Absent => store'[x].updated <= now
        BY <1>6 DEF Typed, TypeOK
  <2> QED BY <2>1, <1>5, <1>1
<1>9. Live(n)' <=> ~(e > 0 /\ IF backend = "file" THEN now >= u + e ELSE now > u + e)
      BY <1>2, <1>5 DEF Live, Expired
<1>10. MapOf(n)' = IF Live(n)' THEN m ELSE Nothing
      BY <1>5 DEF MapOf
<1>11. DOMAIN Nothing = {}
      BY DEF Nothing
<1>12. u = now \/ e = 0 => Live(n)'
      BY <1>1, <1>9
<1>13. u = store[n].updated /\ e = store[n].expires /\ Live(n) => Live(n)'
      BY <1>9 DEF Live, Expired
<1> HIDE DEF rec
<1>14. DOMAIN MapOf(n)' \subseteq DOMAIN m
      BY <1>10, <1>11
<1>15. store'[n] = [map |-> m, updated |-> u, expires |-> e] /\ store'[n] # Absent
      BY <1>2, <1>5 DEF rec
<1> QED BY <1>5, <1>6, <1>7, <1>8, <1>10, <1>12, <1>13, <1>14, <1>15

(* What is dropped, by a call or by Redis. *)
LEMMA DropEffect ==
    ASSUME Typed, NEW n \in Names, store' = [store EXCEPT ![n] = Absent],
           backend' = backend, now' = now
    PROVE  /\ store' \in [Names -> StoredRecord \cup {Absent}]
           /\ \A x \in Names : store'[x] # Absent => store'[x].updated <= now
           /\ store'[n] = Absent
           /\ \A x \in Names \ {n} : store'[x] = store[x] /\ MapOf(x)' = MapOf(x)
           /\ \A x \in Names \ {n} : Live(x)' = Live(x)
           /\ DOMAIN MapOf(n)' = {} /\ ~Live(n)'
<1>1. store \in [Names -> StoredRecord \cup {Absent}]
      BY DEF Typed, TypeOK
<1>2. store' \in [Names -> StoredRecord \cup {Absent}] /\ store'[n] = Absent
      BY <1>1
<1>3. \A x \in Names \ {n} : store'[x] = store[x]
      BY <1>1
<1>4. \A x \in Names \ {n} : MapOf(x)' = MapOf(x) /\ Live(x)' = Live(x)
      BY <1>3 DEF MapOf, Live, Expired
<1>5. \A x \in Names : store'[x] # Absent => store'[x].updated <= now
      BY <1>2, <1>3 DEF Typed, TypeOK
<1>6. ~Live(n)' /\ MapOf(n)' = Nothing
      BY <1>2 DEF Live, MapOf
<1> QED BY <1>2, <1>3, <1>4, <1>5, <1>6 DEF Nothing

-----------------------------------------------------------------------------
(* What the steps of one worker leave to the others.                       *)
OthersKept(w) ==
    \A x \in Workers \ {w} : mpc'[x] = mpc[x] /\ arg'[x] = arg[x] /\ snap'[x] = snap[x]

StoreTyped ==
    /\ store \in [Names -> StoredRecord \cup {Absent}]
    /\ \A n \in Names : store[n] # Absent => store[n].updated <= now

FrameTyped ==
    /\ mpc \in [Workers -> {"ready", "setWrite", "expire", "deleteWrite"}]
    /\ arg = [w \in Workers |-> arg[w]] /\ snap = [w \in Workers |-> snap[w]]

LEMMA OthersFit ==
    ASSUME NEW w \in Workers, NEW x \in Workers \ {w}, OthersKept(w), backend' = backend
    PROVE  /\ CallFits(x) => CallFits(x)'
           /\ Setting(x)' = Setting(x) /\ Deleting(x)' = Deleting(x)
           /\ Touched(x)' = Touched(x) /\ Busy(x)' = Busy(x)
<1>1. mpc'[x] = mpc[x] /\ arg'[x] = arg[x] /\ snap'[x] = snap[x]
      BY DEF OthersKept
<1>2. CallFits(x) => CallFits(x)'
      BY <1>1 DEF CallFits
<1>3. Setting(x)' = Setting(x)
      BY <1>1 DEF Setting
<1>4. Deleting(x)' = Deleting(x)
      BY <1>1 DEF Deleting
<1> QED BY <1>1, <1>2, <1>3, <1>4 DEF Touched, Busy

LEMMA TouchedAreFields ==
    ASSUME Typed, NEW w \in Workers, CallFits(w)
    PROVE  Touched(w) \subseteq AllFields /\ Setting(w) \subseteq AllFields
           /\ Deleting(w) \subseteq AllFields
<1>1. mpc[w] \in {"setWrite", "expire"} => DOMAIN arg[w].mapping \subseteq Keys /\ arg[w].name \in Names
      BY MappingFacts DEF CallFits
<1>2. mpc[w] = "deleteWrite" => arg[w].key \in Keys /\ arg[w].name \in Names
      BY MappingFacts DEF CallFits
<1>3. Setting(w) \subseteq AllFields
      BY <1>1 DEF Setting, Fields, AllFields
<1>4. Deleting(w) \subseteq AllFields
      BY <1>2 DEF Deleting, Fields, AllFields
<1> QED BY <1>3, <1>4 DEF Touched

LEMMA BeginEffect ==
    ASSUME Typed, NEW w \in Workers, NEW pc \in {"setWrite", "expire", "deleteWrite"}, NEW a, NEW m,
           Begin(w, pc, a, m)
    PROVE  /\ OthersKept(w) /\ FrameTyped'
           /\ mpc[w] = "ready" /\ mpc'[w] = pc /\ arg'[w] = a /\ snap'[w] = m
           /\ backend' = backend /\ now' = now /\ raced' = raced
BY DEF Begin, Typed, TypeOK, OthersKept, FrameTyped

LEMMA CompleteEffect ==
    ASSUME Typed, NEW w \in Workers, Complete(w)
    PROVE  /\ OthersKept(w) /\ FrameTyped'
           /\ mpc[w] = "ready" /\ mpc'[w] = "ready"
           /\ backend' = backend /\ now' = now /\ raced' = raced
BY DEF Complete, Typed, TypeOK, OthersKept, FrameTyped

LEMMA EndEffect ==
    ASSUME Typed, NEW w \in Workers, End(w)
    PROVE  OthersKept(w) /\ FrameTyped' /\ mpc'[w] = "ready"
BY DEF End, Typed, TypeOK, OthersKept, FrameTyped

LEMMA ReadyTouchesNothing ==
    ASSUME NEW w \in Workers
    PROVE  /\ mpc[w] = "ready" =>
                 CallFits(w) /\ Setting(w) = {} /\ Deleting(w) = {} /\ Touched(w) = {} /\ ~Busy(w)
           /\ mpc'[w] = "ready" =>
                 CallFits(w)' /\ Setting(w)' = {} /\ Deleting(w)' = {} /\ Touched(w)' = {} /\ ~Busy(w)'
BY DEF CallFits, Setting, Deleting, Touched, Busy

-----------------------------------------------------------------------------
(* The operations of a call, by what they do to the mappings and frames.   *)
Started(w, n) ==
    /\ backend' = backend /\ now' = now /\ raced' = raced
    /\ StoreTyped' /\ FrameTyped' /\ OthersKept(w)
    /\ mpc[w] = "ready" /\ CallFits(w)'
    /\ \A x \in Names \ {n} : MapOf(x)' = MapOf(x)
    /\ backend = "file" => store' = store

LEMMA MapSetEffect ==
    ASSUME Typed, NEW w \in Workers, NEW n \in Names, NEW ks \in SUBSET Keys, NEW e \in Expires,
           MapSet(w, n, [k \in ks |-> w], e)
    PROVE  /\ Started(w, n)
           /\ Busy(w)' => Setting(w)' = Fields(n, ks) /\ Deleting(w)' = {}
           /\ DOMAIN MapOf(n) \subseteq DOMAIN MapOf(n)'
           /\ DOMAIN MapOf(n)' \subseteq DOMAIN MapOf(n) \cup ks
           /\ ~Busy(w)' => ks \subseteq DOMAIN MapOf(n)'
<1> DEFINE m == [k \in ks |-> w]
           all == Updated(MapOf(n), m)
<1>1. m \in Mapping /\ DOMAIN m = ks
      BY MappingFacts
<1>2. CASE MapSetRead(w, n, m, e)
  <2> DEFINE a == [name |-> n, mapping |-> m, expire |-> e]
  <2>1. backend = "file" /\ store' = store /\ Begin(w, "setWrite", a, MapOf(n))
        BY <1>2 DEF MapSetRead
  <2>2. /\ OthersKept(w) /\ FrameTyped'
        /\ mpc[w] = "ready" /\ mpc'[w] = "setWrite" /\ arg'[w] = a /\ snap'[w] = MapOf(n)
        /\ backend' = backend /\ now' = now /\ raced' = raced
        BY <2>1, BeginEffect
  <2>3. StoreTyped'
        BY <2>1, <2>2 DEF Typed, TypeOK, StoreTyped
  <2>4. CallFits(w)'
        BY <1>1, <2>1, <2>2, StoredFits DEF CallFits
  <2>5. \A x : MapOf(x)' = MapOf(x)
        BY <2>1, <2>2, SameStore
  <2>6. Busy(w)' /\ Setting(w)' = Fields(n, ks) /\ Deleting(w)' = {}
        BY <1>1, <2>2 DEF Busy, Setting, Deleting
  <2> QED BY <2>1, <2>2, <2>3, <2>4, <2>5, <2>6 DEF Started
<1>3. CASE HSet(w, n, m, e)
  <2>1. /\ backend = "redis"
        /\ IF Live(n) THEN Put(n, all, store[n].updated, store[n].expires)
                      ELSE Put(n, all, now, 0)
        BY <1>3 DEF HSet
  <2>2. /\ OthersKept(w) /\ FrameTyped' /\ mpc[w] = "ready"
        /\ backend' = backend /\ now' = now /\ raced' = raced
        BY <1>3, BeginEffect, CompleteEffect DEF HSet
  <2>3. /\ e = Absent => mpc'[w] = "ready"
        /\ e # Absent => mpc'[w] = "expire" /\ arg'[w] = [name |-> n, mapping |-> m, expire |-> e]
        BY <1>3, BeginEffect, CompleteEffect DEF HSet
  <2>4. MapOf(n) \in Mapping /\ all \in Mapping
        BY <1>1, StoredFits, MappingFacts
  <2>5. DOMAIN all = DOMAIN MapOf(n) \cup ks
        BY <1>1 DEF Updated
  <2>6. now \in Nat /\ 0 \in Times
        BY TimesAreNumbers, MaxTimeAssumption DEF Typed, TypeOK
  <2> HIDE DEF all
  <2>7. StoreTyped' /\ (\A x \in Names \ {n} : MapOf(x)' = MapOf(x)) /\ MapOf(n)' = all
    <3>1. CASE Live(n)
      <4>1. store[n].updated \in 0 .. now /\ store[n].expires \in Times
            BY <2>6, <3>1, StoredFits
      <4> DEFINE u == store[n].updated
                 x == store[n].expires
      <4>2. Put(n, all, u, x) /\ Live(n) /\ u \in 0 .. now /\ x \in Times
            BY <2>1, <3>1, <4>1
      <4> HIDE DEF u, x
      <4>3. /\ store' \in [Names -> StoredRecord \cup {Absent}]
            /\ \A y \in Names : store'[y] # Absent => store'[y].updated <= now
            /\ \A y \in Names \ {n} : MapOf(y)' = MapOf(y)
        <5>1. backend' = backend /\ now' = now /\ all \in Mapping
              BY <2>2, <2>4
        <5> QED BY <4>2, <5>1, PutEffect
      <4>4. MapOf(n)' = all
        <5>1. backend' = backend /\ now' = now /\ all \in Mapping
              BY <2>2, <2>4
        <5>2. u = store[n].updated /\ x = store[n].expires
              BY DEF u, x
        <5> QED BY <4>2, <5>1, <5>2, PutEffect
      <4> QED BY <2>2, <4>3, <4>4 DEF StoreTyped
    <3>2. CASE ~Live(n)
      <4>1. now \in 0 .. now
            BY <2>6
      <4> QED BY <2>1, <2>2, <2>4, <2>6, <3>2, <4>1, PutEffect DEF StoreTyped
    <3> QED BY <3>1, <3>2
  <2>8. CallFits(w)'
        BY <1>1, <2>1, <2>2, <2>3 DEF CallFits
  <2>9. Busy(w)' => Setting(w)' = Fields(n, ks) /\ Deleting(w)' = {}
        BY <1>1, <2>3 DEF Busy, Setting, Deleting
  <2> QED BY <2>1, <2>2, <2>5, <2>7, <2>8, <2>9 DEF Started
<1> QED BY <1>2, <1>3 DEF MapSet

LEMMA MapDeleteEffect ==
    ASSUME Typed, NEW w \in Workers, NEW n \in Names, NEW k \in Keys, MapDelete(w, n, k)
    PROVE  /\ Started(w, n)
           /\ Busy(w)' => Deleting(w)' = Fields(n, {k}) /\ Setting(w)' = {}
           /\ DOMAIN MapOf(n) \ {k} \subseteq DOMAIN MapOf(n)'
           /\ DOMAIN MapOf(n)' \subseteq DOMAIN MapOf(n)
           /\ ~Busy(w)' => k \notin DOMAIN MapOf(n)'
<1>1. CASE MapDeleteAbsent(w, n, k)
  <2>1. store' = store /\ k \notin DOMAIN MapOf(n) /\ Complete(w)
        BY <1>1 DEF MapDeleteAbsent
  <2>2. /\ OthersKept(w) /\ FrameTyped' /\ mpc[w] = "ready" /\ mpc'[w] = "ready"
        /\ backend' = backend /\ now' = now /\ raced' = raced
        BY <2>1, CompleteEffect
  <2>3. StoreTyped'
        BY <2>1, <2>2 DEF Typed, TypeOK, StoreTyped
  <2>4. \A x : MapOf(x)' = MapOf(x)
        BY <2>1, <2>2, SameStore
  <2> QED BY <2>1, <2>2, <2>3, <2>4, ReadyTouchesNothing DEF Started
<1>2. CASE MapDeleteRead(w, n, k)
  <2> DEFINE a == [name |-> n, key |-> k]
  <2>1. /\ backend = "file" /\ store' = store /\ k \in DOMAIN MapOf(n)
        /\ Begin(w, "deleteWrite", a, MapOf(n))
        BY <1>2 DEF MapDeleteRead
  <2>2. /\ OthersKept(w) /\ FrameTyped'
        /\ mpc[w] = "ready" /\ mpc'[w] = "deleteWrite" /\ arg'[w] = a /\ snap'[w] = MapOf(n)
        /\ backend' = backend /\ now' = now /\ raced' = raced
        BY <2>1, BeginEffect
  <2>3. StoreTyped'
        BY <2>1, <2>2 DEF Typed, TypeOK, StoreTyped
  <2>4. CallFits(w)'
        BY <2>1, <2>2, StoredFits DEF CallFits
  <2>5. \A x : MapOf(x)' = MapOf(x)
        BY <2>1, <2>2, SameStore
  <2>6. Busy(w)' /\ Deleting(w)' = Fields(n, {k}) /\ Setting(w)' = {}
        BY <2>2 DEF Busy, Setting, Deleting
  <2> QED BY <2>1, <2>2, <2>3, <2>4, <2>5, <2>6 DEF Started
<1>3. CASE HDel(w, n, k)
  <2> DEFINE rest == Without(MapOf(n), k)
  <2>1. /\ backend = "redis" /\ Complete(w)
        /\ IF rest # Nothing THEN Put(n, rest, store[n].updated, store[n].expires)
                             ELSE store' = [store EXCEPT ![n] = Absent]
        BY <1>3 DEF HDel
  <2>2. /\ OthersKept(w) /\ FrameTyped' /\ mpc[w] = "ready" /\ mpc'[w] = "ready"
        /\ backend' = backend /\ now' = now /\ raced' = raced
        BY <2>1, CompleteEffect
  <2>3. MapOf(n) \in Mapping /\ rest \in Mapping
        BY StoredFits, MappingFacts
  <2>4. DOMAIN rest = DOMAIN MapOf(n) \ {k}
        BY DEF Without
  <2>5. DOMAIN Nothing = {}
        BY DEF Nothing
  <2> HIDE DEF rest
  <2>6. /\ StoreTyped'
        /\ \A x \in Names \ {n} : MapOf(x)' = MapOf(x)
        /\ DOMAIN MapOf(n)' = DOMAIN rest
    <3>1. CASE rest # Nothing
      <4>1. Live(n)
            BY <2>3, <2>4, <2>5, <3>1, StoredFits, MappingFacts
      <4>2. store[n].updated \in 0 .. now /\ store[n].expires \in Times
            BY <4>1, StoredFits, MaxTimeAssumption DEF Typed, TypeOK
      <4> DEFINE u == store[n].updated
                 e == store[n].expires
      <4>3. Put(n, rest, u, e) /\ Live(n) /\ u \in 0 .. now /\ e \in Times
            BY <2>1, <3>1, <4>1, <4>2
      <4>4. /\ store' \in [Names -> StoredRecord \cup {Absent}]
            /\ \A y \in Names : store'[y] # Absent => store'[y].updated <= now
            /\ \A y \in Names \ {n} : MapOf(y)' = MapOf(y)
            /\ MapOf(n)' = rest
            BY <2>2, <2>3, <4>3, PutEffect
      <4> QED BY <2>2, <4>4 DEF StoreTyped
    <3>2. CASE rest = Nothing
          BY <2>1, <2>2, <2>5, <3>2, DropEffect DEF StoreTyped
    <3> QED BY <3>1, <3>2
  <2> QED BY <2>1, <2>2, <2>4, <2>6, ReadyTouchesNothing DEF Started
<1> QED BY <1>1, <1>2, <1>3 DEF MapDelete

LEMMA DeleteEffect ==
    ASSUME Typed, NEW w \in Workers, NEW n \in Names, ~Busy(w), Delete(n)
    PROVE  /\ backend' = backend /\ now' = now /\ raced' = raced
           /\ StoreTyped' /\ FrameTyped' /\ OthersKept(w)
           /\ mpc[w] = "ready" /\ mpc'[w] = "ready"
           /\ \A x \in Names \ {n} : store'[x] = store[x] /\ MapOf(x)' = MapOf(x)
           /\ store'[n] = Absent
           /\ DOMAIN MapOf(n)' = {}
<1>1. /\ store' = [store EXCEPT ![n] = Absent]
      /\ UNCHANGED <<backend, now, mpc, arg, snap, raced>>
      BY DEF Delete
<1>2. OthersKept(w) /\ FrameTyped' /\ mpc[w] = "ready"
      BY <1>1 DEF OthersKept, FrameTyped, Typed, TypeOK, Busy
<1> QED BY <1>1, <1>2, DropEffect DEF StoreTyped

Returned(w) ==
    /\ backend' = backend /\ now' = now /\ raced' \in BOOLEAN /\ (raced => raced')
    /\ StoreTyped' /\ FrameTyped' /\ OthersKept(w)
    /\ mpc'[w] = "ready"

LEMMA WriteBackEffect ==
    ASSUME Typed, NEW w \in Workers, NEW n \in Names, n = arg[w].name,
           NEW m \in Mapping, NEW e \in Expires \cup {Absent}, WriteBack(w, m, e)
    PROVE  /\ Returned(w)
           /\ \A x \in Names \ {n} : store'[x] = store[x] /\ MapOf(x)' = MapOf(x)
           /\ MapOf(n)' = m
           /\ ~raced' => snap[w] = MapOf(n)
           /\ store'[n].expires =
                 IF e # Absent THEN e
                 ELSE IF Live(n) THEN store[n].expires ELSE 0
<1> DEFINE life == IF e # Absent THEN e ELSE IF Live(n) THEN store[n].expires ELSE 0
<1>1. /\ Put(n, m, now, life)
      /\ raced' = (raced \/ snap[w] # MapOf(n))
      /\ End(w) /\ backend' = backend /\ now' = now
      BY DEF WriteBack, SetRecord
<1>2. OthersKept(w) /\ FrameTyped' /\ mpc'[w] = "ready"
      BY <1>1, EndEffect
<1>3. life \in Times
  <2>1. e # Absent => e \in Times
        BY TimesAreNumbers
  <2>2. Live(n) => store[n].expires \in Times
        BY StoredFits
  <2> QED BY <2>1, <2>2, TimesAreNumbers
<1>4. now \in 0 .. now
      BY MaxTimeAssumption DEF Typed, TypeOK
<1> HIDE DEF life
<1>5. /\ store' \in [Names -> StoredRecord \cup {Absent}]
      /\ \A y \in Names : store'[y] # Absent => store'[y].updated <= now
      /\ \A y \in Names \ {n} : store'[y] = store[y] /\ MapOf(y)' = MapOf(y)
      /\ MapOf(n)' = m
      /\ store'[n] = [map |-> m, updated |-> now, expires |-> life]
      BY <1>1, <1>3, <1>4, PutEffect
<1>6. StoreTyped' /\ raced' \in BOOLEAN /\ (raced => raced') /\ store'[n].expires = life
      BY <1>1, <1>5 DEF StoreTyped, Typed
<1>7. ~raced' => snap[w] = MapOf(n)
      BY <1>1
<1>8. Returned(w)
      BY <1>1, <1>2, <1>6 DEF Returned
<1> QED BY <1>5, <1>6, <1>7, <1>8 DEF life

LEMMA HExpireEffect ==
    ASSUME Typed, NEW w \in Workers, CallFits(w), NEW n, n = arg[w].name, HExpire(w)
    PROVE  /\ Returned(w)
           /\ backend = "redis"
           /\ \A x \in Names : MapOf(x)' = MapOf(x)
           /\ ~raced' => DOMAIN arg[w].mapping \subseteq DOMAIN MapOf(n)
<1> DEFINE e == arg[w].expire
<1>1. /\ IF Live(n) THEN Put(n, store[n].map, now, e) ELSE UNCHANGED store
      /\ raced' = (raced \/ ~(DOMAIN arg[w].mapping \subseteq DOMAIN MapOf(n)))
      /\ End(w) /\ backend' = backend /\ now' = now
      /\ mpc[w] = "expire"
      BY DEF HExpire
<1>2. OthersKept(w) /\ FrameTyped' /\ mpc'[w] = "ready"
      BY <1>1, EndEffect
<1>3. n \in Names /\ e \in Times /\ backend = "redis"
      BY <1>1, TimesAreNumbers DEF CallFits
<1>4. StoreTyped' /\ \A x \in Names : MapOf(x)' = MapOf(x)
  <2>1. CASE Live(n)
    <3> DEFINE m == store[n].map
    <3>1. m \in Mapping /\ MapOf(n) = m /\ now \in 0 .. now
          BY <1>3, <2>1, StoredFits, MaxTimeAssumption DEF Typed, TypeOK
    <3>2. Put(n, m, now, e)
          BY <1>1, <2>1
    <3> HIDE DEF m, e
    <3>3. /\ store' \in [Names -> StoredRecord \cup {Absent}]
          /\ \A y \in Names : store'[y] # Absent => store'[y].updated <= now
          /\ \A y \in Names \ {n} : MapOf(y)' = MapOf(y)
          /\ MapOf(n)' = m
          BY <1>1, <1>3, <3>1, <3>2, PutEffect
    <3> QED BY <1>1, <3>1, <3>3 DEF StoreTyped
  <2>2. CASE ~Live(n)
    <3>1. store' = store
          BY <1>1, <2>2
    <3>2. \A x : MapOf(x)' = MapOf(x)
          BY <1>1, <3>1, SameStore
    <3>3. StoreTyped'
          BY <1>1, <3>1 DEF Typed, TypeOK, StoreTyped
    <3> QED BY <3>2, <3>3
  <2> QED BY <2>1, <2>2
<1>5. Returned(w)
      BY <1>1, <1>2, <1>4 DEF Returned, Typed
<1> QED BY <1>1, <1>3, <1>4, <1>5

LEMMA SetWriteEffect ==
    ASSUME Typed, NEW w \in Workers, CallFits(w), NEW n, n = arg[w].name, MapSetWrite(w)
    PROVE  /\ Returned(w) /\ mpc[w] = "setWrite"
           /\ \A x \in Names \ {n} : store'[x] = store[x] /\ MapOf(x)' = MapOf(x)
           /\ DOMAIN MapOf(n)' = DOMAIN snap[w] \cup DOMAIN arg[w].mapping
           /\ ~raced' => snap[w] = MapOf(n)
           /\ store'[n].expires \in Expires \/ Absent \in Expires
<1> DEFINE m == Updated(snap[w], arg[w].mapping)
           e == arg[w].expire
<1>1. /\ mpc[w] = "setWrite" /\ WriteBack(w, m, e)
      /\ n \in Names /\ snap[w] \in Mapping /\ arg[w].mapping \in Mapping
      /\ e \in Expires
      BY DEF MapSetWrite, CallFits
<1>2. m \in Mapping
      BY <1>1, MappingFacts
<1>3. DOMAIN m = DOMAIN snap[w] \cup DOMAIN arg[w].mapping
      BY DEF Updated
<1> HIDE DEF m, e
<1> QED BY <1>1, <1>2, <1>3, WriteBackEffect

LEMMA DeleteWriteEffect ==
    ASSUME Typed, NEW w \in Workers, CallFits(w), NEW n, n = arg[w].name, MapDeleteWrite(w)
    PROVE  /\ Returned(w) /\ mpc[w] = "deleteWrite"
           /\ \A x \in Names \ {n} : store'[x] = store[x] /\ MapOf(x)' = MapOf(x)
           /\ DOMAIN MapOf(n)' = DOMAIN snap[w] \ {arg[w].key}
           /\ ~raced' => /\ snap[w] = MapOf(n)
                         /\ store[n] # Absent
                         /\ store'[n].expires = store[n].expires
<1> DEFINE m == Without(snap[w], arg[w].key)
<1>1. /\ mpc[w] = "deleteWrite" /\ WriteBack(w, m, Absent)
      /\ n \in Names /\ snap[w] \in Mapping /\ arg[w].key \in DOMAIN snap[w]
      BY DEF MapDeleteWrite, CallFits
<1>2. m \in Mapping
      BY <1>1, MappingFacts
<1>3. DOMAIN m = DOMAIN snap[w] \ {arg[w].key}
      BY DEF Without
<1> HIDE DEF m
<1>4. /\ Returned(w)
      /\ \A x \in Names \ {n} : store'[x] = store[x] /\ MapOf(x)' = MapOf(x)
      /\ MapOf(n)' = m
      /\ ~raced' => snap[w] = MapOf(n)
      /\ store'[n].expires =
            IF Live(n) THEN store[n].expires ELSE 0
      BY <1>1, <1>2, WriteBackEffect
<1>5. ~raced' => Live(n)
      BY <1>1, <1>4, StoredFits DEF Nothing
<1> QED BY <1>1, <1>3, <1>4, <1>5 DEF Live

(* Time passes, or Redis drops what has expired: no mapping gains a field. *)
LEMMA ExpireEffect ==
    ASSUME Typed, MapTick \/ \E n \in Names : RedisExpire(n)
    PROVE  /\ UNCHANGED <<backend, mpc, arg, snap, raced>>
           /\ now' \in 0 .. MaxTime /\ StoreTyped' /\ FrameTyped'
           /\ \A x \in Names : DOMAIN MapOf(x)' \subseteq DOMAIN MapOf(x)
           /\ \A x \in Names : Live(x)' => MapOf(x)' = MapOf(x)
           /\ backend = "file" => store' = store
<1>1. CASE MapTick
  <2>1. now < MaxTime /\ now' = now + 1 /\ UNCHANGED <<backend, store, mpc, arg, snap, raced>>
        BY <1>1 DEF MapTick
  <2>2. now \in Nat /\ now' \in 0 .. MaxTime
        BY <2>1, MaxTimeAssumption DEF Typed, TypeOK
  <2>3. StoreTyped'
    <3>1. \A x \in Names : store[x] # Absent => store[x].updated <= now'
          BY <2>1, <2>2, StoredFits
    <3> QED BY <2>1, <3>1 DEF StoreTyped, Typed, TypeOK
  <2>4. FrameTyped'
        BY <2>1 DEF FrameTyped, Typed, TypeOK
  <2>5. ASSUME NEW x \in Names, Live(x)'
        PROVE  Live(x)
    <3>1. store[x] # Absent /\ ~Expired(store[x])'
          BY <2>1, <2>5 DEF Live
    <3>2. store[x].updated \in Nat /\ store[x].expires \in Nat
          BY <3>1, StoredFits, TimesAreNumbers
    <3>3. ~Expired(store[x])
          BY <2>1, <2>2, <3>1, <3>2 DEF Expired
    <3> QED BY <3>1, <3>3 DEF Live
  <2>6. ASSUME NEW x \in Names
        PROVE  /\ Live(x)' => MapOf(x)' = MapOf(x)
               /\ ~Live(x)' => MapOf(x)' = Nothing
        BY <2>1, <2>5 DEF MapOf
  <2>7. DOMAIN Nothing = {}
        BY DEF Nothing
  <2> QED BY <2>1, <2>2, <2>3, <2>4, <2>6, <2>7
<1>2. CASE \E n \in Names : RedisExpire(n)
  <2>1. PICK n \in Names : RedisExpire(n)
        BY <1>2
  <2>2. /\ backend = "redis" /\ store' = [store EXCEPT ![n] = Absent]
        /\ UNCHANGED <<backend, now, mpc, arg, snap, raced>>
        BY <2>1 DEF RedisExpire
  <2>3. FrameTyped' /\ now' \in 0 .. MaxTime
        BY <2>2 DEF FrameTyped, Typed, TypeOK
  <2> QED BY <2>2, <2>3, DropEffect DEF StoreTyped
<1> QED BY <1>1, <1>2

-----------------------------------------------------------------------------
LEMMA FieldFacts ==
    /\ \A f \in AllFields : f[1] \in Names /\ f[2] \in Keys
    /\ \A f \in AllFields : \A n, ks : f \in Fields(n, ks) <=> f[1] = n /\ f[2] \in ks
    /\ \A n \in Names : \A ks \in SUBSET Keys : Fields(n, ks) \subseteq AllFields
<1>1. \A f \in AllFields : f[1] \in Names /\ f[2] \in Keys /\ f = <<f[1], f[2]>>
      BY DEF AllFields
<1>2. \A f \in AllFields : \A n, ks : f \in Fields(n, ks) <=> f[1] = n /\ f[2] \in ks
      BY <1>1 DEF Fields
<1>3. \A n \in Names : \A ks \in SUBSET Keys : Fields(n, ks) \subseteq AllFields
      BY DEF Fields, AllFields
<1> QED BY <1>1, <1>2, <1>3

LEMMA TypedParts ==
    ASSUME StoreTyped', FrameTyped', now' \in 0 .. MaxTime,
           backend' \in {"file", "redis"}, raced' \in BOOLEAN,
           overlap' \in [Workers -> SUBSET AllFields],
           kept' \subseteq AllFields, removed' \subseteq AllFields
    PROVE  Typed'
BY DEF StoreTyped, FrameTyped, Typed, TypeOK, AllFields

LEMMA KnownFields ==
    ASSUME Typed
    PROVE  /\ kept \subseteq AllFields /\ removed \subseteq AllFields
           /\ overlap \in [Workers -> SUBSET AllFields]
           /\ raced \in BOOLEAN /\ backend \in {"file", "redis"} /\ now \in 0 .. MaxTime
BY DEF Typed, TypeOK, AllFields

LEMMA OthersTouch ==
    ASSUME NEW w \in Workers, NEW x \in Workers \ {w}
    PROVE  Touched(x) \subseteq Others(w)
BY DEF Others, Touched

LEMMA OthersAreFields ==
    ASSUME Typed, \A x \in Workers : CallFits(x), NEW w \in Workers
    PROVE  Others(w) \subseteq AllFields
<1>1. \A x \in Workers : Setting(x) \cup Deleting(x) \subseteq AllFields
      BY TouchedAreFields
<1> QED BY <1>1 DEF Others

(* A call that begins records whom it meets, and they record it. *)
LEMMA TouchKeepsOverlaps ==
    ASSUME Typed, OverlapsKnown, \A x \in Workers : CallFits(x),
           NEW w \in Workers, NEW fs \in SUBSET AllFields, OthersKept(w), backend' = backend,
           Busy(w)' => Touched(w)' \subseteq fs,
           ~Busy(w)' => Touched(w)' = {},
           Touch(w, fs)
    PROVE  OverlapsKnown' /\ overlap' \in [Workers -> SUBSET AllFields]
<1>1. overlap' = [x \in Workers |-> IF x = w THEN (IF Busy(w)' THEN Others(w) ELSE {})
                                    ELSE IF Busy(x) THEN overlap[x] \cup fs ELSE {}]
      BY DEF Touch
<1>2. Others(w) \in SUBSET AllFields /\ overlap \in [Workers -> SUBSET AllFields]
      BY OthersAreFields, KnownFields
<1>3. overlap' \in [Workers -> SUBSET AllFields]
      BY <1>1, <1>2
<1>4. \A x \in Workers \ {w} : Touched(x)' = Touched(x)
      BY OthersFit
<1>5. \A x \in Workers \ {w} : ~Busy(x) => Touched(x) = {}
      BY ReadyTouchesNothing DEF Busy
<1>6. ASSUME NEW x \in Workers, NEW y \in Workers \ {x}
      PROVE  Touched(x)' \cap Touched(y)' \subseteq overlap'[x]
  <2>1. CASE x = w
    <3>1. Touched(y)' \subseteq Others(w)
          BY <1>4, <2>1, OthersTouch
    <3> QED BY <1>1, <2>1, <3>1
  <2>2. CASE x # w /\ y = w
    <3>1. Touched(x)' = Touched(x)
          BY <1>4, <2>2
    <3>2. Touched(w)' \subseteq fs
          OBVIOUS
    <3> QED BY <1>1, <1>5, <2>2, <3>1, <3>2
  <2>3. CASE x # w /\ y # w
    <3>1. Touched(x)' = Touched(x) /\ Touched(y)' = Touched(y)
          BY <1>4, <2>3
    <3>2. Touched(x) \cap Touched(y) \subseteq overlap[x]
          BY DEF OverlapsKnown
    <3> QED BY <1>1, <1>5, <2>3, <3>1, <3>2
  <2> QED BY <2>1, <2>2, <2>3
<1> QED BY <1>3, <1>6 DEF OverlapsKnown

LEMMA ReturnKeepsOverlaps ==
    ASSUME Typed, OverlapsKnown, NEW w \in Workers, OthersKept(w), backend' = backend,
           mpc'[w] = "ready", overlap' = [overlap EXCEPT ![w] = {}]
    PROVE  OverlapsKnown' /\ overlap' \in [Workers -> SUBSET AllFields]
<1>1. overlap \in [Workers -> SUBSET AllFields]
      BY KnownFields
<1>2. Touched(w)' = {}
      BY ReadyTouchesNothing
<1>3. \A x \in Workers \ {w} : Touched(x)' = Touched(x) /\ overlap'[x] = overlap[x]
      BY <1>1, OthersFit
<1>4. \A x \in Workers : \A y \in Workers \ {x} : Touched(x)' \cap Touched(y)' \subseteq overlap'[x]
      BY <1>2, <1>3 DEF OverlapsKnown
<1> QED BY <1>1, <1>4 DEF OverlapsKnown

-----------------------------------------------------------------------------
(* map_set, its first operation. *)
LEMMA StartSetStep ==
    ASSUME ClientsInv, NEW w \in Workers, StartSet(w)
    PROVE  ClientsInv'
<1> USE DEF ClientsInv
<1>1. PICK n \in Names, ks \in SUBSET Keys \ {{}}, e \in Expires :
         /\ MapSet(w, n, [k \in ks |-> w], e)
         /\ Touch(w, Fields(n, ks))
         /\ removed' = removed \ Fields(n, ks)
         /\ kept' = IF Busy(w)' THEN kept ELSE kept \cup (Fields(n, ks) \ Others(w))
      BY DEF StartSet
<1> DEFINE fs == Fields(n, ks)
<1>2. /\ Started(w, n)
      /\ Busy(w)' => Setting(w)' = fs /\ Deleting(w)' = {}
      /\ DOMAIN MapOf(n) \subseteq DOMAIN MapOf(n)'
      /\ DOMAIN MapOf(n)' \subseteq DOMAIN MapOf(n) \cup ks
      /\ ~Busy(w)' => ks \subseteq DOMAIN MapOf(n)'
      BY <1>1, MapSetEffect
<1>3. fs \in SUBSET AllFields
      BY FieldFacts
<1>4. ~Busy(w)' => Touched(w)' = {} /\ Setting(w)' = {} /\ Deleting(w)' = {}
      BY ReadyTouchesNothing DEF Busy
<1>5. /\ OthersKept(w) /\ backend' = backend /\ raced' = raced /\ now' = now
      /\ StoreTyped' /\ FrameTyped' /\ CallFits(w)'
      /\ \A x \in Names \ {n} : MapOf(x)' = MapOf(x)
      BY <1>2 DEF Started
<1> HIDE DEF fs
<1>6. OverlapsKnown' /\ overlap' \in [Workers -> SUBSET AllFields]
      BY <1>1, <1>2, <1>3, <1>4, <1>5, TouchKeepsOverlaps DEF fs, Touched
<1>7. kept' = (IF Busy(w)' THEN kept ELSE kept \cup (fs \ Others(w))) /\ removed' = removed \ fs
      BY <1>1 DEF fs
<1>8. Typed'
      BY <1>3, <1>5, <1>6, <1>7, KnownFields, TypedParts
<1>9. \A x \in Workers \ {w} : CallFits(x)' /\ Setting(x)' = Setting(x) /\ Deleting(x)' = Deleting(x)
      BY <1>5, OthersFit
<1>10. PromisesFree'
  <2>1. Deleting(w)' = {} /\ Setting(w)' \subseteq fs
        BY <1>2, <1>4 DEF fs
  <2>2. \A x \in Workers \ {w} : Deleting(x) \subseteq Others(w)
        BY OthersTouch DEF Touched
  <2>3. \A x \in Workers \ {w} : Deleting(x)' \cap kept' = {} /\ Setting(x)' \cap removed' = {}
        BY <1>7, <1>9, <2>2 DEF PromisesFree
  <2> QED BY <1>7, <2>1, <2>3 DEF PromisesFree
<1>11. Promises'
  <2>1. ASSUME ~raced, NEW f \in kept'
        PROVE  f[2] \in DOMAIN MapOf(f[1])'
    <3>1. f \in AllFields
          BY <1>3, <1>7, KnownFields
    <3>2. f \in kept => f[2] \in DOMAIN MapOf(f[1])
          BY <2>1 DEF Promises, SavedIsFoundUnlessRaced, SavedIsFound
    <3>3. f \in fs => f[1] = n /\ f[2] \in ks
          BY <3>1, FieldFacts DEF fs
    <3> QED BY <1>2, <1>5, <1>7, <3>1, <3>2, <3>3, FieldFacts
  <2>2. ASSUME ~raced, NEW f \in removed'
        PROVE  f[2] \notin DOMAIN MapOf(f[1])'
    <3>1. f \in AllFields /\ f \in removed /\ f \notin fs
          BY <1>7, KnownFields
    <3>2. f[2] \notin DOMAIN MapOf(f[1])
          BY <2>2, <3>1 DEF Promises, DeletedIsGoneUnlessRaced, DeletedIsGone
    <3>3. f[1] = n => f[2] \notin ks
          BY <3>1, FieldFacts DEF fs
    <3> QED BY <1>2, <1>5, <3>1, <3>2, <3>3, FieldFacts
  <2>3. ExpiresUnlessRaced'
        BY <1>2 DEF Started, Promises, ExpiresUnlessRaced
  <2> QED BY <1>5, <2>1, <2>2, <2>3 DEF Promises, SavedIsFoundUnlessRaced, SavedIsFound,
             DeletedIsGoneUnlessRaced, DeletedIsGone
<1> QED BY <1>5, <1>6, <1>8, <1>9, <1>10, <1>11

(* map_delete, its first operation. *)
LEMMA StartDeleteStep ==
    ASSUME ClientsInv, NEW w \in Workers, StartDelete(w)
    PROVE  ClientsInv'
<1> USE DEF ClientsInv
<1>1. PICK n \in Names, k \in Keys :
         /\ MapDelete(w, n, k)
         /\ Touch(w, Fields(n, {k}))
         /\ kept' = kept \ Fields(n, {k})
         /\ removed' = IF Busy(w)' THEN removed ELSE removed \cup (Fields(n, {k}) \ Others(w))
      BY DEF StartDelete
<1> DEFINE fs == Fields(n, {k})
<1>2. /\ Started(w, n)
      /\ Busy(w)' => Deleting(w)' = fs /\ Setting(w)' = {}
      /\ DOMAIN MapOf(n) \ {k} \subseteq DOMAIN MapOf(n)'
      /\ DOMAIN MapOf(n)' \subseteq DOMAIN MapOf(n)
      /\ ~Busy(w)' => k \notin DOMAIN MapOf(n)'
      BY <1>1, MapDeleteEffect
<1>3. fs \in SUBSET AllFields
      BY FieldFacts
<1>4. ~Busy(w)' => Touched(w)' = {} /\ Setting(w)' = {} /\ Deleting(w)' = {}
      BY ReadyTouchesNothing DEF Busy
<1>5. /\ OthersKept(w) /\ backend' = backend /\ raced' = raced /\ now' = now
      /\ StoreTyped' /\ FrameTyped' /\ CallFits(w)'
      /\ \A x \in Names \ {n} : MapOf(x)' = MapOf(x)
      BY <1>2 DEF Started
<1> HIDE DEF fs
<1>6. OverlapsKnown' /\ overlap' \in [Workers -> SUBSET AllFields]
      BY <1>1, <1>2, <1>3, <1>4, <1>5, TouchKeepsOverlaps DEF fs, Touched
<1>7. kept' = kept \ fs /\ removed' = (IF Busy(w)' THEN removed ELSE removed \cup (fs \ Others(w)))
      BY <1>1 DEF fs
<1>8. Typed'
      BY <1>3, <1>5, <1>6, <1>7, KnownFields, TypedParts
<1>9. \A x \in Workers \ {w} : CallFits(x)' /\ Setting(x)' = Setting(x) /\ Deleting(x)' = Deleting(x)
      BY <1>5, OthersFit
<1>10. PromisesFree'
  <2>1. Setting(w)' = {} /\ Deleting(w)' \subseteq fs
        BY <1>2, <1>4 DEF fs
  <2>2. \A x \in Workers \ {w} : Setting(x) \subseteq Others(w)
        BY OthersTouch DEF Touched
  <2>3. \A x \in Workers \ {w} : Deleting(x)' \cap kept' = {} /\ Setting(x)' \cap removed' = {}
        BY <1>7, <1>9, <2>2 DEF PromisesFree
  <2> QED BY <1>7, <2>1, <2>3 DEF PromisesFree
<1>11. Promises'
  <2>1. ASSUME ~raced, NEW f \in kept'
        PROVE  f[2] \in DOMAIN MapOf(f[1])'
    <3>1. f \in AllFields /\ f \in kept /\ f \notin fs
          BY <1>7, KnownFields
    <3>2. f[2] \in DOMAIN MapOf(f[1])
          BY <2>1, <3>1 DEF Promises, SavedIsFoundUnlessRaced, SavedIsFound
    <3>3. f[1] = n => f[2] # k
          BY <3>1, FieldFacts DEF fs
    <3> QED BY <1>2, <1>5, <3>1, <3>2, <3>3, FieldFacts
  <2>2. ASSUME ~raced, NEW f \in removed'
        PROVE  f[2] \notin DOMAIN MapOf(f[1])'
    <3>1. f \in AllFields
          BY <1>3, <1>7, KnownFields
    <3>2. f \in removed => f[2] \notin DOMAIN MapOf(f[1])
          BY <2>2 DEF Promises, DeletedIsGoneUnlessRaced, DeletedIsGone
    <3>3. f \in fs => f[1] = n /\ f[2] = k
          BY <3>1, FieldFacts DEF fs
    <3> QED BY <1>2, <1>5, <1>7, <3>1, <3>2, <3>3, FieldFacts
  <2>3. ExpiresUnlessRaced'
        BY <1>2 DEF Started, Promises, ExpiresUnlessRaced
  <2> QED BY <1>5, <2>1, <2>2, <2>3 DEF Promises, SavedIsFoundUnlessRaced, SavedIsFound,
             DeletedIsGoneUnlessRaced, DeletedIsGone
<1> QED BY <1>5, <1>6, <1>8, <1>9, <1>10, <1>11

(* delete: the whole mapping goes in one operation. *)
LEMMA DeleteNameStep ==
    ASSUME ClientsInv, NEW w \in Workers, DeleteName(w)
    PROVE  ClientsInv'
<1> USE DEF ClientsInv
<1>1. PICK n \in Names :
         /\ ~Busy(w) /\ Delete(n)
         /\ Touch(w, Fields(n, Keys))
         /\ kept' = kept \ Fields(n, Keys)
         /\ removed' = removed \cup (Fields(n, Keys) \ Others(w))
      BY DEF DeleteName
<1> DEFINE fs == Fields(n, Keys)
<1>2. /\ backend' = backend /\ now' = now /\ raced' = raced
      /\ StoreTyped' /\ FrameTyped' /\ OthersKept(w)
      /\ mpc[w] = "ready" /\ mpc'[w] = "ready"
      /\ \A x \in Names \ {n} : store'[x] = store[x] /\ MapOf(x)' = MapOf(x)
      /\ store'[n] = Absent
      /\ DOMAIN MapOf(n)' = {}
      BY <1>1, DeleteEffect
<1>3. fs \in SUBSET AllFields
      BY FieldFacts
<1>4. Touched(w)' = {} /\ Setting(w)' = {} /\ Deleting(w)' = {} /\ CallFits(w)' /\ ~Busy(w)'
      BY <1>2, ReadyTouchesNothing
<1> HIDE DEF fs
<1>5. OverlapsKnown' /\ overlap' \in [Workers -> SUBSET AllFields]
      BY <1>1, <1>2, <1>3, <1>4, TouchKeepsOverlaps DEF fs
<1>6. kept' = kept \ fs /\ removed' = removed \cup (fs \ Others(w))
      BY <1>1 DEF fs
<1>7. Typed'
      BY <1>2, <1>3, <1>5, <1>6, KnownFields, TypedParts
<1>8. \A x \in Workers \ {w} : CallFits(x)' /\ Setting(x)' = Setting(x) /\ Deleting(x)' = Deleting(x)
      BY <1>2, OthersFit
<1>9. PromisesFree'
  <2>1. \A x \in Workers \ {w} : Setting(x) \subseteq Others(w)
        BY OthersTouch DEF Touched
  <2>2. \A x \in Workers \ {w} : Deleting(x)' \cap kept' = {} /\ Setting(x)' \cap removed' = {}
        BY <1>6, <1>8, <2>1 DEF PromisesFree
  <2> QED BY <1>4, <2>2 DEF PromisesFree
<1>10. Promises'
  <2>1. ASSUME ~raced, NEW f \in kept'
        PROVE  f[2] \in DOMAIN MapOf(f[1])'
    <3>1. f \in AllFields /\ f \in kept /\ f \notin fs
          BY <1>6, KnownFields
    <3>2. f[2] \in DOMAIN MapOf(f[1])
          BY <2>1, <3>1 DEF Promises, SavedIsFoundUnlessRaced, SavedIsFound
    <3>3. f[1] # n /\ f[1] \in Names
          BY <3>1, FieldFacts DEF fs
    <3> QED BY <1>2, <3>2, <3>3
  <2>2. ASSUME ~raced, NEW f \in removed'
        PROVE  f[2] \notin DOMAIN MapOf(f[1])'
    <3>1. f \in AllFields
          BY <1>3, <1>6, KnownFields
    <3>2. f \in removed => f[2] \notin DOMAIN MapOf(f[1])
          BY <2>2 DEF Promises, DeletedIsGoneUnlessRaced, DeletedIsGone
    <3>3. f \in fs => f[1] = n
          BY <3>1, FieldFacts DEF fs
    <3> QED BY <1>2, <1>6, <3>1, <3>2, <3>3, FieldFacts
  <2>3. ExpiresUnlessRaced'
        BY <1>2 DEF Promises, ExpiresUnlessRaced
  <2> QED BY <1>2, <2>1, <2>2, <2>3 DEF Promises, SavedIsFoundUnlessRaced, SavedIsFound,
             DeletedIsGoneUnlessRaced, DeletedIsGone
<1> QED BY <1>2, <1>4, <1>5, <1>7, <1>8, <1>9, <1>10

(* The second operation of a method, and what it leaves to the promises.   *)
LEMMA ReturnKeepsTypes ==
    ASSUME ClientsInv, NEW w \in Workers, Returned(w),
           kept' = kept \cup (Setting(w) \ overlap[w]),
           removed' = removed \cup (Deleting(w) \ overlap[w]),
           overlap' = [overlap EXCEPT ![w] = {}]
    PROVE  /\ Typed' /\ OverlapsKnown' /\ PromisesFree'
           /\ \A x \in Workers : CallFits(x)'
<1> USE DEF ClientsInv
<1>1. /\ backend' = backend /\ now' = now /\ raced' \in BOOLEAN
      /\ StoreTyped' /\ FrameTyped' /\ OthersKept(w) /\ mpc'[w] = "ready"
      BY DEF Returned
<1>2. OverlapsKnown' /\ overlap' \in [Workers -> SUBSET AllFields]
      BY <1>1, ReturnKeepsOverlaps
<1>3. Setting(w) \subseteq AllFields /\ Deleting(w) \subseteq AllFields
      BY TouchedAreFields
<1>4. Typed'
      BY <1>1, <1>2, <1>3, KnownFields, TypedParts
<1>5. Setting(w)' = {} /\ Deleting(w)' = {} /\ CallFits(w)'
      BY <1>1, ReadyTouchesNothing
<1>6. \A x \in Workers \ {w} : CallFits(x)' /\ Setting(x)' = Setting(x) /\ Deleting(x)' = Deleting(x)
      BY <1>1, OthersFit
<1>7. ASSUME NEW x \in Workers \ {w}
      PROVE  Deleting(x)' \cap kept' = {} /\ Setting(x)' \cap removed' = {}
  <2>1. Touched(w) \cap Touched(x) \subseteq overlap[w]
        BY DEF OverlapsKnown
  <2>2. Deleting(x) \cap Setting(w) \subseteq overlap[w] /\ Setting(x) \cap Deleting(w) \subseteq overlap[w]
        BY <2>1 DEF Touched
  <2> QED BY <1>6, <2>2 DEF PromisesFree
<1>8. PromisesFree'
      BY <1>5, <1>7 DEF PromisesFree
<1> QED BY <1>2, <1>4, <1>5, <1>6, <1>8

LEMMA ReturnStep ==
    ASSUME ClientsInv, NEW w \in Workers, Return(w)
    PROVE  ClientsInv'
<1> DEFINE n == arg[w].name
<1>1. /\ Typed /\ CallFits(w) /\ Promises /\ PromisesFree
      /\ kept' = kept \cup (Setting(w) \ overlap[w])
      /\ removed' = removed \cup (Deleting(w) \ overlap[w])
      /\ overlap' = [overlap EXCEPT ![w] = {}]
      BY DEF ClientsInv, Return
<1>2. Setting(w) \subseteq AllFields /\ Deleting(w) \subseteq AllFields
      BY <1>1, TouchedAreFields
<1>3. /\ ~raced => \A f \in kept : f[2] \in DOMAIN MapOf(f[1])
      /\ ~raced => \A f \in removed : f[2] \notin DOMAIN MapOf(f[1])
      BY <1>1 DEF Promises, SavedIsFoundUnlessRaced, SavedIsFound, DeletedIsGoneUnlessRaced,
             DeletedIsGone
<1>4. kept' \subseteq AllFields /\ removed' \subseteq AllFields
      BY <1>1, <1>2, KnownFields
<1>5. \A f \in AllFields : f[1] \in Names
      BY FieldFacts
<1>6. SUFFICES /\ Returned(w)
               /\ ~raced' => \A f \in kept' : f[2] \in DOMAIN MapOf(f[1])'
               /\ ~raced' => \A f \in removed' : f[2] \notin DOMAIN MapOf(f[1])'
               /\ ExpiresUnlessRaced'
      BY <1>1, ReturnKeepsTypes DEF ClientsInv, Promises, SavedIsFoundUnlessRaced, SavedIsFound,
             DeletedIsGoneUnlessRaced, DeletedIsGone
<1>7. CASE MapSetWrite(w)
  <2>1. PICK p : p = arg[w].name
        OBVIOUS
  <2>2. /\ Returned(w) /\ mpc[w] = "setWrite"
        /\ \A x \in Names \ {p} : store'[x] = store[x] /\ MapOf(x)' = MapOf(x)
        /\ DOMAIN MapOf(p)' = DOMAIN snap[w] \cup DOMAIN arg[w].mapping
        /\ ~raced' => snap[w] = MapOf(p)
        /\ store'[p].expires \in Expires \/ Absent \in Expires
        BY <1>1, <1>7, <2>1, SetWriteEffect
  <2>3. raced => raced'
        BY <2>2 DEF Returned
  <2>4. Setting(w) = Fields(p, DOMAIN arg[w].mapping) /\ Deleting(w) = {}
        BY <2>1, <2>2 DEF Setting, Deleting
  <2>5. \A f \in Setting(w) : f[1] = p /\ f[2] \in DOMAIN arg[w].mapping
        BY <1>2, <2>4, FieldFacts
  <2>6. ASSUME ~raced', NEW f \in kept'
        PROVE  f[2] \in DOMAIN MapOf(f[1])'
        BY <1>1, <1>3, <1>4, <1>5, <2>2, <2>3, <2>5, <2>6
  <2>7. ASSUME ~raced', NEW f \in removed'
        PROVE  f[2] \notin DOMAIN MapOf(f[1])'
    <3>1. f \in removed /\ f \in AllFields /\ f \notin Setting(w)
          BY <1>1, <1>4, <2>4 DEF PromisesFree
    <3>2. f[1] = p => f[2] \notin DOMAIN arg[w].mapping
          BY <2>4, <3>1, FieldFacts
    <3> QED BY <1>3, <1>5, <2>2, <2>3, <2>7, <3>1, <3>2
  <2>8. ExpiresUnlessRaced'
    <3>1. SUFFICES ASSUME Absent \notin Expires, backend = "file", ~raced',
                          NEW x \in Names, store'[x] # Absent
                   PROVE  store'[x].expires > 0
          BY <2>2 DEF ExpiresUnlessRaced, Returned
    <3>2. CASE x = p
          BY <2>2, <3>1, <3>2, ExpiresAssumption
    <3>3. CASE x # p
          BY <1>1, <2>2, <2>3, <3>1, <3>3 DEF Promises, ExpiresUnlessRaced
    <3> QED BY <3>2, <3>3
  <2> QED BY <2>2, <2>6, <2>7, <2>8
<1>8. CASE HExpire(w)
  <2>1. PICK p : p = arg[w].name
        OBVIOUS
  <2>2. /\ Returned(w) /\ backend = "redis"
        /\ \A x \in Names : MapOf(x)' = MapOf(x)
        /\ ~raced' => DOMAIN arg[w].mapping \subseteq DOMAIN MapOf(p)
        BY <1>1, <1>8, <2>1, HExpireEffect
  <2>3. raced => raced'
        BY <2>2 DEF Returned
  <2>4. Setting(w) = Fields(p, DOMAIN arg[w].mapping) /\ Deleting(w) = {}
        BY <1>8, <2>1 DEF HExpire, Setting, Deleting
  <2>5. \A f \in Setting(w) : f[1] = p /\ f[2] \in DOMAIN arg[w].mapping
        BY <1>2, <2>4, FieldFacts
  <2>6. ASSUME ~raced', NEW f \in kept'
        PROVE  f[2] \in DOMAIN MapOf(f[1])'
        BY <1>1, <1>3, <1>4, <1>5, <2>2, <2>3, <2>5, <2>6
  <2>7. ASSUME ~raced', NEW f \in removed'
        PROVE  f[2] \notin DOMAIN MapOf(f[1])'
        BY <1>1, <1>3, <1>4, <1>5, <2>2, <2>3, <2>4, <2>7
  <2>8. ExpiresUnlessRaced'
        BY <2>2 DEF ExpiresUnlessRaced, Returned
  <2> QED BY <2>2, <2>6, <2>7, <2>8
<1>9. CASE MapDeleteWrite(w)
  <2>1. PICK p : p = arg[w].name
        OBVIOUS
  <2>2. PICK k : k = arg[w].key
        OBVIOUS
  <2>3. /\ Returned(w) /\ mpc[w] = "deleteWrite"
        /\ \A x \in Names \ {p} : store'[x] = store[x] /\ MapOf(x)' = MapOf(x)
        /\ DOMAIN MapOf(p)' = DOMAIN snap[w] \ {k}
        /\ ~raced' => /\ snap[w] = MapOf(p)
                      /\ store[p] # Absent
                      /\ store'[p].expires = store[p].expires
        BY <1>1, <1>9, <2>1, <2>2, DeleteWriteEffect
  <2>4. raced => raced'
        BY <2>3 DEF Returned
  <2>5. Deleting(w) = Fields(p, {k}) /\ Setting(w) = {}
        BY <2>1, <2>2, <2>3 DEF Setting, Deleting
  <2>6. ASSUME ~raced', NEW f \in kept'
        PROVE  f[2] \in DOMAIN MapOf(f[1])'
    <3>1. f \in kept /\ f \in AllFields /\ f \notin Deleting(w)
          BY <1>1, <1>4, <2>5 DEF PromisesFree
    <3>2. f[1] = p => f[2] # k
          BY <2>5, <3>1, FieldFacts
    <3> QED BY <1>3, <1>5, <2>3, <2>4, <2>6, <3>1, <3>2
  <2>7. ASSUME ~raced', NEW f \in removed'
        PROVE  f[2] \notin DOMAIN MapOf(f[1])'
    <3>1. f \in Deleting(w) => f[1] = p /\ f[2] = k
          BY <1>2, <2>5, FieldFacts
    <3> QED BY <1>1, <1>3, <1>4, <1>5, <2>3, <2>4, <2>7, <3>1
  <2>8. ExpiresUnlessRaced'
    <3>1. SUFFICES ASSUME Absent \notin Expires, backend = "file", ~raced',
                          NEW x \in Names, store'[x] # Absent
                   PROVE  store'[x].expires > 0
          BY <2>3 DEF ExpiresUnlessRaced, Returned
    <3>2. \A y \in Names : store[y] # Absent => store[y].expires > 0
          BY <1>1, <2>4, <3>1 DEF Promises, ExpiresUnlessRaced
    <3>3. p \in Names
          BY <1>1, <2>1, <2>3 DEF CallFits
    <3> QED BY <2>3, <3>1, <3>2, <3>3
  <2> QED BY <2>3, <2>6, <2>7, <2>8
<1> QED BY <1>7, <1>8, <1>9 DEF Return, MapStep

(* Time passes: what was kept may go, and nothing comes back. *)
LEMMA ExpireStep ==
    ASSUME ClientsInv, Expire
    PROVE  ClientsInv'
<1> USE DEF ClientsInv
<1>1. /\ MapTick \/ \E n \in Names : RedisExpire(n)
      /\ kept' = {f \in kept : Live(f[1])'}
      /\ removed' = removed /\ overlap' = overlap
      BY DEF Expire
<1>2. /\ UNCHANGED <<backend, mpc, arg, snap, raced>>
      /\ now' \in 0 .. MaxTime /\ StoreTyped' /\ FrameTyped'
      /\ \A x \in Names : DOMAIN MapOf(x)' \subseteq DOMAIN MapOf(x)
      /\ \A x \in Names : Live(x)' => MapOf(x)' = MapOf(x)
      /\ backend = "file" => store' = store
      BY <1>1, ExpireEffect
<1>3. Typed'
      BY <1>1, <1>2, KnownFields, TypedParts
<1>4. \A x \in Workers : /\ CallFits(x)' /\ Touched(x)' = Touched(x)
                         /\ Setting(x)' = Setting(x) /\ Deleting(x)' = Deleting(x)
      BY <1>2 DEF CallFits, Touched, Setting, Deleting
<1>5. OverlapsKnown'
      BY <1>1, <1>4 DEF OverlapsKnown
<1>6. PromisesFree'
      BY <1>1, <1>4 DEF PromisesFree
<1>7. SavedIsFoundUnlessRaced'
  <2>1. ASSUME ~raced, NEW f \in kept'
        PROVE  f[2] \in DOMAIN MapOf(f[1])'
    <3>1. f \in kept /\ f[1] \in Names /\ Live(f[1])'
          BY <1>1, KnownFields, FieldFacts
    <3>2. f[2] \in DOMAIN MapOf(f[1])
          BY <2>1, <3>1 DEF Promises, SavedIsFoundUnlessRaced, SavedIsFound
    <3> QED BY <1>2, <3>1, <3>2
  <2> QED BY <1>2, <2>1 DEF SavedIsFoundUnlessRaced, SavedIsFound
<1>8. DeletedIsGoneUnlessRaced'
  <2>1. \A f \in removed : f[1] \in Names
        BY KnownFields, FieldFacts
  <2> QED BY <1>1, <1>2, <2>1 DEF Promises, DeletedIsGoneUnlessRaced, DeletedIsGone
<1>9. ExpiresUnlessRaced'
      BY <1>2 DEF Promises, ExpiresUnlessRaced
<1> QED BY <1>3, <1>4, <1>5, <1>6, <1>7, <1>8, <1>9 DEF Promises

-----------------------------------------------------------------------------
LEMMA InitialClients == Init => ClientsInv
<1> SUFFICES ASSUME Init PROVE ClientsInv
    OBVIOUS
<1>1. /\ backend \in {"file", "redis"} /\ now = 0 /\ raced = FALSE
      /\ store = [n \in Names |-> Absent]
      /\ mpc = [w \in Workers |-> "ready"] /\ arg = [w \in Workers |-> NoArg]
      /\ snap = [w \in Workers |-> Nothing]
      /\ kept = {} /\ removed = {} /\ overlap = [w \in Workers |-> {}]
      BY BackendsAssumption DEF Init, MapInit
<1>2. Typed
  <2>1. arg = [w \in Workers |-> arg[w]] /\ snap = [w \in Workers |-> snap[w]]
        BY <1>1
  <2>2. /\ now \in 0 .. MaxTime
        /\ mpc \in [Workers -> {"ready", "setWrite", "expire", "deleteWrite"}]
        BY <1>1, MaxTimeAssumption
  <2>3. /\ store \in [Names -> StoredRecord \cup {Absent}]
        /\ \A n \in Names : store[n] = Absent
        BY <1>1
  <2>4. overlap \in [Workers -> SUBSET AllFields]
        BY <1>1
  <2> QED BY <1>1, <2>1, <2>2, <2>3, <2>4 DEF Typed, TypeOK
<1>3. \A w \in Workers : CallFits(w) /\ Touched(w) = {}
      BY <1>1, ReadyTouchesNothing
<1>4. OverlapsKnown
      BY <1>3 DEF OverlapsKnown
<1>5. PromisesFree
      BY <1>1 DEF PromisesFree
<1>6. Promises
      BY <1>1 DEF Promises, SavedIsFoundUnlessRaced, SavedIsFound, DeletedIsGoneUnlessRaced,
             DeletedIsGone, ExpiresUnlessRaced
<1> QED BY <1>2, <1>3, <1>4, <1>5, <1>6 DEF ClientsInv

LEMMA ClientsStep == ClientsInv /\ [Next]_vars => ClientsInv'
<1>1. ClientsInv /\ UNCHANGED vars => ClientsInv'
  <2> SUFFICES ASSUME ClientsInv, UNCHANGED vars PROVE ClientsInv'
      OBVIOUS
  <2>1. /\ UNCHANGED <<backend, store, now, mpc, arg, snap, raced>>
        /\ UNCHANGED <<kept, removed, overlap>>
        BY DEF vars, mapVars
  <2>2. Typed'
        BY <2>1 DEF ClientsInv, Typed, TypeOK
  <2>3. \A w \in Workers : /\ CallFits(w)' /\ Touched(w)' = Touched(w)
                           /\ Setting(w)' = Setting(w) /\ Deleting(w)' = Deleting(w)
        BY <2>1 DEF ClientsInv, CallFits, Touched, Setting, Deleting
  <2>4. OverlapsKnown' /\ PromisesFree'
        BY <2>1, <2>3 DEF ClientsInv, OverlapsKnown, PromisesFree
  <2>5. \A n : MapOf(n)' = MapOf(n)
        BY <2>1, SameStore
  <2>6. Promises'
        BY <2>1, <2>5 DEF ClientsInv, Promises, SavedIsFoundUnlessRaced, SavedIsFound,
               DeletedIsGoneUnlessRaced, DeletedIsGone, ExpiresUnlessRaced
  <2> QED BY <2>2, <2>3, <2>4, <2>6 DEF ClientsInv
<1>2. ClientsInv /\ Next => ClientsInv'
      BY StartSetStep, StartDeleteStep, DeleteNameStep, ReturnStep, ExpireStep DEF Next
<1> QED BY <1>1, <1>2

LEMMA ClientsSafe == Spec => []ClientsInv
BY InitialClients, ClientsStep, PTL DEF Spec

(* The variables keep their types, for any number of workers, names and    *)
(* keys: what the storage holds under a name is a record with a mapping,   *)
(* the time of its last change, not in the future, and an expiration time  *)
(* some caller has given (RecordMeta, file_storage.py:125).                *)
THEOREM ClientsTypeCorrect == Spec => []TypeOK
<1>1. ClientsInv => TypeOK
      BY DEF ClientsInv, Typed
<1> QED BY <1>1, ClientsSafe, PTL

(* map_set, file_storage.py:109 and redis.py:59: a field whose map_set has *)
(* returned is found until it is deleted or expires, whatever other calls  *)
(* are in progress, if no second storage operation of any call has found   *)
(* its mapping changed.                                                    *)
THEOREM SavedFieldsAreFound == Spec => []SavedIsFoundUnlessRaced
<1>1. ClientsInv => SavedIsFoundUnlessRaced
      BY DEF ClientsInv, Promises
<1> QED BY <1>1, ClientsSafe, PTL

(* map_delete and delete, file_storage.py:79 and 84: a field whose removal *)
(* has returned does not come back unless it is set again, under the same  *)
(* condition.                                                              *)
THEOREM DeletedFieldsAreGone == Spec => []DeletedIsGoneUnlessRaced
<1>1. ClientsInv => DeletedIsGoneUnlessRaced
      BY DEF ClientsInv, Promises
<1> QED BY <1>1, ClientsSafe, PTL

(* map_delete writes back with expires=None (file_storage.py:93), which    *)
(* keeps the expiration time of what is there: no mapping of the file      *)
(* storage loses it, under the same condition.                             *)
THEOREM MappingsExpire == Spec => []ExpiresUnlessRaced
<1>1. ClientsInv => ExpiresUnlessRaced
      BY DEF ClientsInv, Promises
<1> QED BY <1>1, ClientsSafe, PTL
=============================================================================
