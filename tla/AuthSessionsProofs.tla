------------------------- MODULE AuthSessionsProofs -------------------------
(***************************************************************************)
(* Login, logout, refresh and the token check keep what they promise for   *)
(* any workers, users and tokens, any lifetimes and any number of          *)
(* requests, with a file and with Redis.  The invariant below says for     *)
(* each worker what request it is in, by its place, and what a storage     *)
(* method it is in the middle of is about to write.                        *)
(***************************************************************************)
EXTENDS AuthSessions, FiniteSetTheorems, TLAPS

Outcomes == {"ok", "refused", "failed"}
LoginSteps == {"count", "wipe", "add", "issue"}
LogoutSteps == {"sessions", "recheck", "leave", "revoke", "remove", "bye"}
CheckSteps == {"check", "burn", "burnt", "cache", "store", "stored"}
RefreshSteps == {"blacklist", "find", "dropped", "replace", "renew"}

(* The mapping under a name is of its kind, and a session that is stored  *)
(* is one a login has made.                                                *)
HoldsSessions(m) == \E R \in SUBSET made : m \in [R -> SessionEntry]
Fits(n, m) ==
    \/ \E u \in Users : n = SessionsOf(u) /\ HoldsSessions(m)
    \/ \E a \in AccessTokens : n = Blacklisted(a) /\ m \in Marks
    \/ \E u \in Users : n = RolesOf(u) /\ m \in RoleMaps

StoreFits ==
    /\ store = [n \in Names |-> store[n]]
    /\ \A n \in Names : store[n] # Absent =>
          /\ store[n] \in [map : {store[n].map}, updated : Nat, expires : Nat]
          /\ Fits(n, store[n].map)

Extends ==
    /\ backend \in {"file", "redis"} /\ now \in Nat
    /\ mpc \in [Workers -> {"ready", "setWrite", "expire", "deleteWrite"}]
    /\ arg = [w \in Workers |-> arg[w]] /\ snap = [w \in Workers |-> snap[w]]
    /\ apc \in [Workers -> Step]
    /\ req = [w \in Workers |-> req[w]] /\ found = [w \in Workers |-> found[w]]
    /\ token \in [AccessTokens -> Payloads \cup {Absent}]
    /\ made \subseteq RefreshTokens /\ keycloak \subseteq made
    /\ revoked \subseteq Issued /\ loggedIn \cup loggedOut \subseteq made

(* The request of a worker is one of those that have the worker's place. *)
KindFits(w) ==
    /\ apc[w] = "idle" => req[w] = NoRequest /\ mpc[w] = "ready"
    /\ apc[w] \in LoginSteps => req[w].kind = "login"
    /\ apc[w] \in CheckSteps => req[w].kind \in {"access", "logout"}
    /\ apc[w] \in LogoutSteps => req[w].kind = "logout"
    /\ apc[w] \in RefreshSteps => req[w].kind = "refresh"
    /\ apc[w] \in Outcomes => req[w].kind \in {"login", "access", "logout", "refresh"}
                           /\ mpc[w] = "ready"

RequestFits(w) ==
    /\ apc[w] # "idle" => req[w].start \in Nat /\ req[w].start <= now
                       /\ now <= req[w].start + WorkerTimeout
    /\ req[w].kind = "login" =>
          /\ req[w].user \in Users /\ req[w].print \in Prints /\ req[w].provider \in Providers
          /\ req[w].roles \in TokenRoles /\ req[w].refresh \in made
          /\ req[w].exp \in Nat
    /\ req[w].kind \in {"access", "logout", "refresh"} =>
          /\ req[w].access \in Issued /\ req[w].refresh \in made /\ req[w].print \in Prints
          /\ req[w].lateAccess => req[w].access \in revoked
          /\ req[w].lateRefresh => req[w].refresh \in loggedOut
    /\ apc[w] \in {"recheck", "leave", "revoke", "remove"} => HoldsSessions(found[w])

(* What a storage method that is not over is about to write. *)
Target(w) ==
    CASE apc[w] = "issue" -> SessionsOf(req[w].user)
      [] apc[w] = "stored" -> RolesOf(Payload(w).user)
      [] apc[w] \in {"burnt", "remove", "renew"} -> Blacklisted(req[w].access)
      [] OTHER -> SessionsOf(Payload(w).user)

PendingFits(w) ==
    /\ mpc[w] \in {"setWrite", "expire"} =>
          /\ apc[w] \in {"issue", "stored", "burnt", "remove", "renew"}
          /\ arg[w].name = Target(w)
          /\ Fits(Target(w), arg[w].mapping)
          /\ arg[w].expire \in Nat
    /\ mpc[w] = "setWrite" => backend = "file" /\ (snap[w] = Nothing \/ Fits(Target(w), snap[w]))
    /\ mpc[w] = "expire" => backend = "redis" /\ apc[w] # "stored"
    /\ mpc[w] = "deleteWrite" =>
          /\ backend = "file" /\ apc[w] \in {"bye", "dropped"}
          /\ arg[w].name = Target(w)
          /\ arg[w].key = req[w].refresh
          /\ HoldsSessions(snap[w])

WorkerFits(w) == KindFits(w) /\ RequestFits(w) /\ PendingFits(w)

Fit == StoreFits /\ Extends /\ \A w \in Workers : WorkerFits(w)

-----------------------------------------------------------------------------
(* What every step of a worker leaves to the others. *)
Same(w) ==
    /\ apc'[w] = apc[w] /\ req'[w] = req[w] /\ found'[w] = found[w]
    /\ mpc'[w] = mpc[w] /\ arg'[w] = arg[w] /\ snap'[w] = snap[w]

Grows ==
    /\ backend' = backend
    /\ \A a \in Issued : a \in Issued' /\ token'[a] = token[a]
    /\ made \subseteq made' /\ revoked \subseteq revoked' /\ loggedOut \subseteq loggedOut'

LEMMA NamesDiffer ==
    /\ \A u, v : SessionsOf(u) = SessionsOf(v) => u = v
    /\ \A u, v : RolesOf(u) = RolesOf(v) => u = v
    /\ \A a, b : Blacklisted(a) = Blacklisted(b) => a = b
    /\ \A u, v, a : /\ SessionsOf(u) # RolesOf(v)
                    /\ SessionsOf(u) # Blacklisted(a)
                    /\ RolesOf(u) # Blacklisted(a)
BY DEF SessionsOf, RolesOf, Blacklisted

LEMMA OwnSteps ==
    ASSUME Extends, NEW v \in Workers, Serve(v)
    PROVE  now' = now /\ Grows /\ \A w \in Workers \ {v} : Same(w)
<1> USE DEF Extends, Same, Grows, Issued
<1>1. CASE Login(v)
      BY <1>1 DEF Login, BeginRequest, To, KeepStorage, mapVars
<1>2. CASE CountSessions(v)
      BY <1>2 DEF CountSessions, At, To, Keep, KeepStorage, mapVars
<1>3. CASE WipeSessions(v)
      BY <1>3 DEF WipeSessions, At, To, Keep, Delete
<1>4. CASE AddSession(v)
      BY <1>4 DEF AddSession, At, To, Keep, MapSet, MapSetRead, HSet, Begin, Complete
<1>5. CASE IssueToken(v)
      BY <1>5 DEF IssueToken, At, To, Respond, NewToken, KeepStorage, mapVars
<1>6. CASE Access(v) \/ Logout(v) \/ Refresh(v)
      BY <1>6 DEF Access, Logout, Refresh, Request, BeginRequest, To, KeepStorage, mapVars
<1>7. CASE CheckHeader(v) \/ CheckAgain(v)
      BY <1>7 DEF CheckHeader, CheckAgain, CheckToken, Refuse, Fail, Respond, At, To, Keep,
                  KeepStorage, mapVars
<1>8. CASE Burn(v) \/ RevokeForLogout(v) \/ RevokeForRefresh(v)
      BY <1>8 DEF Burn, RevokeForLogout, RevokeForRefresh, Blacklist, At, To, Keep, MapSet,
                  MapSetRead, HSet, Begin, Complete
<1>9. CASE RefuseBurnt(v) \/ RolesStored(v) \/ CheckCachedRoles(v) \/ CheckTokenRoles(v)
      BY <1>9 DEF RefuseBurnt, RolesStored, CheckCachedRoles, CheckTokenRoles, LetIn, Refuse,
                  Respond, At, To, Keep, KeepStorage, mapVars
<1>10. CASE StoreRoles(v)
      BY <1>10 DEF StoreRoles, At, To, Keep, MapSet, MapSetRead, HSet, Begin, Complete
<1>11. CASE StoreRolesFails(v) \/ ReadSessions(v)
      BY <1>11 DEF StoreRolesFails, ReadSessions, Fail, Refuse, Respond, At, To, KeepStorage,
                   mapVars
<1>12. CASE LeaveLdap(v) \/ LeaveKeycloak(v) \/ LeaveKeycloakFails(v)
      BY <1>12 DEF LeaveLdap, LeaveKeycloak, LeaveKeycloakFails, Fail, Respond, At, To, Keep,
                   KeepStorage, mapVars
<1>13. CASE NoSession(v) \/ ConfirmLogout(v)
      BY <1>13 DEF NoSession, ConfirmLogout, Respond, At, To, KeepStorage, mapVars
<1>14. CASE RemoveLastSession(v)
      BY <1>14 DEF RemoveLastSession, At, To, Keep, Delete
<1>15. CASE RemoveSession(v) \/ DropSession(v)
      BY <1>15 DEF RemoveSession, DropSession, At, To, Keep, MapDelete, MapDeleteAbsent,
                   MapDeleteRead, HDel, Begin, Complete
<1>16. CASE CheckNotBlacklisted(v) \/ RefuseSession(v) \/ RefuseDropped(v) \/ AcceptSession(v)
      BY <1>16 DEF CheckNotBlacklisted, RefuseSession, RefuseDropped, AcceptSession, Refuse,
                   Respond, At, To, Keep, KeepStorage, mapVars
<1>17. CASE Renew(v)
      BY <1>17 DEF Renew, NewToken, Fail, Respond, At, To, KeepStorage, mapVars
<1>18. CASE Abort(v)
      BY <1>18 DEF Abort, Fail, Respond, To, End
<1>19. CASE Storing(v)
      BY <1>19 DEF Storing, authVars, MapStep, MapSetWrite, HExpire, MapDeleteWrite, WriteBack,
                   End
<1>20. CASE Done(v)
      BY <1>20 DEF Done, To, KeepStorage, mapVars
<1> QED BY <1>1, <1>2, <1>3, <1>4, <1>5, <1>6, <1>7, <1>8, <1>9, <1>10, <1>11, <1>12, <1>13,
           <1>14, <1>15, <1>16, <1>17, <1>18, <1>19, <1>20 DEF Serve

-----------------------------------------------------------------------------
(* Mappings keep their kind when they are changed. *)
LEMMA NothingHoldsNoSession == HoldsSessions(Nothing)
BY DEF HoldsSessions, Nothing

LEMMA UpdatedFits ==
    ASSUME NEW n, NEW m, NEW s, Fits(n, m), s = Nothing \/ Fits(n, s)
    PROVE  Fits(n, Updated(s, m))
<1>1. ASSUME NEW u \in Users, n = SessionsOf(u) PROVE Fits(n, Updated(s, m))
      <2>1. HoldsSessions(m)
            BY <1>1, NamesDiffer DEF Fits
      <2>2. HoldsSessions(s)
            BY <1>1, NamesDiffer, NothingHoldsNoSession DEF Fits
      <2>3. PICK R \in SUBSET made, Q \in SUBSET made :
                 m \in [R -> SessionEntry] /\ s \in [Q -> SessionEntry]
            BY <2>1, <2>2 DEF HoldsSessions
      <2>4. Updated(s, m) \in [Q \cup R -> SessionEntry]
            BY <2>3 DEF Updated
      <2>5. HoldsSessions(Updated(s, m))
            BY <2>4 DEF HoldsSessions
      <2> QED BY <1>1, <2>5 DEF Fits
<1>2. ASSUME NEW a \in AccessTokens, n = Blacklisted(a) PROVE Fits(n, Updated(s, m))
      <2>1. m \in Marks /\ (s = Nothing \/ s \in Marks)
            BY <1>2, NamesDiffer DEF Fits
      <2>2. Updated(s, m) \in Marks
            BY <2>1 DEF Marks, Updated, Nothing
      <2> QED BY <1>2, <2>2 DEF Fits
<1>3. ASSUME NEW u \in Users, n = RolesOf(u) PROVE Fits(n, Updated(s, m))
      <2>1. m \in RoleMaps /\ (s = Nothing \/ s \in RoleMaps)
            BY <1>3, NamesDiffer DEF Fits
      <2>2. Updated(s, m) \in RoleMaps
            BY <2>1 DEF RoleMaps, Updated, Nothing
      <2> QED BY <1>3, <2>2 DEF Fits
<1> QED BY <1>1, <1>2, <1>3 DEF Fits

LEMMA WithoutFits ==
    ASSUME NEW m, NEW k, HoldsSessions(m)
    PROVE  HoldsSessions(Without(m, k))
<1>1. PICK R \in SUBSET made : m \in [R -> SessionEntry]
      BY DEF HoldsSessions
<1>2. Without(m, k) \in [R \ {k} -> SessionEntry]
      BY <1>1 DEF Without
<1> QED BY <1>2 DEF HoldsSessions

LEMMA SessionNamesFit ==
    /\ \A u \in Users : /\ SessionsOf(u) \in Names /\ RolesOf(u) \in Names
                        /\ \A m : Fits(SessionsOf(u), m) <=> HoldsSessions(m)
                        /\ \A m : Fits(RolesOf(u), m) <=> m \in RoleMaps
    /\ \A a \in AccessTokens : /\ Blacklisted(a) \in Names
                               /\ \A m : Fits(Blacklisted(a), m) <=> m \in Marks
BY NamesAssumption, NamesDiffer DEF Fits

LEMMA MapOfFits ==
    ASSUME StoreFits, NEW n \in Names
    PROVE  MapOf(n) = Nothing \/ Fits(n, MapOf(n))
BY DEF StoreFits, MapOf, Live

LEMMA SessionsFit ==
    ASSUME StoreFits, NEW u \in Users
    PROVE  HoldsSessions(MapOf(SessionsOf(u)))
BY MapOfFits, SessionNamesFit, NothingHoldsNoSession

LEMMA PutFits ==
    ASSUME StoreFits, made' = made, NEW n \in Names, NEW m, NEW updated \in Nat, NEW expires \in Nat,
           Fits(n, m), Put(n, m, updated, expires)
    PROVE  StoreFits'
BY DEF StoreFits, Put, Fits, HoldsSessions

LEMMA SetRecordFits ==
    ASSUME StoreFits, made' = made, now \in Nat, NEW n \in Names, NEW m, NEW e \in Nat \cup {Absent},
           Fits(n, m), SetRecord(n, m, e)
    PROVE  StoreFits'
<1>1. Live(n) => store[n].expires \in Nat
      BY DEF Live, StoreFits
<1>2. PICK expires \in Nat : Put(n, m, now, expires)
      BY <1>1 DEF SetRecord
<1> QED BY <1>2, PutFits

LEMMA DeleteFits ==
    ASSUME StoreFits, made' = made, NEW n \in Names, store' = [store EXCEPT ![n] = Absent]
    PROVE  StoreFits'
BY DEF StoreFits, Fits, HoldsSessions

(* The first operation of a method. *)
LEMMA MapSetFits ==
    ASSUME StoreFits, made' = made, now \in Nat, NEW w, NEW n \in Names, NEW m, NEW e, Fits(n, m),
           MapSet(w, n, m, e)
    PROVE  StoreFits'
<1>1. CASE MapSetRead(w, n, m, e)
      BY <1>1 DEF MapSetRead, StoreFits, Fits, HoldsSessions
<1>2. CASE HSet(w, n, m, e)
      <2>1. Fits(n, Updated(MapOf(n), m))
            BY MapOfFits, UpdatedFits
      <2>2. Live(n) => store[n].expires \in Nat /\ store[n].updated \in Nat
            BY DEF Live, StoreFits
      <2>3. PICK updated \in Nat, expires \in Nat : Put(n, Updated(MapOf(n), m), updated, expires)
            BY <1>2, <2>2 DEF HSet
      <2> QED BY <2>1, <2>3, PutFits
<1> QED BY <1>1, <1>2 DEF MapSet

LEMMA MapDeleteFits ==
    ASSUME StoreFits, made' = made, NEW w, NEW u \in Users, NEW k, MapDelete(w, SessionsOf(u), k)
    PROVE  StoreFits'
<1> DEFINE n == SessionsOf(u)
<1>1. CASE MapDeleteAbsent(w, n, k) \/ MapDeleteRead(w, n, k)
      BY <1>1 DEF MapDeleteAbsent, MapDeleteRead, StoreFits, Fits, HoldsSessions
<1>2. CASE HDel(w, n, k)
      <2>1. n \in Names /\ Fits(n, Without(MapOf(n), k))
            BY SessionsFit, WithoutFits, SessionNamesFit
      <2>2. CASE Without(MapOf(n), k) # Nothing
            <3>1. Live(n)
                  BY <2>2 DEF MapOf, Without, Nothing
            <3>2. store[n].expires \in Nat /\ store[n].updated \in Nat
                  BY <2>1, <3>1 DEF Live, StoreFits
            <3>3. Put(n, Without(MapOf(n), k), store[n].updated, store[n].expires)
                  BY <1>2, <2>2 DEF HDel
            <3> HIDE DEF n
            <3> QED BY <2>1, <3>2, <3>3, PutFits
      <2>3. CASE Without(MapOf(n), k) = Nothing
            BY <1>2, <2>1, <2>3, DeleteFits DEF HDel
      <2> QED BY <2>2, <2>3
<1> QED BY <1>1, <1>2 DEF MapDelete

-----------------------------------------------------------------------------
(* The parts of a request that its steps need. *)
LEMMA LoginFits ==
    ASSUME Fit, NEW v \in Workers, req[v].kind = "login"
    PROVE  /\ req[v].user \in Users /\ req[v].print \in Prints /\ req[v].provider \in Providers
           /\ req[v].roles \in TokenRoles /\ req[v].refresh \in made /\ req[v].refresh \in RefreshTokens
           /\ req[v].exp \in Nat
           /\ RefreshLifetime(req[v].provider) \in Nat /\ now \in Nat
BY LifetimesAssumption DEF Fit, Extends, WorkerFits, RequestFits, RefreshLifetime

LEMMA TokenFits ==
    ASSUME Fit, NEW v \in Workers, req[v].kind \in {"access", "logout", "refresh"}
    PROVE  /\ req[v].access \in AccessTokens /\ Payload(v) # Absent /\ Payload(v) \in Payloads
           /\ req[v].refresh \in RefreshTokens /\ now \in Nat
BY DEF Fit, Extends, WorkerFits, RequestFits, Payload, Issued

LEMMA FieldsFit ==
    /\ \A r \in made : \A s \in SessionEntry : HoldsSessions(Field(r, s))
    /\ \A x \in Nat : Field("expires_at", x) \in Marks
    /\ \A x \in TokenRoles : Field("roles", x) \in RoleMaps
<1>1. \A r \in made : \A s \in SessionEntry : HoldsSessions(Field(r, s))
      <2>1. \A r \in made : \A s \in SessionEntry : Field(r, s) \in [{r} -> SessionEntry]
            BY DEF Field
      <2>2. \A r \in made : {r} \in SUBSET made
            OBVIOUS
      <2> QED BY <2>1, <2>2, Zenon DEF HoldsSessions
<1> QED BY <1>1 DEF Field, Marks, RoleMaps

(* What each method that sets a mapping is given. *)
LEMMA GivenFits ==
    ASSUME Fit, NEW v \in Workers
    PROVE  /\ apc[v] = "add" =>
                  /\ SessionsOf(req[v].user) \in Names
                  /\ Fits(SessionsOf(req[v].user),
                          Field(req[v].refresh, [print |-> req[v].print, created |-> now,
                                     expires |-> RefreshLifetime(req[v].provider)]))
           /\ apc[v] \in {"burn", "revoke", "replace"} =>
                  /\ Blacklisted(req[v].access) \in Names
                  /\ Fits(Blacklisted(req[v].access), Field("expires_at", Payload(v).exp))
           /\ apc[v] = "store" =>
                  /\ RolesOf(Payload(v).user) \in Names
                  /\ Fits(RolesOf(Payload(v).user), Field("roles", Payload(v).roles))
<1>1. ASSUME apc[v] = "add"
      PROVE  /\ SessionsOf(req[v].user) \in Names
             /\ Fits(SessionsOf(req[v].user),
                     Field(req[v].refresh, [print |-> req[v].print, created |-> now,
                                expires |-> RefreshLifetime(req[v].provider)]))
      <2>1. req[v].kind = "login"
            BY <1>1 DEF Fit, WorkerFits, KindFits, LoginSteps
      <2>2. [print |-> req[v].print, created |-> now,
             expires |-> RefreshLifetime(req[v].provider)] \in SessionEntry
            BY <2>1, LoginFits DEF SessionEntry
      <2> QED BY <2>1, <2>2, LoginFits, FieldsFit, SessionNamesFit
<1>2. ASSUME apc[v] \in {"burn", "revoke", "replace", "store"}
      PROVE  /\ req[v].access \in AccessTokens /\ Payload(v).exp \in Nat
             /\ Payload(v).roles \in TokenRoles /\ Payload(v).user \in Users
      <2>1. req[v].kind \in {"access", "logout", "refresh"}
            BY <1>2 DEF Fit, WorkerFits, KindFits, CheckSteps, LogoutSteps, RefreshSteps
      <2> QED BY <2>1, TokenFits DEF Payloads
<1> QED BY <1>1, <1>2, FieldsFit, SessionNamesFit

LEMMA OwnStore ==
    ASSUME Fit, NEW v \in Workers, Serve(v)
    PROVE  StoreFits'
<1> USE DEF Fit
<1>0. now \in Nat
      BY DEF Extends
<1>1. CASE store' = store
      BY <1>1, OwnSteps DEF StoreFits, Fits, HoldsSessions, Grows
<1>2. CASE WipeSessions(v) \/ RemoveLastSession(v)
      <2>1. apc[v] = "wipe" \/ apc[v] = "remove"
            BY <1>2 DEF WipeSessions, RemoveLastSession, At
      <2>2. (apc[v] = "wipe" => req[v].user \in Users)
            /\ (apc[v] = "remove" => Payload(v).user \in Users)
            BY LoginFits, TokenFits DEF WorkerFits, KindFits, LoginSteps, LogoutSteps, Payloads
      <2>3. PICK u \in Users : store' = [store EXCEPT ![SessionsOf(u)] = Absent]
            BY <1>2, <2>1, <2>2 DEF WipeSessions, RemoveLastSession, Delete, At
      <2>4. made' = made
            BY <1>2 DEF WipeSessions, RemoveLastSession, Keep
      <2> QED BY <2>3, <2>4, SessionNamesFit, DeleteFits
<1>3. CASE AddSession(v)
      BY <1>0, <1>3, GivenFits, MapSetFits DEF AddSession, At, Keep
<1>4. CASE Burn(v) \/ RevokeForLogout(v) \/ RevokeForRefresh(v)
      BY <1>0, <1>4, GivenFits, MapSetFits
         DEF Burn, RevokeForLogout, RevokeForRefresh, Blacklist, At, Keep
<1>5. CASE StoreRoles(v)
      BY <1>0, <1>5, GivenFits, MapSetFits DEF StoreRoles, At, Keep
<1>6. CASE RemoveSession(v) \/ DropSession(v)
      <2>1. apc[v] = "remove" \/ apc[v] = "find"
            BY <1>6 DEF RemoveSession, DropSession, At
      <2>2. Payload(v).user \in Users
            BY <2>1, TokenFits DEF WorkerFits, KindFits, LogoutSteps, RefreshSteps, Payloads
      <2> QED BY <1>6, <2>2, MapDeleteFits DEF RemoveSession, DropSession, Keep
<1>7. CASE Storing(v)
      <2>1. WorkerFits(v) /\ made' = made
            BY <1>7 DEF Storing, authVars
      <2>2. CASE MapSetWrite(v)
            <3>1. /\ SetRecord(arg[v].name, Updated(snap[v], arg[v].mapping), arg[v].expire)
                  /\ mpc[v] = "setWrite"
                  BY <2>2 DEF MapSetWrite, WriteBack
            <3>2. arg[v].expire \in Nat /\ arg[v].name = Target(v)
                  /\ Fits(Target(v), Updated(snap[v], arg[v].mapping))
                  BY <2>1, <3>1, UpdatedFits DEF WorkerFits, PendingFits
            <3>3. Target(v) \in Names
                  BY <3>2, SessionNamesFit DEF Fits
            <3> QED BY <1>0, <3>1, <3>2, <3>3, <2>1, SetRecordFits
      <2>3. CASE HExpire(v)
            <3>1. /\ mpc[v] = "expire" /\ arg[v].expire \in Nat /\ arg[v].name = Target(v)
                  /\ Fits(Target(v), arg[v].mapping)
                  BY <2>1, <2>3 DEF HExpire, WorkerFits, PendingFits
            <3>2. Target(v) \in Names
                  BY <3>1, SessionNamesFit DEF Fits
            <3>3. Live(Target(v)) => Fits(Target(v), store[Target(v)].map)
                  BY <3>2 DEF Live, StoreFits
            <3>4. \/ store' = store
                  \/ /\ Live(Target(v))
                     /\ Put(Target(v), store[Target(v)].map, now, arg[v].expire)
                  BY <2>3, <3>1 DEF HExpire
            <3> QED BY <1>0, <1>1, <3>1, <3>2, <3>3, <3>4, <2>1, PutFits
      <2>4. CASE MapDeleteWrite(v)
            <3>1. /\ SetRecord(arg[v].name, Without(snap[v], arg[v].key), Absent)
                  /\ mpc[v] = "deleteWrite"
                  BY <2>4 DEF MapDeleteWrite, WriteBack
            <3>2. /\ apc[v] \in {"bye", "dropped"} /\ arg[v].name = SessionsOf(Payload(v).user)
                  /\ HoldsSessions(Without(snap[v], arg[v].key))
                  BY <2>1, <3>1, WithoutFits DEF WorkerFits, PendingFits, Target
            <3>3. Payload(v).user \in Users
                  BY <2>1, <3>2, TokenFits DEF WorkerFits, KindFits, LogoutSteps, RefreshSteps,
                                               Payloads
            <3>4. /\ arg[v].name \in Names /\ Absent \in Nat \cup {Absent}
                  /\ Fits(arg[v].name, Without(snap[v], arg[v].key))
                  BY <3>2, <3>3, SessionNamesFit DEF Fits
            <3> QED BY <1>0, <3>1, <3>4, <2>1, SetRecordFits
      <2> QED BY <1>7, <2>2, <2>3, <2>4 DEF Storing, MapStep
<1>8. CASE Login(v) \/ Access(v) \/ Logout(v) \/ Refresh(v) \/ Done(v)
      <2>1. store' = store
            BY <1>8 DEF Login, Access, Logout, Refresh, Request, BeginRequest, Done,
                        KeepStorage, mapVars
      <2> QED BY <1>1, <2>1
<1>9. CASE CountSessions(v) \/ IssueToken(v) \/ CheckHeader(v) \/ RefuseBurnt(v)
           \/ CheckCachedRoles(v) \/ CheckTokenRoles(v) \/ StoreRolesFails(v) \/ RolesStored(v)
      <2>1. store' = store
            BY <1>9 DEF CountSessions, IssueToken, CheckHeader, RefuseBurnt, CheckCachedRoles,
                        CheckTokenRoles, StoreRolesFails, RolesStored, KeepStorage, mapVars
      <2> QED BY <1>1, <2>1
<1>10. CASE ReadSessions(v) \/ CheckAgain(v) \/ LeaveLdap(v) \/ LeaveKeycloak(v)
            \/ LeaveKeycloakFails(v) \/ NoSession(v) \/ ConfirmLogout(v)
      <2>1. store' = store
            BY <1>10 DEF ReadSessions, CheckAgain, LeaveLdap, LeaveKeycloak, LeaveKeycloakFails,
                         NoSession, ConfirmLogout, KeepStorage, mapVars
      <2> QED BY <1>1, <2>1
<1>11. CASE CheckNotBlacklisted(v) \/ RefuseSession(v) \/ RefuseDropped(v)
            \/ AcceptSession(v) \/ Renew(v) \/ Abort(v)
      <2>1. store' = store
            BY <1>11 DEF CheckNotBlacklisted, RefuseSession, RefuseDropped, AcceptSession, Renew,
                         Abort, KeepStorage, mapVars
      <2> QED BY <1>1, <2>1
<1> QED BY <1>2, <1>3, <1>4, <1>5, <1>6, <1>7, <1>8, <1>9, <1>10, <1>11 DEF Serve

(* Variables other than the store keep their kinds: first those of the     *)
(* storage methods, then those of the requests.                            *)
LEMMA OwnMethod ==
    ASSUME Extends, NEW v \in Workers, Serve(v)
    PROVE  /\ backend' \in {"file", "redis"} /\ now' \in Nat
           /\ mpc' \in [Workers -> {"ready", "setWrite", "expire", "deleteWrite"}]
           /\ arg' = [w \in Workers |-> arg'[w]] /\ snap' = [w \in Workers |-> snap'[w]]
           /\ raced => raced'
<1> DEFINE Goal == /\ mpc' \in [Workers -> {"ready", "setWrite", "expire", "deleteWrite"}]
                   /\ arg' = [w \in Workers |-> arg'[w]]
                   /\ snap' = [w \in Workers |-> snap'[w]]
                   /\ raced => raced'
<1> USE DEF Extends
<1>0. backend' \in {"file", "redis"} /\ now' \in Nat
      BY OwnSteps DEF Grows
<1> SUFFICES Goal
      BY <1>0
<1>1. ASSUME NEW x \in {"setWrite", "expire", "deleteWrite"}, NEW a, NEW m, Begin(v, x, a, m)
      PROVE  Goal
      BY <1>1 DEF Begin
<1>2. ASSUME UNCHANGED <<mpc, arg, snap, raced>> PROVE Goal
      BY <1>2
<1>3. ASSUME End(v), raced => raced' PROVE Goal
      BY <1>3 DEF End
<1>4. ASSUME NEW n, NEW m, NEW e, MapSet(v, n, m, e) PROVE Goal
      BY <1>1, <1>2, <1>4 DEF MapSet, MapSetRead, HSet, Complete
<1>5. ASSUME NEW n, NEW k, MapDelete(v, n, k) PROVE Goal
      BY <1>1, <1>2, <1>5 DEF MapDelete, MapDeleteRead, MapDeleteAbsent, HDel, Complete
<1>6. ASSUME NEW n, Delete(n) PROVE Goal
      BY <1>2, <1>6 DEF Delete
<1>7. ASSUME KeepStorage PROVE Goal
      BY <1>2, <1>7 DEF KeepStorage, mapVars
<1> HIDE DEF Goal
<1>8. CASE Storing(v)
      BY <1>3, <1>8 DEF Storing, MapStep, MapSetWrite, HExpire, MapDeleteWrite, WriteBack
<1>9. CASE Abort(v)
      BY <1>3, <1>9 DEF Abort
<1>10. CASE AddSession(v) \/ Burn(v) \/ RevokeForLogout(v) \/ RevokeForRefresh(v) \/ StoreRoles(v)
      BY <1>4, <1>10 DEF AddSession, Burn, RevokeForLogout, RevokeForRefresh, Blacklist, StoreRoles
<1>11. CASE RemoveSession(v) \/ DropSession(v) \/ WipeSessions(v) \/ RemoveLastSession(v)
      BY <1>5, <1>6, <1>11 DEF RemoveSession, DropSession, WipeSessions, RemoveLastSession
<1>12. CASE Login(v) \/ Access(v) \/ Logout(v) \/ Refresh(v) \/ Done(v)
      BY <1>7, <1>12 DEF Login, Access, Logout, Refresh, Request, BeginRequest, Done
<1>13. CASE CountSessions(v) \/ IssueToken(v) \/ CheckHeader(v) \/ RefuseBurnt(v)
           \/ CheckCachedRoles(v) \/ CheckTokenRoles(v) \/ StoreRolesFails(v) \/ RolesStored(v)
      BY <1>7, <1>13 DEF CountSessions, IssueToken, CheckHeader, RefuseBurnt, CheckCachedRoles,
                        CheckTokenRoles, StoreRolesFails, RolesStored
<1>14. CASE ReadSessions(v) \/ CheckAgain(v) \/ LeaveLdap(v) \/ LeaveKeycloak(v)
            \/ LeaveKeycloakFails(v) \/ NoSession(v) \/ ConfirmLogout(v)
      BY <1>7, <1>14 DEF ReadSessions, CheckAgain, LeaveLdap, LeaveKeycloak, LeaveKeycloakFails,
                         NoSession, ConfirmLogout
<1>15. CASE CheckNotBlacklisted(v) \/ RefuseSession(v) \/ RefuseDropped(v)
            \/ AcceptSession(v) \/ Renew(v)
      BY <1>7, <1>15 DEF CheckNotBlacklisted, RefuseSession, RefuseDropped, AcceptSession, Renew
<1> QED BY <1>8, <1>9, <1>10, <1>11, <1>12, <1>13, <1>14, <1>15 DEF Serve

(* A token that is made is of the kind of the others. *)
LEMMA NewTokenFits ==
    ASSUME Extends, NEW a \in AccessTokens \ Issued, NEW p \in Payloads, NewToken(a, p)
    PROVE  /\ token' \in [AccessTokens -> Payloads \cup {Absent}]
           /\ Issued' = Issued \cup {a}
<1>1. p # Absent
      BY AbsentAssumption
<1> QED BY <1>1 DEF Extends, NewToken, Issued

LEMMA RespondExtends ==
    ASSUME Extends, NEW v \in Workers, NEW x \in Outcomes, NEW dead, NEW out,
           Respond(v, x, dead, out), dead \subseteq Issued, out \subseteq made,
           loggedIn' \subseteq made,
           token' \in [AccessTokens -> Payloads \cup {Absent}], Issued \subseteq Issued'
    PROVE  /\ apc' \in [Workers -> Step]
           /\ req' = [w \in Workers |-> req'[w]] /\ found' = [w \in Workers |-> found'[w]]
           /\ made' \subseteq RefreshTokens /\ keycloak' \subseteq made'
           /\ revoked' \subseteq Issued' /\ loggedIn' \cup loggedOut' \subseteq made'
BY DEF Extends, Respond, To, Outcomes, Step

LEMMA OwnRequest ==
    ASSUME Fit, NEW v \in Workers, Serve(v)
    PROVE  /\ apc' \in [Workers -> Step]
           /\ req' = [w \in Workers |-> req'[w]] /\ found' = [w \in Workers |-> found'[w]]
           /\ token' \in [AccessTokens -> Payloads \cup {Absent}]
           /\ made' \subseteq RefreshTokens /\ keycloak' \subseteq made'
           /\ revoked' \subseteq Issued' /\ loggedIn' \cup loggedOut' \subseteq made'
<1> DEFINE Goal == /\ apc' \in [Workers -> Step]
                   /\ req' = [w \in Workers |-> req'[w]]
                   /\ found' = [w \in Workers |-> found'[w]]
                   /\ token' \in [AccessTokens -> Payloads \cup {Absent}]
                   /\ made' \subseteq RefreshTokens /\ keycloak' \subseteq made'
                   /\ revoked' \subseteq Issued' /\ loggedIn' \cup loggedOut' \subseteq made'
<1> SUFFICES Goal
      OBVIOUS
<1>0. Extends /\ WorkerFits(v)
      BY DEF Fit
<1>1. ASSUME NEW x \in Outcomes, NEW dead, NEW out, Respond(v, x, dead, out),
             dead \subseteq Issued, out \subseteq made, UNCHANGED <<token, loggedIn>>
      PROVE  Goal
      <2>1. /\ Issued \subseteq Issued' /\ token' \in [AccessTokens -> Payloads \cup {Absent}]
            /\ loggedIn' \subseteq made
            BY <1>0, <1>1 DEF Extends, Issued
      <2> QED BY <1>0, <1>1, <2>1, RespondExtends
<1>2. ASSUME Refuse(v) \/ Fail(v) PROVE Goal
      BY <1>1, <1>2 DEF Refuse, Fail, Outcomes
<1>3. ASSUME NEW x \in Step, To(v, x),
             UNCHANGED <<req, token, made, keycloak, revoked, loggedIn, loggedOut>>,
             found' = found \/ \E m : found' = [found EXCEPT ![v] = m]
      PROVE  Goal
      BY <1>0, <1>3 DEF Extends, To, Issued
<1>4. ASSUME NEW x \in Step, To(v, x), Keep PROVE Goal
      BY <1>3, <1>4 DEF Keep
<1>5. ASSUME NEW x \in Step, NEW r, BeginRequest(v, x, r), made' \in {made} \cup SUBSET RefreshTokens,
             made \subseteq made', keycloak' \subseteq made'
      PROVE  Goal
      BY <1>0, <1>5 DEF Extends, BeginRequest, To, Issued
<1>6. req[v].kind \in {"access", "logout", "refresh"} => req[v].access \in Issued /\ req[v].refresh \in made
      BY <1>0 DEF WorkerFits, RequestFits
<1>7. CASE Login(v)
      <2>1. PICK r \in RefreshTokens : /\ \E x : BeginRequest(v, "count", x)
                                       /\ made' = made \cup {r}
                                       /\ keycloak' \subseteq keycloak \cup {r}
            BY <1>7 DEF Login
      <2>2. made' \in SUBSET RefreshTokens /\ made \subseteq made' /\ keycloak' \subseteq made'
            BY <1>0, <2>1 DEF Extends
      <2> HIDE DEF Goal
      <2> QED BY <1>5, <2>1, <2>2 DEF Step
<1>8. CASE Access(v) \/ Logout(v) \/ Refresh(v)
      <2>1. PICK x \in Step : \E r : BeginRequest(v, x, r) /\ UNCHANGED <<made, keycloak>>
            BY <1>8 DEF Access, Logout, Refresh, Request, Step
      <2>2. made' \in {made} /\ keycloak' \subseteq made'
            BY <1>0, <2>1 DEF Extends
      <2> HIDE DEF Goal
      <2> QED BY <1>5, <2>1, <2>2
<1>9. CASE IssueToken(v)
      <2>1. req[v].kind = "login"
            BY <1>0, <1>9 DEF IssueToken, At, WorkerFits, KindFits, LoginSteps
      <2>2. PICK a \in AccessTokens \ Issued, x \in RefreshTokens \cup {Absent} :
                 NewToken(a, [user |-> req[v].user, provider |-> req[v].provider,
                              print |-> req[v].print, exp |-> req[v].exp,
                              roles |-> req[v].roles, refresh |-> x])
            BY <1>9, <2>1, LoginFits DEF IssueToken
      <2>3. [user |-> req[v].user, provider |-> req[v].provider,
             print |-> req[v].print, exp |-> req[v].exp,
             roles |-> req[v].roles, refresh |-> x] \in Payloads
            BY <2>1, LoginFits DEF Payloads
      <2>4. token' \in [AccessTokens -> Payloads \cup {Absent}] /\ Issued \subseteq Issued'
            BY <1>0, <2>2, <2>3, NewTokenFits
      <2>5. Respond(v, "ok", {}, {}) /\ loggedIn' \subseteq made
            BY <1>0, <1>9, <2>1, LoginFits DEF IssueToken, Extends
      <2> QED BY <1>0, <2>4, <2>5, RespondExtends DEF Outcomes
<1>10. CASE Renew(v)
      <2>1. req[v].kind = "refresh"
            BY <1>0, <1>10 DEF Renew, At, WorkerFits, KindFits, RefreshSteps
      <2>2. \A p : now + AccessLifetime(p) \in Nat
            BY <1>0, LifetimesAssumption DEF AccessLifetime, Extends
      <2>3. \A x \in Nat, roles \in TokenRoles :
                [Payload(v) EXCEPT !.exp = x, !.roles = roles] \in Payloads
            BY <2>1, TokenFits DEF Payloads
      <2>4. CASE Fail(v)
            BY <1>2, <2>4
      <2>5. ASSUME NEW a \in AccessTokens \ Issued, NEW roles \in TokenRoles,
                   NewToken(a, [Payload(v) EXCEPT !.exp = now + AccessLifetime(Payload(v).provider),
                                                  !.roles = roles]),
                   Respond(v, "ok", {req[v].access}, {}), UNCHANGED loggedIn
            PROVE  Goal
            <3>1. token' \in [AccessTokens -> Payloads \cup {Absent}] /\ Issued \subseteq Issued'
                  BY <1>0, <2>2, <2>3, <2>5, NewTokenFits
            <3>2. {req[v].access} \subseteq Issued /\ loggedIn' \subseteq made
                  BY <1>0, <1>6, <2>1, <2>5 DEF Extends
            <3> QED BY <1>0, <2>5, <3>1, <3>2, RespondExtends DEF Outcomes
      <2> HIDE DEF Goal
      <2> QED BY <1>10, <2>4, <2>5 DEF Renew
<1>11. CASE RefuseBurnt(v) \/ NoSession(v) \/ ConfirmLogout(v)
      <2>1. req[v].kind \in {"access", "logout", "refresh"}
            BY <1>0, <1>11 DEF RefuseBurnt, NoSession, ConfirmLogout, At, WorkerFits, KindFits,
                               CheckSteps, LogoutSteps
      <2>2. {req[v].access} \subseteq Issued /\ {req[v].refresh} \subseteq made
            BY <1>6, <2>1
      <2>3. {} \subseteq made
            OBVIOUS
      <2> HIDE DEF Goal
      <2> QED BY <1>1, <1>11, <2>2, <2>3 DEF RefuseBurnt, NoSession, ConfirmLogout, Outcomes
<1>12. CASE Storing(v)
      BY <1>0, <1>12 DEF Storing, authVars, Extends, Issued
<1>13. CASE Done(v)
      BY <1>0, <1>13 DEF Done, To, Extends, Issued, Step
<1>14. CASE LeaveKeycloak(v)
      BY <1>0, <1>14 DEF LeaveKeycloak, To, Extends, Issued, Step
<1>15. CASE ReadSessions(v)
      <2>1. CASE Refuse(v) \/ Fail(v)
            BY <1>2, <2>1
      <2>2. CASE ~(Refuse(v) \/ Fail(v))
            <3> HIDE DEF Goal
            <3> QED BY <1>3, <1>15, <2>2 DEF ReadSessions, Step
      <2> QED BY <2>1, <2>2
<1> HIDE DEF Goal
<1>16. CASE CountSessions(v) \/ WipeSessions(v) \/ AddSession(v) \/ StoreRoles(v)
            \/ LeaveLdap(v) \/ AcceptSession(v)
      BY <1>4, <1>16 DEF CountSessions, WipeSessions, AddSession, StoreRoles, LeaveLdap,
                         AcceptSession, Step
<1>17. CASE Burn(v) \/ RevokeForLogout(v) \/ RevokeForRefresh(v) \/ RemoveLastSession(v)
            \/ RemoveSession(v) \/ DropSession(v)
      BY <1>4, <1>17 DEF Burn, RevokeForLogout, RevokeForRefresh, Blacklist, RemoveLastSession,
                         RemoveSession, DropSession, Step
<1>18. CASE CheckHeader(v) \/ CheckAgain(v) \/ CheckTokenRoles(v) \/ CheckNotBlacklisted(v)
      BY <1>2, <1>4, <1>18 DEF CheckHeader, CheckAgain, CheckToken, CheckTokenRoles,
                               CheckNotBlacklisted, Step
<1>19. CASE RolesStored(v) \/ CheckCachedRoles(v)
      BY <1>1, <1>2, <1>4, <1>19 DEF RolesStored, CheckCachedRoles, LetIn, Step, Outcomes
<1>20. CASE StoreRolesFails(v) \/ LeaveKeycloakFails(v) \/ RefuseSession(v) \/ RefuseDropped(v)
            \/ Abort(v)
      BY <1>2, <1>20 DEF StoreRolesFails, LeaveKeycloakFails, RefuseSession, RefuseDropped, Abort
<1> QED BY <1>7, <1>8, <1>9, <1>10, <1>11, <1>12, <1>13, <1>14, <1>15, <1>16, <1>17, <1>18, <1>19,
           <1>20 DEF Serve

LEMMA OwnExtends ==
    ASSUME Fit, NEW v \in Workers, Serve(v)
    PROVE  Extends'
BY OwnMethod, OwnRequest DEF Fit, Extends

-----------------------------------------------------------------------------
(* The worker that moves stays fit.                                        *)
LEMMA OwnKind ==
    ASSUME Fit, NEW v \in Workers, Serve(v)
    PROVE  KindFits(v)'
<1>0. Extends /\ WorkerFits(v) /\ KindFits(v)
      BY DEF Fit, WorkerFits
<1> USE DEF Extends, KindFits, LoginSteps, LogoutSteps, CheckSteps, RefreshSteps, Outcomes
<1>1. ASSUME NEW x, To(v, x), req'[v] = req[v], apc[v] # "idle",
             \/ x \in LoginSteps /\ apc[v] \in LoginSteps
             \/ x \in CheckSteps /\ apc[v] \in CheckSteps
             \/ x \in LogoutSteps /\ req[v].kind = "logout"
             \/ x \in RefreshSteps /\ apc[v] \in RefreshSteps
             \/ x \in Outcomes /\ apc[v] \in Step /\ mpc'[v] = "ready"
      PROVE  KindFits(v)'
      BY <1>0, <1>1 DEF To, Step
<1>2. ASSUME NEW x \in Outcomes, NEW dead, NEW out, Respond(v, x, dead, out), apc[v] # "idle",
             mpc'[v] = "ready"
      PROVE  KindFits(v)'
      BY <1>0, <1>1, <1>2 DEF Respond
<1>3. ASSUME Refuse(v) \/ Fail(v), mpc'[v] = "ready", apc[v] # "idle" PROVE KindFits(v)'
      BY <1>2, <1>3 DEF Refuse, Fail
<1>4. ASSUME NEW x, At(v, x), KeepStorage PROVE mpc'[v] = "ready"
      BY <1>4 DEF At, KeepStorage, mapVars
<1>5. ASSUME NEW x, NEW r, BeginRequest(v, x, r),
             \/ x \in LoginSteps /\ r.kind = "login"
             \/ x \in CheckSteps /\ r.kind \in {"access", "logout"}
             \/ x \in RefreshSteps /\ r.kind = "refresh"
      PROVE  KindFits(v)'
      BY <1>0, <1>5 DEF BeginRequest, To
<1>6. CASE Login(v)
      BY <1>5, <1>6 DEF Login
<1>7. CASE Access(v) \/ Logout(v) \/ Refresh(v)
      BY <1>5, <1>7 DEF Access, Logout, Refresh, Request
<1>8. CASE Storing(v)
      <2>1. mpc'[v] = "ready" /\ UNCHANGED <<apc, req>>
            BY <1>0, <1>8 DEF Storing, authVars, MapStep, MapSetWrite, HExpire, MapDeleteWrite,
                              WriteBack, End
      <2> QED BY <1>0, <2>1
<1>9. CASE Abort(v)
      <2>1. mpc'[v] = "ready"
            BY <1>0, <1>9 DEF Abort, End
      <2> QED BY <1>3, <1>9, <2>1 DEF Abort
<1>10. CASE Done(v)
      BY <1>0, <1>10 DEF Done, To, KeepStorage, mapVars
<1>11. CASE CountSessions(v) \/ WipeSessions(v) \/ AddSession(v)
      BY <1>1, <1>11 DEF CountSessions, WipeSessions, AddSession, At, Keep
<1>12. CASE IssueToken(v)
      BY <1>2, <1>4, <1>12 DEF IssueToken, At
<1>13. CASE CheckHeader(v) \/ CheckTokenRoles(v)
      <2>1. mpc'[v] = "ready" /\ apc[v] # "idle" /\ apc[v] \in CheckSteps
            BY <1>4, <1>13 DEF CheckHeader, CheckTokenRoles, At
      <2>2. Refuse(v) \/ Fail(v) \/ \E x \in {"burn", "cache", "store"} : To(v, x) /\ Keep
            BY <1>13 DEF CheckHeader, CheckTokenRoles, CheckToken
      <2>3. CASE Refuse(v) \/ Fail(v)
            BY <1>3, <2>1, <2>3
      <2> QED BY <1>1, <2>1, <2>2, <2>3 DEF Keep
<1>14. CASE CheckAgain(v)
      <2>1. mpc'[v] = "ready" /\ apc[v] # "idle" /\ req[v].kind = "logout"
            BY <1>0, <1>4, <1>14 DEF CheckAgain, At
      <2>2. Refuse(v) \/ Fail(v) \/ \E x \in {"burn", "leave"} : To(v, x) /\ Keep
            BY <1>14 DEF CheckAgain, CheckToken
      <2>3. CASE Refuse(v) \/ Fail(v)
            BY <1>3, <2>1, <2>3
      <2>4. ASSUME NEW x \in {"burn", "leave"}, To(v, x), Keep PROVE KindFits(v)'
            BY <1>0, <2>1, <2>4 DEF To, Keep
      <2> QED BY <2>2, <2>3, <2>4
<1>15. CASE Burn(v) \/ StoreRoles(v)
      BY <1>1, <1>15 DEF Burn, Blacklist, StoreRoles, At, Keep
<1>16. CASE RefuseBurnt(v) \/ NoSession(v) \/ ConfirmLogout(v)
      BY <1>2, <1>4, <1>16 DEF RefuseBurnt, NoSession, ConfirmLogout, At
<1>17. CASE CheckCachedRoles(v) \/ RolesStored(v)
      <2>1. mpc'[v] = "ready" /\ apc[v] # "idle"
            BY <1>4, <1>17 DEF CheckCachedRoles, RolesStored, At
      <2>2. Refuse(v) \/ LetIn(v)
            BY <1>17 DEF CheckCachedRoles, RolesStored
      <2>3. CASE Refuse(v)
            BY <1>3, <2>1, <2>3
      <2>4. CASE LetIn(v)
            BY <1>1, <1>2, <2>1, <2>4 DEF LetIn, Keep
      <2> QED BY <2>2, <2>3, <2>4
<1>18. CASE StoreRolesFails(v) \/ LeaveKeycloakFails(v) \/ RefuseSession(v) \/ RefuseDropped(v)
      BY <1>3, <1>4, <1>18 DEF StoreRolesFails, LeaveKeycloakFails, RefuseSession, RefuseDropped, At
<1>19. CASE ReadSessions(v)
      <2>1. mpc'[v] = "ready" /\ apc[v] # "idle" /\ req[v].kind = "logout"
            BY <1>0, <1>4, <1>19 DEF ReadSessions, At
      <2>2. Refuse(v) \/ Fail(v) \/ (To(v, "recheck") /\ req' = req)
            BY <1>19 DEF ReadSessions
      <2> QED BY <1>1, <1>3, <2>1, <2>2
<1>20. CASE LeaveLdap(v) \/ LeaveKeycloak(v) \/ RevokeForLogout(v) \/ RemoveLastSession(v)
            \/ RemoveSession(v)
      <2>1. apc[v] \in LogoutSteps
            BY <1>20 DEF LeaveLdap, LeaveKeycloak, RevokeForLogout, Blacklist,
                         RemoveLastSession, RemoveSession, At
      <2>2. \E x \in LogoutSteps : To(v, x) /\ req' = req
            BY <1>20 DEF LeaveLdap, LeaveKeycloak, RevokeForLogout, Blacklist,
                         RemoveLastSession, RemoveSession, Keep
      <2>3. req[v].kind = "logout" /\ apc[v] # "idle"
            BY <1>0, <2>1
      <2> QED BY <1>1, <2>2, <2>3
<1>21. CASE CheckNotBlacklisted(v)
      <2>1. mpc'[v] = "ready" /\ apc[v] # "idle" /\ apc[v] \in RefreshSteps
            BY <1>4, <1>21 DEF CheckNotBlacklisted, At
      <2> QED BY <1>1, <1>3, <1>21, <2>1 DEF CheckNotBlacklisted, Keep
<1>22. CASE DropSession(v) \/ AcceptSession(v) \/ RevokeForRefresh(v)
      BY <1>1, <1>22 DEF DropSession, AcceptSession, RevokeForRefresh, Blacklist, At, Keep
<1>23. CASE Renew(v)
      <2>1. mpc'[v] = "ready" /\ apc[v] # "idle"
            BY <1>4, <1>23 DEF Renew, At
      <2>2. Fail(v) \/ Respond(v, "ok", {req[v].access}, {})
            BY <1>23 DEF Renew
      <2> QED BY <1>2, <1>3, <2>1, <2>2
<1> QED BY <1>6, <1>7, <1>8, <1>9, <1>10, <1>11, <1>12, <1>13, <1>14, <1>15, <1>16, <1>17, <1>18,
           <1>19, <1>20, <1>21, <1>22, <1>23 DEF Serve

LEMMA OwnRequestFits ==
    ASSUME Fit, NEW v \in Workers, Serve(v)
    PROVE  RequestFits(v)'
<1>0. Extends /\ KindFits(v) /\ RequestFits(v) /\ now' = now /\ Grows
      BY OwnSteps DEF Fit, WorkerFits
<1> DEFINE Later == {"recheck", "leave", "revoke", "remove"}
<1>1. ASSUME req'[v] = req[v], apc[v] # "idle",
             apc'[v] \in Later => HoldsSessions(found[v])'
      PROVE  RequestFits(v)'
      BY <1>0, <1>1 DEF RequestFits, Grows, HoldsSessions
<1>2. ASSUME NEW x, To(v, x), req' = req, found' = found, apc[v] # "idle",
             x \in Later => apc[v] \in Later
      PROVE  RequestFits(v)'
      BY <1>0, <1>1, <1>2 DEF To, Extends, RequestFits, HoldsSessions, Grows
<1>3. ASSUME NEW x \in Outcomes, NEW dead, NEW out, Respond(v, x, dead, out), apc[v] # "idle"
      PROVE  RequestFits(v)'
      BY <1>2, <1>3 DEF Respond, Outcomes
<1>4. ASSUME Refuse(v) \/ Fail(v), apc[v] # "idle" PROVE RequestFits(v)'
      BY <1>3, <1>4 DEF Refuse, Fail, Outcomes
<1>5. CASE Login(v)
      <2>1. PICK u \in Users, f \in Prints, p \in Providers, roles \in TokenRoles,
                 r \in RefreshTokens \ made :
              /\ BeginRequest(v, "count",
                   [kind |-> "login", user |-> u, print |-> f, provider |-> p,
                    roles |-> roles, refresh |-> r, exp |-> now + AccessLifetime(p),
                    start |-> now])
              /\ made' = made \cup {r}
            BY <1>5 DEF Login
      <2>2. now + AccessLifetime(p) \in Nat /\ now \in Nat /\ WorkerTimeout \in Nat
            BY <1>0, LifetimesAssumption DEF AccessLifetime, Extends
      <2>3. /\ req'[v] = [kind |-> "login", user |-> u, print |-> f, provider |-> p,
                          roles |-> roles, refresh |-> r, exp |-> now + AccessLifetime(p),
                          start |-> now]
            /\ apc'[v] = "count"
            BY <1>0, <2>1 DEF BeginRequest, To, Extends
      <2> QED BY <1>0, <2>1, <2>2, <2>3 DEF RequestFits
<1>6. CASE Access(v) \/ Logout(v) \/ Refresh(v)
      <2>1. PICK x \in {"check", "blacklist"}, kind \in {"access", "logout", "refresh"},
                 a \in Issued, r \in made, f \in Prints, role \in UNION TokenRoles :
              /\ BeginRequest(v, x, [kind |-> kind, access |-> a, refresh |-> r, print |-> f,
                        role |-> role, start |-> now,
                        lateAccess |-> a \in revoked, lateRefresh |-> r \in loggedOut])
              /\ UNCHANGED made
            BY <1>6 DEF Access, Logout, Refresh, Request
      <2>2. now \in Nat /\ WorkerTimeout \in Nat
            BY <1>0, LifetimesAssumption DEF Extends
      <2>3. /\ req'[v] = [kind |-> kind, access |-> a, refresh |-> r, print |-> f,
                        role |-> role, start |-> now,
                        lateAccess |-> a \in revoked, lateRefresh |-> r \in loggedOut]
            /\ apc'[v] = x
            BY <1>0, <2>1 DEF BeginRequest, To, Extends
      <2>4. a \in Issued' /\ revoked' = revoked /\ loggedOut' = loggedOut /\ x \notin Later
            BY <1>0, <2>1 DEF Grows, BeginRequest
      <2>5. /\ req'[v].kind = kind /\ req'[v].access = a /\ req'[v].refresh = r
            /\ req'[v].print = f /\ req'[v].start = now
            /\ req'[v].lateAccess = (a \in revoked) /\ req'[v].lateRefresh = (r \in loggedOut)
            BY <2>3
      <2>6. r \in made' /\ now' = now /\ apc'[v] \notin Later /\ req'[v].kind # "login"
            BY <1>0, <2>1, <2>3, <2>4, <2>5 DEF Grows
      <2>7. req'[v].start \in Nat /\ req'[v].start <= now' /\ now' <= req'[v].start + WorkerTimeout
            BY <2>2, <2>5, <2>6
      <2>8. /\ req'[v].lateAccess => req'[v].access \in revoked'
            /\ req'[v].lateRefresh => req'[v].refresh \in loggedOut'
            BY <2>4, <2>5
      <2>9. req'[v].access \in Issued' /\ req'[v].refresh \in made' /\ req'[v].print \in Prints
            BY <2>4, <2>5, <2>6
      <2> QED BY <2>6, <2>7, <2>8, <2>9 DEF RequestFits
<1>7. CASE Storing(v)
      <2>1. apc[v] # "idle"
            BY <1>0, <1>7 DEF Storing, MapStep, MapSetWrite, HExpire, MapDeleteWrite, KindFits
      <2>2. UNCHANGED <<apc, req, found>>
            BY <1>7 DEF Storing, authVars
      <2>3. made' = made
            BY <1>7 DEF Storing, authVars
      <2> QED BY <1>0, <1>1, <2>1, <2>2, <2>3 DEF RequestFits, HoldsSessions
<1>8. CASE Done(v)
      <2>1. apc'[v] = "idle" /\ req'[v] = NoRequest
            BY <1>0, <1>8 DEF Done, To, Extends
      <2> QED BY <2>1 DEF RequestFits, NoRequest
<1>9. CASE Abort(v)
      BY <1>4, <1>9 DEF Abort
<1>10. CASE CountSessions(v) \/ WipeSessions(v) \/ AddSession(v) \/ StoreRoles(v) \/ AcceptSession(v)
      BY <1>2, <1>10 DEF CountSessions, WipeSessions, AddSession, StoreRoles, AcceptSession, At, Keep
<1>11. CASE LeaveLdap(v) \/ LeaveKeycloak(v)
      BY <1>2, <1>11 DEF LeaveLdap, LeaveKeycloak, At, Keep
<1>12. CASE Burn(v) \/ RevokeForLogout(v) \/ RevokeForRefresh(v) \/ RemoveLastSession(v)
            \/ RemoveSession(v) \/ DropSession(v)
      BY <1>2, <1>12 DEF Burn, RevokeForLogout, RevokeForRefresh, Blacklist, RemoveLastSession,
                         RemoveSession, DropSession, At, Keep
<1>13. CASE CheckHeader(v) \/ CheckAgain(v) \/ CheckTokenRoles(v) \/ CheckNotBlacklisted(v)
      BY <1>2, <1>4, <1>13 DEF CheckHeader, CheckAgain, CheckToken, CheckTokenRoles,
                               CheckNotBlacklisted, At, Keep
<1>14. CASE RolesStored(v) \/ CheckCachedRoles(v)
      BY <1>2, <1>3, <1>4, <1>14 DEF RolesStored, CheckCachedRoles, LetIn, At, Keep, Outcomes
<1>15. CASE StoreRolesFails(v) \/ LeaveKeycloakFails(v) \/ RefuseSession(v) \/ RefuseDropped(v)
      BY <1>4, <1>15 DEF StoreRolesFails, LeaveKeycloakFails, RefuseSession, RefuseDropped, At
<1>16. CASE IssueToken(v) \/ RefuseBurnt(v) \/ NoSession(v) \/ ConfirmLogout(v)
      BY <1>3, <1>16 DEF IssueToken, RefuseBurnt, NoSession, ConfirmLogout, At, Outcomes
<1>17. CASE Renew(v)
      <2>1. apc[v] # "idle" /\ (Fail(v) \/ Respond(v, "ok", {req[v].access}, {}))
            BY <1>17 DEF Renew, At
      <2> QED BY <1>3, <1>4, <2>1 DEF Outcomes
<1>18. CASE ReadSessions(v)
      <2>1. apc[v] # "idle" /\ req[v].kind \in {"access", "logout", "refresh"}
            BY <1>0, <1>18 DEF ReadSessions, At, KindFits, LogoutSteps
      <2>2. CASE Refuse(v) \/ Fail(v)
            BY <1>4, <2>1, <2>2
      <2>3. CASE ~(Refuse(v) \/ Fail(v))
            <3>1. /\ found' = [found EXCEPT ![v] = MapOf(SessionsOf(Payload(v).user))]
                  /\ req' = req /\ made' = made
                  BY <1>18, <2>3 DEF ReadSessions
            <3>2. HoldsSessions(found'[v])
                  BY <1>0, <2>1, <3>1, SessionsFit, TokenFits DEF Extends, Payloads, Fit
            <3>3. HoldsSessions(found[v])'
                  BY <3>1, <3>2 DEF HoldsSessions
            <3> QED BY <1>1, <2>1, <3>1, <3>3
      <2> QED BY <2>2, <2>3
<1> QED BY <1>5, <1>6, <1>7, <1>8, <1>9, <1>10, <1>11, <1>12, <1>13, <1>14, <1>15, <1>16, <1>17,
           <1>18 DEF Serve

(* A method that has begun has its own arguments. *)
LEMMA OwnPending ==
    ASSUME Fit, NEW v \in Workers, Serve(v)
    PROVE  PendingFits(v)'
<1>0. /\ Extends /\ KindFits(v) /\ RequestFits(v) /\ StoreFits /\ now' = now /\ Grows
      /\ KindFits(v)' /\ RequestFits(v)'
      BY OwnSteps, OwnKind, OwnRequestFits DEF Fit, WorkerFits
<1>1. CASE mpc'[v] = "ready"
      BY <1>1 DEF PendingFits
<1>2. ASSUME NEW x \in {"issue", "stored", "burnt", "remove", "renew"}, To(v, x), Keep,
             NEW n \in Names, NEW m, NEW e \in Nat, Fits(n, m), MapSet(v, n, m, e),
             n = Target(v)', x = "stored" => backend = "file"
      PROVE  PendingFits(v)'
      <2>1. apc'[v] = x
            BY <1>0, <1>2 DEF To, Extends
      <2>2. CASE MapSetRead(v, n, m, e)
            <3>1. /\ mpc'[v] = "setWrite" /\ arg'[v] = [name |-> n, mapping |-> m, expire |-> e]
                  /\ snap'[v] = MapOf(n) /\ backend' = "file"
                  BY <1>0, <2>2 DEF MapSetRead, Begin, Extends
            <3>2. snap'[v] = Nothing \/ Fits(n, snap'[v])
                  BY <1>0, <3>1, MapOfFits
            <3> QED BY <1>2, <2>1, <3>1, <3>2 DEF PendingFits, Fits, HoldsSessions, Keep
      <2>3. CASE HSet(v, n, m, e)
            <3>1. e # Absent
                  BY AbsentAssumption
            <3>2. /\ mpc'[v] = "expire" /\ arg'[v] = [name |-> n, mapping |-> m, expire |-> e]
                  /\ backend' = "redis" /\ backend = "redis"
                  BY <1>0, <2>3, <3>1 DEF HSet, Begin, Extends
            <3> QED BY <1>2, <2>1, <3>2 DEF PendingFits, Fits, HoldsSessions, Keep
      <2> QED BY <1>2, <2>2, <2>3 DEF MapSet
<1>3. ASSUME NEW x \in {"bye", "dropped"}, To(v, x), Keep, Payload(v).user \in Users,
             MapDelete(v, SessionsOf(Payload(v).user), req[v].refresh)
      PROVE  PendingFits(v)'
      <2> DEFINE n == SessionsOf(Payload(v).user)
      <2>1. apc'[v] = x /\ Target(v)' = n /\ req'[v] = req[v]
            BY <1>0, <1>3 DEF To, Extends, Keep, Target, Payload
      <2>2. CASE MapDeleteRead(v, n, req[v].refresh)
            <3>1. /\ mpc'[v] = "deleteWrite" /\ arg'[v] = [name |-> n, key |-> req[v].refresh]
                  /\ snap'[v] = MapOf(n) /\ backend' = "file"
                  BY <1>0, <2>2 DEF MapDeleteRead, Begin, Extends
            <3>2. HoldsSessions(snap'[v])
                  BY <1>0, <1>3, <3>1, SessionsFit
            <3>3. made' = made
                  BY <1>3 DEF Keep
            <3> HIDE DEF n
            <3> QED BY <2>1, <3>1, <3>2, <3>3 DEF PendingFits, HoldsSessions
      <2>3. CASE ~MapDeleteRead(v, n, req[v].refresh)
            BY <1>1, <1>3, <2>3 DEF MapDelete, MapDeleteAbsent, HDel, Complete
      <2> QED BY <2>2, <2>3
<1>4. CASE AddSession(v)
      <2>1. RefreshLifetime(req[v].provider) \in Nat
            BY LifetimesAssumption DEF RefreshLifetime
      <2>2. Target(v)' = SessionsOf(req[v].user)
            BY <1>0, <1>4 DEF AddSession, To, Keep, Target, Extends
      <2> QED BY <1>2, <1>4, <2>1, <2>2, GivenFits DEF AddSession, At
<1>5. CASE Burn(v) \/ RevokeForLogout(v) \/ RevokeForRefresh(v)
      <2>1. PICK x \in {"burnt", "remove", "renew"} :
                 To(v, x) /\ Keep /\ apc[v] \in {"burn", "revoke", "replace"}
                 /\ MapSet(v, Blacklisted(req[v].access), Field("expires_at", Payload(v).exp),
                           EXPIRES_ACCESS_TOKEN)
            BY <1>5 DEF Burn, RevokeForLogout, RevokeForRefresh, Blacklist, At
      <2>2. Target(v)' = Blacklisted(req[v].access)
            BY <1>0, <2>1 DEF To, Keep, Target, Extends
      <2>3. EXPIRES_ACCESS_TOKEN \in Nat
            BY LifetimesAssumption
      <2> QED BY <1>2, <2>1, <2>2, <2>3, GivenFits
<1>6. CASE StoreRoles(v)
      <2>1. Target(v)' = RolesOf(Payload(v).user)
            BY <1>0, <1>6 DEF StoreRoles, To, Keep, Target, Extends, Payload
      <2>2. Payload(v).exp \in Nat /\ now \in Nat
            BY <1>0, <1>6, TokenFits DEF StoreRoles, At, KindFits, CheckSteps, Payloads
      <2>3. (IF Payload(v).exp > now THEN Payload(v).exp - now ELSE 1) \in Nat
            BY <2>2
      <2> QED BY <1>2, <1>6, <2>1, <2>3, GivenFits DEF StoreRoles, At
<1>7. CASE RemoveSession(v) \/ DropSession(v)
      <2>1. Payload(v).user \in Users
            BY <1>0, <1>7, TokenFits DEF RemoveSession, DropSession, At, KindFits, LogoutSteps,
                                         RefreshSteps, Payloads
      <2> QED BY <1>3, <1>7, <2>1 DEF RemoveSession, DropSession
<1>8. CASE Storing(v) \/ Abort(v)
      <2>1. mpc'[v] = "ready"
            BY <1>0, <1>8 DEF Storing, MapStep, MapSetWrite, HExpire, MapDeleteWrite, WriteBack,
                              End, Abort, Extends
      <2> QED BY <1>1, <2>1
<1>9. CASE Login(v) \/ Access(v) \/ Logout(v) \/ Refresh(v) \/ Done(v)
      <2>1. mpc'[v] = mpc[v] /\ mpc[v] = "ready"
            BY <1>0, <1>9 DEF Login, Access, Logout, Refresh, Request, BeginRequest, Done, KindFits,
                              KeepStorage, mapVars, Outcomes
      <2> QED BY <1>1, <2>1
<1>10. CASE WipeSessions(v) \/ RemoveLastSession(v)
      BY <1>1, <1>10 DEF WipeSessions, RemoveLastSession, Delete, At
<1>11. ASSUME NEW x, At(v, x), KeepStorage PROVE PendingFits(v)'
      BY <1>1, <1>11 DEF At, KeepStorage, mapVars
<1>12. CASE CountSessions(v) \/ IssueToken(v) \/ CheckHeader(v) \/ RefuseBurnt(v)
           \/ CheckCachedRoles(v) \/ CheckTokenRoles(v) \/ StoreRolesFails(v) \/ RolesStored(v)
      BY <1>11, <1>12 DEF CountSessions, IssueToken, CheckHeader, RefuseBurnt, CheckCachedRoles,
                          CheckTokenRoles, StoreRolesFails, RolesStored
<1>13. CASE ReadSessions(v) \/ CheckAgain(v) \/ LeaveLdap(v) \/ LeaveKeycloak(v)
            \/ LeaveKeycloakFails(v) \/ NoSession(v) \/ ConfirmLogout(v)
      BY <1>11, <1>13 DEF ReadSessions, CheckAgain, LeaveLdap, LeaveKeycloak,
                          LeaveKeycloakFails, NoSession, ConfirmLogout
<1>14. CASE CheckNotBlacklisted(v) \/ RefuseSession(v) \/ RefuseDropped(v)
            \/ AcceptSession(v) \/ Renew(v)
      BY <1>11, <1>14 DEF CheckNotBlacklisted, RefuseSession, RefuseDropped, AcceptSession, Renew
<1> QED BY <1>4, <1>5, <1>6, <1>7, <1>8, <1>9, <1>10, <1>12, <1>13, <1>14 DEF Serve

-----------------------------------------------------------------------------
(* The workers that do not move stay fit. *)
LEMMA OthersFit ==
    ASSUME Extends, NEW w \in Workers, WorkerFits(w), Same(w), Grows, now' \in Nat, now <= now',
           apc[w] # "idle" => now' <= req[w].start + WorkerTimeout
    PROVE  WorkerFits(w)'
<1>1. KindFits(w)'
      BY DEF WorkerFits, KindFits, Same
<1>2. RequestFits(w)'
      <2>1. now \in Nat /\ WorkerTimeout \in Nat
            BY LifetimesAssumption DEF Extends
      <2>2. HoldsSessions(found[w]) => HoldsSessions(found[w])'
            BY DEF Same, Grows, HoldsSessions
      <2> QED BY <2>1, <2>2 DEF WorkerFits, RequestFits, Same, Grows
<1>3. PendingFits(w)'
      <2>1. mpc[w] # "ready" => apc[w] \in {"issue"} \/ Payload(w)' = Payload(w)
            <3>1. CASE mpc[w] \in {"setWrite", "expire", "deleteWrite"} /\ apc[w] # "issue"
                  <4>1. req[w].kind \in {"access", "logout", "refresh"}
                        BY <3>1 DEF WorkerFits, KindFits, PendingFits, CheckSteps, LogoutSteps,
                                    RefreshSteps
                  <4> QED BY <4>1 DEF WorkerFits, RequestFits, Payload, Same, Grows
            <3> QED BY <3>1 DEF Extends
      <2>2. mpc[w] # "ready" => Target(w)' = Target(w)
            BY <2>1 DEF Target, Same
      <2>3. HoldsSessions(snap[w]) => HoldsSessions(snap[w])'
            BY DEF Same, Grows, HoldsSessions
      <2>4. mpc[w] # "ready" => /\ Fits(Target(w), snap[w]) => Fits(Target(w), snap[w])'
                                /\ Fits(Target(w), arg[w].mapping)
                                       => Fits(Target(w), arg[w].mapping)'
            BY <2>2 DEF Same, Grows, Fits, HoldsSessions
      <2> QED BY <2>2, <2>3, <2>4 DEF WorkerFits, PendingFits, Same, Grows, Extends
<1> QED BY <1>1, <1>2, <1>3 DEF WorkerFits

LEMMA NextFits == Fit /\ [Next]_vars => Fit'
<1> SUFFICES ASSUME Fit, [Next]_vars PROVE Fit'
      OBVIOUS
<1>0. now \in Nat
      BY DEF Fit, Extends
<1>1. ASSUME NEW v \in Workers, Serve(v) PROVE Fit'
      <2>1. \A w \in Workers \ {v} : Same(w)
            BY <1>1, OwnSteps DEF Fit
      <2>2. now' = now /\ Grows
            BY <1>1, OwnSteps DEF Fit
      <2>3. \A w \in Workers \ {v} : WorkerFits(w)'
            BY <1>0, <2>1, <2>2, OthersFit DEF Fit, WorkerFits, RequestFits
      <2>4. WorkerFits(v)'
            BY <1>1, OwnKind, OwnRequestFits, OwnPending DEF WorkerFits
      <2> QED BY <1>1, <2>3, <2>4, OwnStore, OwnExtends DEF Fit
<1>2. ASSUME now' \in Nat, now <= now', UNCHANGED <<backend, mpc, arg, snap>>,
             UNCHANGED <<token, made, apc, req, found, revoked, loggedIn, loggedOut>>,
             keycloak' \subseteq keycloak, StoreFits',
             \A w \in Workers : apc[w] # "idle" => now' <= req[w].start + WorkerTimeout
      PROVE  Fit'
      <2>1. Extends'
            BY <1>2 DEF Fit, Extends, Issued
      <2>2. Grows /\ \A w \in Workers : Same(w)
            BY <1>2 DEF Grows, Same, Issued
      <2>3. \A w \in Workers : WorkerFits(w)'
            BY <1>2, <2>2, OthersFit DEF Fit
      <2> QED BY <1>2, <2>1, <2>3 DEF Fit
<1>3. \A w \in Workers : apc[w] # "idle" => now <= req[w].start + WorkerTimeout
      BY DEF Fit, WorkerFits, RequestFits
<1>4. CASE CloseKeycloakSession
      <2>1. StoreFits'
            BY <1>4 DEF CloseKeycloakSession, KeepStorage, mapVars, Fit, StoreFits, Fits, HoldsSessions
      <2> QED BY <1>0, <1>2, <1>3, <1>4, <2>1 DEF CloseKeycloakSession, KeepStorage, mapVars
<1>5. CASE Expire
      <2>1. StoreFits'
            BY <1>5, DeleteFits DEF Expire, RedisExpire, authVars, Fit
      <2> QED BY <1>0, <1>2, <1>3, <1>5, <2>1 DEF Expire, RedisExpire, authVars
<1>6. CASE Tick
      <2>1. StoreFits'
            BY <1>6 DEF Tick, MapTick, authVars, Fit, StoreFits, Fits, HoldsSessions
      <2>2. \A w \in Workers : apc[w] # "idle" => now' <= req[w].start + WorkerTimeout
            BY <1>0, <1>6, LifetimesAssumption DEF Tick, MapTick, Fit, WorkerFits, RequestFits
      <2> QED BY <1>0, <1>2, <1>6, <2>1, <2>2 DEF Tick, MapTick, authVars
<1>7. CASE UNCHANGED vars
      <2>1. StoreFits'
            BY <1>7 DEF vars, mapVars, authVars, Fit, StoreFits, Fits, HoldsSessions
      <2> QED BY <1>0, <1>2, <1>3, <1>7, <2>1 DEF vars, mapVars, authVars
<1> QED BY <1>1, <1>4, <1>5, <1>6, <1>7 DEF Next

LEMMA InitFits == Init => Fit
<1> SUFFICES ASSUME Init PROVE Fit
      OBVIOUS
<1>1. StoreFits
      BY DEF Init, MapInit, StoreFits
<1>2. Extends
      BY BackendsAssumption DEF Init, MapInit, Extends, Step, Issued
<1>3. \A w \in Workers : WorkerFits(w)
      BY DEF Init, MapInit, WorkerFits, KindFits, RequestFits, PendingFits, LoginSteps, LogoutSteps,
             CheckSteps, RefreshSteps, Outcomes, NoRequest
<1> QED BY <1>1, <1>2, <1>3 DEF Fit

(* Every worker is in a request its place belongs to, and every mapping is *)
(* of its kind, in every state.                                            *)
THEOREM FitHolds == Spec => []Fit
BY InitFits, NextFits, PTL DEF Spec

(* TypeOK in every reachable state. *)
THEOREM AuthTypeCorrect == Spec => []TypeOK
<1>1. Fit => TypeOK
      <2> SUFFICES ASSUME Fit PROVE TypeOK
            OBVIOUS
      <2>1. \A u \in Users : DOMAIN Sessions(u) \subseteq made
            BY SessionsFit DEF Fit, Sessions, HoldsSessions
      <2> QED BY <2>1 DEF TypeOK, Fit, Extends, WorkerFits, KindFits
<1> QED BY <1>1, FitHolds, PTL
=============================================================================
