-------------------------- MODULE AuthTokensProofs --------------------------
(***************************************************************************)
(* An access token that was declared dead lets nobody in, the roles cached *)
(* for a user do not outlive the token they come from, sessions are not    *)
(* dropped before their time, and a refresh token that was logged out is   *)
(* refused: proofs for any workers, users and tokens, any lifetimes and    *)
(* number of requests.                                                     *)
(***************************************************************************)
EXTENDS AuthSessionsProofs

(* Which action leaves a place, and which arrives at one. *)
LEMMA Places ==
    ASSUME Extends, NEW v \in Workers, Serve(v)
    PROVE  /\ apc[v] = "check" => CheckHeader(v) \/ Abort(v) \/ Storing(v)
           /\ apc[v] = "blacklist" => CheckNotBlacklisted(v) \/ Abort(v) \/ Storing(v)
           /\ apc[v] \in Outcomes => Done(v) \/ Storing(v)
           /\ apc'[v] = "cache" => CheckHeader(v) \/ Storing(v)
           /\ apc'[v] = "store" => CheckTokenRoles(v) \/ Storing(v)
           /\ apc'[v] = "stored" => StoreRoles(v) \/ Storing(v)
           /\ apc'[v] \in {"burnt", "remove", "renew"} =>
                 Burn(v) \/ RevokeForLogout(v) \/ RevokeForRefresh(v) \/ Storing(v)
           /\ apc'[v] = "dropped" => DropSession(v) \/ Storing(v)
           /\ apc'[v] = "bye" => RemoveLastSession(v) \/ RemoveSession(v) \/ Storing(v)
           /\ apc'[v] \in {"count", "wipe", "add", "issue"} =>
                 \/ Login(v) \/ Storing(v)
                 \/ apc[v] \in {"count", "wipe", "add"} /\ (apc'[v] = "issue" => AddSession(v))
           /\ apc[v] = "find" =>
                 RefuseSession(v) \/ DropSession(v) \/ AcceptSession(v) \/ Abort(v) \/ Storing(v)
           /\ found'[v] = found[v] \/ ReadSessions(v) \/ Done(v)
           /\ \/ req'[v] = req[v] /\ apc[v] # "idle"
              \/ Storing(v)
              \/ Done(v) /\ apc'[v] = "idle" /\ req'[v] = NoRequest
              \/ Login(v) /\ apc'[v] = "count"
              \/ (Access(v) \/ Logout(v)) /\ apc'[v] = "check"
              \/ Refresh(v) /\ apc'[v] = "blacklist"
           /\ \/ revoked' = revoked
              \/ /\ revoked' = revoked \cup {req[v].access}
                 /\ apc[v] \in {"burnt", "remove", "bye", "renew"} /\ mpc[v] = "ready"
           /\ loggedIn' = loggedIn \/ IssueToken(v)
           /\ loggedOut' = loggedOut \/ ConfirmLogout(v)
           /\ token' = token \/ IssueToken(v) \/ Renew(v)
<1> USE DEF Extends, Outcomes
<1>1. CASE Login(v)
      <2>1. /\ apc[v] = "idle" /\ apc' = [apc EXCEPT ![v] = "count"]
            /\ UNCHANGED <<token, found, revoked, loggedIn, loggedOut>>
            BY <1>1 DEF Login, BeginRequest, To
      <2>2. apc'[v] = "count"
            BY <2>1
      <2> QED BY <1>1, <2>1, <2>2
<1>2. CASE Access(v) \/ Logout(v) \/ Refresh(v)
      BY <1>2 DEF Access, Logout, Refresh, Request, BeginRequest, To
<1>3. CASE CountSessions(v) \/ WipeSessions(v) \/ AddSession(v)
      BY <1>3 DEF CountSessions, WipeSessions, AddSession, At, To, Keep
<1>4. CASE IssueToken(v) \/ RefuseBurnt(v) \/ NoSession(v) \/ ConfirmLogout(v)
      BY <1>4 DEF IssueToken, RefuseBurnt, NoSession, ConfirmLogout, Respond, At, To
<1>5. CASE CheckHeader(v) \/ CheckAgain(v)
      BY <1>5 DEF CheckHeader, CheckAgain, CheckToken, Refuse, Fail, Respond, At, To, Keep
<1>6. CASE Burn(v) \/ RevokeForLogout(v) \/ RevokeForRefresh(v)
      BY <1>6 DEF Burn, RevokeForLogout, RevokeForRefresh, Blacklist, At, To, Keep
<1>7. CASE CheckCachedRoles(v) \/ RolesStored(v)
      BY <1>7 DEF CheckCachedRoles, RolesStored, LetIn, Refuse, Respond, At, To, Keep
<1>8. CASE CheckTokenRoles(v) \/ CheckNotBlacklisted(v)
      BY <1>8 DEF CheckTokenRoles, CheckNotBlacklisted, Refuse, Respond, At, To, Keep
<1>9. CASE StoreRoles(v) \/ LeaveLdap(v) \/ LeaveKeycloak(v)
      BY <1>9 DEF StoreRoles, LeaveLdap, LeaveKeycloak, At, To, Keep
<1>10. CASE StoreRolesFails(v) \/ LeaveKeycloakFails(v) \/ RefuseSession(v) \/ RefuseDropped(v)
      BY <1>10 DEF StoreRolesFails, LeaveKeycloakFails, RefuseSession, RefuseDropped, Refuse, Fail,
                   Respond, At, To
<1>11. CASE ReadSessions(v)
      BY <1>11 DEF ReadSessions, Refuse, Fail, Respond, At, To
<1>12. CASE RemoveLastSession(v) \/ RemoveSession(v) \/ DropSession(v) \/ AcceptSession(v)
      BY <1>12 DEF RemoveLastSession, RemoveSession, DropSession, AcceptSession, At, To, Keep
<1>13. CASE Renew(v)
      <2>1. /\ apc[v] = "renew" /\ mpc[v] = "ready"
            /\ Fail(v) \/ Respond(v, "ok", {req[v].access}, {})
            /\ loggedIn' = loggedIn
            BY <1>13 DEF Renew, At, Fail
      <2> QED BY <1>13, <2>1 DEF Fail, Respond, To
<1>14. CASE Abort(v)
      BY <1>14 DEF Abort, Fail, Respond, To
<1>15. CASE Done(v)
      BY <1>15 DEF Done, To
<1>16. CASE Storing(v)
      BY <1>16 DEF Storing, authVars
<1> QED BY <1>1, <1>2, <1>3, <1>4, <1>5, <1>6, <1>7, <1>8, <1>9, <1>10, <1>11, <1>12, <1>13, <1>14,
           <1>15, <1>16 DEF Serve

(* Which actions write a mapping, and which. *)
LEMMA WriteSites ==
    ASSUME Fit, NEW v \in Workers, Serve(v), NEW n \in Names, store'[n] # store[n]
    PROVE  \/ \E u \in Users : n = SessionsOf(u)
           \/ /\ Burn(v) \/ RevokeForLogout(v) \/ RevokeForRefresh(v)
              /\ n = Blacklisted(req[v].access) /\ req[v].access \in Issued
              /\ HSet(v, n, Field("expires_at", Payload(v).exp), EXPIRES_ACCESS_TOKEN)
           \/ /\ MapSetWrite(v) \/ HExpire(v)
              /\ n = Target(v)
<1>0. Extends /\ StoreFits /\ WorkerFits(v)
      BY DEF Fit
<1>1. ASSUME NEW k, store' = [store EXCEPT ![k] = store'[k]] PROVE n = k
      BY <1>0, <1>1 DEF StoreFits
<1>2. ASSUME NEW k, NEW m, NEW x, NEW y, Put(k, m, x, y) PROVE n = k
      BY <1>0, <1>2 DEF Put, StoreFits
<1>3. ASSUME NEW k, Delete(k) PROVE n = k
      BY <1>0, <1>3 DEF Delete, StoreFits
<1>4. ASSUME NEW k, NEW m, NEW e, MapSet(v, k, m, e) PROVE n = k /\ HSet(v, k, m, e)
      BY <1>0, <1>2, <1>4 DEF MapSet, MapSetRead, HSet
<1>5. ASSUME NEW k, NEW x, MapDelete(v, k, x) PROVE n = k
      BY <1>0, <1>2, <1>5 DEF MapDelete, MapDeleteRead, MapDeleteAbsent, HDel, StoreFits
<1>6. req[v].kind \in {"access", "logout", "refresh"} =>
         Payload(v).user \in Users /\ req[v].access \in Issued
      BY <1>0, TokenFits DEF Payloads, WorkerFits, RequestFits
<1>7. CASE WipeSessions(v) \/ AddSession(v)
      <2>1. req[v].user \in Users
            BY <1>0, <1>7, LoginFits DEF WipeSessions, AddSession, At, WorkerFits, KindFits, LoginSteps
      <2> QED BY <1>3, <1>4, <1>7, <2>1 DEF WipeSessions, AddSession
<1>8. CASE RemoveLastSession(v) \/ RemoveSession(v) \/ DropSession(v)
      <2>1. Payload(v).user \in Users
            BY <1>0, <1>6, <1>8 DEF RemoveLastSession, RemoveSession, DropSession, At, WorkerFits,
                                    KindFits, LogoutSteps, RefreshSteps
      <2> QED BY <1>3, <1>5, <1>8, <2>1 DEF RemoveLastSession, RemoveSession, DropSession
<1>9. CASE Burn(v) \/ RevokeForLogout(v) \/ RevokeForRefresh(v)
      <2>1. req[v].access \in Issued
            BY <1>0, <1>6, <1>9 DEF Burn, RevokeForLogout, RevokeForRefresh, Blacklist, At, WorkerFits,
                                    KindFits, CheckSteps, LogoutSteps, RefreshSteps
      <2>2. MapSet(v, Blacklisted(req[v].access), Field("expires_at", Payload(v).exp),
                   EXPIRES_ACCESS_TOKEN)
            BY <1>9 DEF Burn, RevokeForLogout, RevokeForRefresh, Blacklist
      <2> QED BY <1>4, <1>9, <2>1, <2>2
<1>10. CASE StoreRoles(v)
      BY <1>4, <1>10 DEF StoreRoles, HSet
<1>11. CASE Storing(v)
      <2>1. CASE MapSetWrite(v)
            <3>1. n = arg[v].name /\ mpc[v] = "setWrite"
                  BY <1>2, <2>1 DEF MapSetWrite, WriteBack, SetRecord
            <3> QED BY <1>0, <2>1, <3>1 DEF WorkerFits, PendingFits
      <2>2. CASE HExpire(v)
            <3>1. n = arg[v].name /\ mpc[v] = "expire"
                  BY <1>2, <2>2 DEF HExpire
            <3> QED BY <1>0, <2>2, <3>1 DEF WorkerFits, PendingFits
      <2>3. CASE MapDeleteWrite(v)
            <3>1. n = arg[v].name /\ mpc[v] = "deleteWrite"
                  BY <1>2, <2>3 DEF MapDeleteWrite, WriteBack, SetRecord
            <3>2. n = SessionsOf(Payload(v).user) /\ req[v].kind \in {"logout", "refresh"}
                  BY <1>0, <3>1 DEF WorkerFits, PendingFits, Target, KindFits, LogoutSteps,
                                    RefreshSteps
            <3> QED BY <1>6, <3>2
      <2> QED BY <1>11, <2>1, <2>2, <2>3 DEF Storing, MapStep
<1>12. ASSUME store' = store PROVE FALSE
      BY <1>12
<1>13. CASE Login(v) \/ Access(v) \/ Logout(v) \/ Refresh(v) \/ Done(v)
      BY <1>12, <1>13 DEF Login, Access, Logout, Refresh, Request, BeginRequest, Done,
                          KeepStorage, mapVars
<1>14. CASE CountSessions(v) \/ IssueToken(v) \/ CheckHeader(v) \/ RefuseBurnt(v)
           \/ CheckCachedRoles(v) \/ CheckTokenRoles(v) \/ StoreRolesFails(v) \/ RolesStored(v)
      BY <1>12, <1>14 DEF CountSessions, IssueToken, CheckHeader, RefuseBurnt, CheckCachedRoles,
                          CheckTokenRoles, StoreRolesFails, RolesStored, KeepStorage, mapVars
<1>15. CASE ReadSessions(v) \/ CheckAgain(v) \/ LeaveLdap(v) \/ LeaveKeycloak(v)
            \/ LeaveKeycloakFails(v) \/ NoSession(v) \/ ConfirmLogout(v)
      BY <1>12, <1>15 DEF ReadSessions, CheckAgain, LeaveLdap, LeaveKeycloak, LeaveKeycloakFails,
                          NoSession, ConfirmLogout, KeepStorage, mapVars
<1>16. CASE CheckNotBlacklisted(v) \/ RefuseSession(v) \/ RefuseDropped(v)
            \/ AcceptSession(v) \/ Renew(v) \/ Abort(v)
      BY <1>12, <1>16 DEF CheckNotBlacklisted, RefuseSession, RefuseDropped, AcceptSession, Renew,
                          Abort, KeepStorage, mapVars
<1> QED BY <1>7, <1>8, <1>9, <1>10, <1>11, <1>13, <1>14, <1>15, <1>16 DEF Serve

-----------------------------------------------------------------------------
(* The steps that are no worker's. *)
LEMMA OtherSteps ==
    ASSUME Fit, [Next]_vars, ~\E v \in Workers : Serve(v)
    PROVE  /\ UNCHANGED <<backend, mpc, arg, snap>>
           /\ UNCHANGED <<token, made, apc, req, found, revoked, loggedIn, loggedOut>>
           /\ now' \in Nat /\ now <= now'
           /\ \A n \in Names : \/ store'[n] = store[n]
                               \/ /\ store'[n] = Absent /\ store[n] # Absent
                                  /\ store[n].expires > 0
                                  /\ now = store[n].updated + store[n].expires
<1>0. now \in Nat /\ StoreFits
      BY DEF Fit, Extends
<1>1. CASE CloseKeycloakSession
      BY <1>0, <1>1 DEF CloseKeycloakSession, KeepStorage, mapVars
<1>2. CASE Expire
      <2>1. PICK n \in Names : RedisExpire(n)
            BY <1>2 DEF Expire
      <2>2. \A k \in Names : k # n => store'[k] = store[k]
            BY <1>0, <2>1 DEF RedisExpire, StoreFits
      <2> QED BY <1>0, <1>2, <2>1, <2>2 DEF Expire, RedisExpire, Live, StoreFits, authVars
<1>3. CASE Tick
      BY <1>0, <1>3 DEF Tick, MapTick, authVars
<1>4. CASE UNCHANGED vars
      BY <1>0, <1>4 DEF vars, mapVars, authVars
<1> QED BY <1>1, <1>2, <1>3, <1>4 DEF Next

LEMMA OtherStepsGrow ==
    ASSUME Fit, [Next]_vars, ~\E v \in Workers : Serve(v)
    PROVE  Grows /\ \A w \in Workers : Same(w)
BY OtherSteps DEF Grows, Same, Issued

(* No token lasts longer from now on than those of its provider do. *)
Near ==
    /\ \A a \in Issued : token[a].exp <= now + AccessLifetime(token[a].provider)
    /\ \A w \in Workers : req[w].kind = "login" =>
                             req[w].exp <= req[w].start + AccessLifetime(req[w].provider)

LEMMA NextNear == Fit /\ Near /\ [Next]_vars => Near'
<1> SUFFICES ASSUME Fit, Near, [Next]_vars PROVE Near'
      OBVIOUS
<1>0. /\ \A a \in Issued : token[a] \in Payloads /\ token[a].exp \in Nat
      /\ now \in Nat /\ Extends
      BY DEF Fit, Extends, Payloads, Issued
<1>1. \A p : AccessLifetime(p) \in Nat
      BY LifetimesAssumption DEF AccessLifetime
<1>2. ASSUME NEW v \in Workers, Serve(v) PROVE Near'
      <2>1. now' = now /\ Grows /\ \A w \in Workers \ {v} : Same(w)
            BY <1>0, <1>2, OwnSteps
      <2>2. ASSUME NEW a \in Issued' 
            PROVE  token'[a].exp <= now' + AccessLifetime(token'[a].provider)
            <3>1. CASE a \in Issued
                  BY <2>1, <3>1 DEF Near, Grows
            <3>2. CASE a \notin Issued /\ IssueToken(v)
                  <4>1. req[v].kind = "login"
                        BY <3>2 DEF Fit, IssueToken, At, WorkerFits, KindFits, LoginSteps
                  <4>2. req[v].exp <= now + AccessLifetime(req[v].provider)
                        <5>1. req[v].exp <= req[v].start + AccessLifetime(req[v].provider)
                              BY <4>1 DEF Near
                        <5>2. req[v].start \in Nat /\ req[v].start <= now /\ req[v].exp \in Nat
                              BY <3>2, <4>1 DEF Fit, WorkerFits, RequestFits, IssueToken, At
                        <5> QED BY <1>0, <1>1, <5>1, <5>2
                  <4>3. token'[a].exp = req[v].exp /\ token'[a].provider = req[v].provider
                        BY <1>0, <3>2 DEF IssueToken, NewToken, Issued, Extends
                  <4> QED BY <2>1, <4>2, <4>3
            <3>3. CASE a \notin Issued /\ Renew(v)
                  <4>1. Payload(v) \in Payloads
                        BY <3>3, TokenFits DEF Fit, Renew, At, WorkerFits, KindFits, RefreshSteps
                  <4>2. PICK b \in AccessTokens, roles \in TokenRoles :
                             NewToken(b, [Payload(v) EXCEPT
                                  !.exp = now + AccessLifetime(Payload(v).provider),
                                  !.roles = roles])
                        BY <3>3 DEF Renew, Fail, Issued
                  <4>3. a = b
                        BY <1>0, <3>3, <4>2 DEF NewToken, Issued, Extends
                  <4>4. /\ token'[a].exp = now + AccessLifetime(Payload(v).provider)
                        /\ token'[a].provider = Payload(v).provider
                        BY <1>0, <4>1, <4>2, <4>3 DEF NewToken, Extends, Payloads
                  <4> QED BY <1>0, <1>1, <2>1, <4>4
            <3>4. token' = token => a \in Issued
                  BY DEF Issued
            <3> QED BY <1>0, <1>2, <3>1, <3>2, <3>3, <3>4, Places
      <2>3. ASSUME NEW w \in Workers, req'[w].kind = "login"
            PROVE  req'[w].exp <= req'[w].start + AccessLifetime(req'[w].provider)
            <3>1. CASE req'[w] = req[w]
                  BY <2>3, <3>1 DEF Near
            <3>2. CASE Login(v) /\ w = v
                  BY <1>0, <1>1, <3>2 DEF Login, BeginRequest, Extends
            <3>3. w # v => req'[w] = req[w]
                  BY <2>1 DEF Same
            <3>4. CASE w = v /\ req'[v] # req[v] /\ ~Login(v)
                  <4>1. apc'[v] \in {"idle", "check", "blacklist"} \/ req' = req
                        BY <1>0, <1>2, <3>4, Places DEF Storing, authVars
                  <4> QED BY <1>2, <2>3, <3>4, <4>1, OwnKind DEF KindFits, CheckSteps, RefreshSteps,
                                                              NoRequest
            <3> QED BY <3>1, <3>2, <3>3, <3>4
      <2> QED BY <2>2, <2>3 DEF Near
<1>3. CASE ~\E v \in Workers : Serve(v)
      <2>1. UNCHANGED <<token, req>> /\ now' \in Nat /\ now <= now' /\ Issued' = Issued
            BY <1>3, OtherSteps DEF Issued
      <2>2. \A a \in Issued : token[a].exp <= now' + AccessLifetime(token[a].provider)
            BY <1>0, <1>1, <2>1 DEF Near
      <2> QED BY <2>1, <2>2 DEF Near
<1> QED BY <1>2, <1>3

-----------------------------------------------------------------------------
LEMMA UntilFits ==
    ASSUME Fit, NEW a \in Issued
    PROVE  /\ RefusedUntil(a) \in Int /\ RefusedUntil(a) <= token[a].exp
           /\ Near => RefusedUntil(a) <= now + EXPIRES_ACCESS_TOKEN
<1> DEFINE p == token[a].provider
<1>1. token[a].exp \in Nat /\ now \in Nat /\ EXPIRES_ACCESS_TOKEN \in Nat
      BY LifetimesAssumption DEF Fit, Extends, Payloads, Issued
<1>2. AccessLifetime(p) \in Nat
      BY LifetimesAssumption DEF AccessLifetime
<1>3. Near => token[a].exp <= now + AccessLifetime(p)
      BY DEF Near
<1> HIDE DEF p
<1>4. RefusedUntil(a) = IF AccessLifetime(p) - EXPIRES_ACCESS_TOKEN > 0
                        THEN token[a].exp - (AccessLifetime(p) - EXPIRES_ACCESS_TOKEN)
                        ELSE token[a].exp
      BY DEF RefusedUntil, p
<1> QED BY <1>1, <1>2, <1>3, <1>4

LEMMA UntilStays ==
    ASSUME Grows, NEW a \in Issued
    PROVE  RefusedUntil(a)' = RefusedUntil(a)
BY DEF Grows, RefusedUntil

(* A mark stays for as long as its token is to be refused. *)
Covers(a) ==
    \/ store[Blacklisted(a)].expires = 0
    \/ RefusedUntil(a) <= store[Blacklisted(a)].updated + store[Blacklisted(a)].expires
Marked(a) == RefusedUntil(a) > now => store[Blacklisted(a)] # Absent

WorkerMarks(w) ==
    /\ apc[w] \in {"burnt", "remove", "bye", "renew"} /\ mpc[w] # "setWrite" =>
          Marked(req[w].access)
    /\ apc[w] \in {"burnt", "remove", "renew"} /\ mpc[w] # "ready" =>
          arg[w].expire = EXPIRES_ACCESS_TOKEN

MarksHold ==
    /\ \A a \in AccessTokens : store[Blacklisted(a)] # Absent => a \in Issued /\ Covers(a)
    /\ \A a \in revoked : Marked(a)
    /\ \A w \in Workers : WorkerMarks(w)

LEMMA MarkWrites ==
    ASSUME Fit, Near, MarksHold, NEW v \in Workers, Serve(v), NEW a \in AccessTokens
    PROVE  \/ store'[Blacklisted(a)] = store[Blacklisted(a)]
           \/ a \in Issued /\ store'[Blacklisted(a)] # Absent /\ Covers(a)'
<1> DEFINE n == Blacklisted(a)
<1>0. /\ Extends /\ StoreFits /\ WorkerFits(v) /\ now \in Nat /\ n \in Names
      /\ EXPIRES_ACCESS_TOKEN \in Nat
      BY SessionNamesFit, LifetimesAssumption DEF Fit, Extends
<1>1. SUFFICES ASSUME store'[n] # store[n]
               PROVE  a \in Issued /\ store'[n] # Absent /\ Covers(a)'
      OBVIOUS
<1>2. ASSUME NEW m \in Marks, NEW x \in Nat, NEW y \in Nat, Put(n, m, x, y),
             a \in Issued, y = 0 \/ RefusedUntil(a) <= x + y
      PROVE  a \in Issued /\ store'[n] # Absent /\ Covers(a)'
      <2>1. store'[n] = [map |-> m, updated |-> x, expires |-> y]
            BY <1>0, <1>2 DEF Put, StoreFits
      <2>2. [map |-> m, updated |-> x, expires |-> y] # Absent
            BY <1>2, AbsentAssumption DEF StoredRecord
      <2>3. RefusedUntil(a)' = RefusedUntil(a)
            BY <1>0, <1>2, OwnSteps, UntilStays
      <2> QED BY <1>2, <2>1, <2>2, <2>3 DEF Covers
<1>3. a \in Issued => /\ RefusedUntil(a) \in Int
                      /\ RefusedUntil(a) <= now + EXPIRES_ACCESS_TOKEN
                      /\ token[a].exp \in Nat
      BY <1>0, UntilFits DEF Issued, Extends, Payloads
<1>4. MapOf(n) = Nothing \/ MapOf(n) \in Marks
      BY <1>0, MapOfFits, SessionNamesFit
<1>5. \A m \in Marks : \A s : s = Nothing \/ s \in Marks => Updated(s, m) \in Marks
      BY DEF Marks, Updated, Nothing
<1>6. Live(n) => /\ store[n].map \in Marks /\ store[n].updated \in Nat /\ store[n].expires \in Nat
                 /\ a \in Issued /\ Covers(a)
      BY <1>0, SessionNamesFit DEF Live, StoreFits, MarksHold
<1>7. \A u \in Users : n # SessionsOf(u)
      BY NamesDiffer
<1>8. CASE /\ n = Blacklisted(req[v].access) /\ req[v].access \in Issued
           /\ HSet(v, n, Field("expires_at", Payload(v).exp), EXPIRES_ACCESS_TOKEN)
      <2>1. a = req[v].access /\ a \in Issued /\ Payload(v) = token[a]
            BY <1>8, NamesDiffer DEF Payload
      <2> DEFINE m == Updated(MapOf(n), Field("expires_at", Payload(v).exp))
      <2>2. m \in Marks
            BY <1>3, <1>4, <1>5, <2>1, FieldsFit
      <2> HIDE DEF m
      <2>3. IF Live(n) THEN Put(n, m, store[n].updated, store[n].expires) ELSE Put(n, m, now, 0)
            BY <1>8 DEF HSet, m
      <2> QED BY <1>0, <1>2, <1>6, <2>1, <2>2, <2>3 DEF Covers
<1>9. CASE (MapSetWrite(v) \/ HExpire(v)) /\ n = Target(v)
      <2>1. mpc[v] \in {"setWrite", "expire"}
            BY <1>9 DEF MapSetWrite, HExpire
      <2>2. /\ apc[v] \in {"issue", "stored", "burnt", "remove", "renew"}
            /\ arg[v].name = n /\ Fits(n, arg[v].mapping)
            /\ mpc[v] = "setWrite" => snap[v] = Nothing \/ Fits(n, snap[v])
            BY <1>0, <1>9, <2>1 DEF WorkerFits, PendingFits
      <2>3. apc[v] \in {"burnt", "remove", "renew"} /\ n = Blacklisted(req[v].access)
            BY <1>9, <2>2, NamesDiffer DEF Target
      <2>4. a = req[v].access /\ arg[v].expire = EXPIRES_ACCESS_TOKEN
            BY <2>1, <2>3, NamesDiffer DEF MarksHold, WorkerMarks
      <2>5. a \in Issued
            BY <1>0, <2>3, <2>4 DEF WorkerFits, KindFits, RequestFits, CheckSteps, LogoutSteps,
                                    RefreshSteps
      <2>6. CASE MapSetWrite(v)
            <3> DEFINE m == Updated(snap[v], arg[v].mapping)
            <3>1. m \in Marks
                  BY <1>5, <2>2, <2>6, SessionNamesFit DEF MapSetWrite
            <3> HIDE DEF m
            <3>2. Put(n, m, now, EXPIRES_ACCESS_TOKEN)
                  BY <1>0, <2>2, <2>4, <2>6, AbsentAssumption DEF MapSetWrite, WriteBack, SetRecord, m
            <3> QED BY <1>0, <1>2, <1>3, <2>5, <3>1, <3>2
      <2>7. CASE HExpire(v)
            <3>1. Live(n) /\ Put(n, store[n].map, now, EXPIRES_ACCESS_TOKEN)
                  BY <1>1, <2>2, <2>4, <2>7 DEF HExpire
            <3> QED BY <1>0, <1>2, <1>3, <1>6, <2>5, <3>1
      <2> QED BY <1>9, <2>6, <2>7
<1> QED BY <1>0, <1>1, <1>7, <1>8, <1>9, WriteSites

(* A mapping that is written is there. *)
LEMMA PutMakes ==
    ASSUME StoreFits, NEW a \in AccessTokens, NEW m \in Marks, NEW x \in Nat, NEW y \in Nat,
           Put(Blacklisted(a), m, x, y)
    PROVE  store'[Blacklisted(a)] # Absent
<1>1. store'[Blacklisted(a)] = [map |-> m, updated |-> x, expires |-> y]
      BY SessionNamesFit DEF Put, StoreFits
<1> QED BY <1>1, AbsentAssumption DEF StoredRecord

LEMMA MarksUpdated ==
    \A m \in Marks : \A s : s = Nothing \/ s \in Marks => Updated(s, m) \in Marks
BY DEF Marks, Updated, Nothing

LEMMA HSetMakes ==
    ASSUME Fit, NEW v, NEW a \in AccessTokens, NEW m \in Marks, NEW e, HSet(v, Blacklisted(a), m, e)
    PROVE  store'[Blacklisted(a)] # Absent
<1> DEFINE n == Blacklisted(a)
<1>0. StoreFits /\ now \in Nat /\ n \in Names
      BY SessionNamesFit DEF Fit, Extends
<1>1. Updated(MapOf(n), m) \in Marks
      BY <1>0, MapOfFits, SessionNamesFit, MarksUpdated
<1>2. Live(n) => store[n].updated \in Nat /\ store[n].expires \in Nat
      BY <1>0 DEF Live, StoreFits
<1>3. \E x \in Nat, y \in Nat : Put(n, Updated(MapOf(n), m), x, y)
      BY <1>0, <1>2 DEF HSet
<1> QED BY <1>0, <1>1, <1>3, PutMakes

LEMMA SetWriteMakes ==
    ASSUME Fit, NEW v \in Workers, Storing(v), mpc[v] = "setWrite",
           apc[v] \in {"burnt", "remove", "renew"}
    PROVE  store'[Blacklisted(req[v].access)] # Absent
<1>0. StoreFits /\ Extends /\ now \in Nat /\ WorkerFits(v)
      BY DEF Fit, Extends
<1>1. req[v].access \in AccessTokens
      BY <1>0, TokenFits DEF WorkerFits, KindFits, CheckSteps, LogoutSteps, RefreshSteps
<1> DEFINE n == Blacklisted(req[v].access)
           m == Updated(snap[v], arg[v].mapping)
<1>2. /\ arg[v].name = n /\ arg[v].expire \in Nat
      /\ Fits(n, arg[v].mapping) /\ (snap[v] = Nothing \/ Fits(n, snap[v]))
      BY <1>0 DEF WorkerFits, PendingFits, Target
<1>3. m \in Marks
      BY <1>1, <1>2, SessionNamesFit, MarksUpdated
<1>4. Put(n, m, now, arg[v].expire)
      BY <1>2, AbsentAssumption DEF Storing, MapStep, MapSetWrite, HExpire, MapDeleteWrite, WriteBack,
                                    SetRecord
<1> HIDE DEF m
<1> QED BY <1>0, <1>1, <1>2, <1>3, <1>4, PutMakes

LEMMA NextMarks == Fit /\ Near /\ MarksHold /\ [Next]_vars => MarksHold'
<1> SUFFICES ASSUME Fit, Near, MarksHold, [Next]_vars PROVE MarksHold'
      OBVIOUS
<1>0. /\ Extends /\ StoreFits /\ now \in Nat /\ EXPIRES_ACCESS_TOKEN \in Nat
      /\ \A a \in Issued : token[a].exp \in Nat
      /\ \A w \in Workers : WorkerFits(w)
      /\ revoked \subseteq Issued /\ \A a \in Issued : a \in AccessTokens
      BY LifetimesAssumption DEF Fit, Extends, Payloads, Issued
<1>a. \A a \in Issued : RefusedUntil(a) \in Int
      BY UntilFits
<1>b. Grows => \A a \in Issued : RefusedUntil(a)' = RefusedUntil(a)
      BY UntilStays
<1>1. ASSUME NEW w \in Workers, apc[w] \in {"burnt", "remove", "bye", "renew"}
      PROVE  req[w].access \in Issued
      BY <1>0, <1>1 DEF WorkerFits, KindFits, RequestFits, CheckSteps, LogoutSteps, RefreshSteps
<1>2. ASSUME NEW v \in Workers, Serve(v) PROVE MarksHold'
      <2>1. now' = now /\ Grows /\ \A w \in Workers \ {v} : Same(w)
            BY <1>0, <1>2, OwnSteps
      <2>2. ASSUME NEW a \in AccessTokens, store'[Blacklisted(a)] # Absent
            PROVE  a \in Issued' /\ Covers(a)'
            <3>1. CASE store'[Blacklisted(a)] = store[Blacklisted(a)]
                  BY <1>b, <2>1, <2>2, <3>1 DEF MarksHold, Grows, Covers
            <3> QED BY <1>2, <2>1, <3>1, MarkWrites DEF Grows
      <2>3. ASSUME NEW a \in Issued, Marked(a) PROVE Marked(a)'
            <3>1. store[Blacklisted(a)] # Absent => store'[Blacklisted(a)] # Absent
                  BY <1>0, <1>2, MarkWrites
            <3> QED BY <1>b, <2>1, <2>3, <3>1 DEF Marked
      <2>4. ASSUME NEW a \in revoked' PROVE Marked(a)'
            <3>1. CASE a \in revoked
                  BY <1>0, <2>3, <3>1 DEF MarksHold
            <3>2. CASE a \notin revoked
                  <4>1. /\ a = req[v].access /\ mpc[v] = "ready"
                        /\ apc[v] \in {"burnt", "remove", "bye", "renew"}
                        BY <1>0, <1>2, <3>2, <2>4, Places
                  <4> QED BY <1>1, <2>3, <4>1 DEF MarksHold, WorkerMarks
            <3> QED BY <3>1, <3>2
      <2>5. ASSUME NEW w \in Workers \ {v} PROVE WorkerMarks(w)'
            <3>1. apc'[w] = apc[w] /\ mpc'[w] = mpc[w] /\ arg'[w] = arg[w] /\ req'[w] = req[w]
                  BY <2>1 DEF Same
            <3>2. WorkerMarks(w)
                  BY DEF MarksHold
            <3>3. apc[w] \in {"burnt", "remove", "bye", "renew"} /\ mpc[w] # "setWrite" =>
                      Marked(req[w].access)'
                  <4>1. ASSUME apc[w] \in {"burnt", "remove", "bye", "renew"}, mpc[w] # "setWrite"
                        PROVE  Marked(req[w].access)'
                        <5>1. Marked(req[w].access) /\ req[w].access \in Issued
                              BY <1>1, <3>2, <4>1 DEF WorkerMarks
                        <5>2. PICK a \in Issued : a = req[w].access
                              BY <5>1
                        <5>3. Marked(a)'
                              BY <2>3, <5>1, <5>2
                        <5> QED BY <3>1, <5>2, <5>3 DEF Marked
                  <4> QED BY <4>1
            <3> QED BY <3>1, <3>2, <3>3 DEF WorkerMarks
      <2>6. WorkerMarks(v)'
            <3>0. PendingFits(v)'
                  BY <1>2, OwnPending
            <3>1. CASE apc'[v] \notin {"burnt", "remove", "bye", "renew"}
                  BY <3>1 DEF WorkerMarks
            <3>2. CASE Burn(v) \/ RevokeForLogout(v) \/ RevokeForRefresh(v)
                  <4> DEFINE a == req[v].access
                             n == Blacklisted(a)
                             m == Field("expires_at", Payload(v).exp)
                  <4>1. /\ MapSet(v, n, m, EXPIRES_ACCESS_TOKEN) /\ req' = req
                        /\ apc[v] \in {"burn", "revoke", "replace"} /\ apc'[v] # "bye"
                        BY <1>0, <3>2 DEF Burn, RevokeForLogout, RevokeForRefresh, Blacklist, At, To,
                                          Keep, Extends
                  <4>2. a \in Issued /\ a \in AccessTokens
                        BY <1>0, <4>1 DEF WorkerFits, KindFits, RequestFits, CheckSteps, LogoutSteps,
                                          RefreshSteps
                  <4>3. CASE MapSetRead(v, n, m, EXPIRES_ACCESS_TOKEN)
                        <5>1. mpc'[v] = "setWrite" /\ arg'[v].expire = EXPIRES_ACCESS_TOKEN
                              BY <1>0, <4>3 DEF MapSetRead, Begin, Extends
                        <5> QED BY <4>1, <5>1 DEF WorkerMarks
                  <4>4. CASE HSet(v, n, m, EXPIRES_ACCESS_TOKEN)
                        <5>1. mpc'[v] = "expire" /\ arg'[v].expire = EXPIRES_ACCESS_TOKEN
                              BY <1>0, <4>4, AbsentAssumption DEF HSet, Begin, Extends
                        <5>2. m \in Marks
                              BY <1>0, <4>2, FieldsFit DEF Payload
                        <5>3. store'[n] # Absent
                              BY <4>2, <4>4, <5>2, HSetMakes
                        <5>4. Marked(req[v].access)'
                              BY <4>1, <5>3 DEF Marked
                        <5> QED BY <4>1, <5>1, <5>4 DEF WorkerMarks
                  <4> QED BY <4>1, <4>3, <4>4 DEF MapSet
            <3>3. CASE RemoveLastSession(v) \/ RemoveSession(v)
                  <4>1. /\ apc[v] = "remove" /\ mpc[v] = "ready" /\ apc'[v] = "bye" /\ req' = req
                        BY <1>0, <3>3 DEF RemoveLastSession, RemoveSession, At, To, Keep, Extends
                  <4>2. Marked(req[v].access) /\ req[v].access \in Issued
                        BY <1>1, <4>1 DEF MarksHold, WorkerMarks
                  <4>3. PICK a \in Issued : a = req[v].access
                        BY <4>2
                  <4>4. Marked(a)'
                        BY <2>3, <4>2, <4>3
                  <4> QED BY <4>1, <4>3, <4>4 DEF Marked, WorkerMarks
            <3>4. CASE Storing(v) /\ apc'[v] \in {"burnt", "remove", "bye", "renew"}
                  <4>1. UNCHANGED <<apc, req>> /\ mpc'[v] = "ready" /\ mpc[v] # "ready"
                        BY <1>0, <3>4 DEF Storing, authVars, MapStep, MapSetWrite, HExpire,
                                          MapDeleteWrite, WriteBack, End, Extends
                  <4>2. PICK a \in Issued : a = req[v].access
                        BY <1>1, <3>4, <4>1
                  <4>3. Marked(a)'
                        <5>1. CASE mpc[v] # "setWrite"
                              BY <2>3, <3>4, <4>1, <4>2, <5>1 DEF MarksHold, WorkerMarks
                        <5>2. CASE mpc[v] = "setWrite"
                              <6>1. apc[v] \in {"burnt", "remove", "renew"}
                                    BY <1>0, <3>4, <4>1, <5>2 DEF WorkerFits, PendingFits
                              <6>2. store'[Blacklisted(a)] # Absent
                                    BY <1>0, <3>4, <4>2, <5>2, <6>1, SetWriteMakes
                              <6> QED BY <6>2 DEF Marked
                        <5> QED BY <5>1, <5>2
                  <4> QED BY <4>1, <4>2, <4>3 DEF Marked, WorkerMarks
            <3> QED BY <1>0, <1>2, <3>1, <3>2, <3>3, <3>4, Places
      <2> QED BY <2>2, <2>4, <2>5, <2>6 DEF MarksHold
<1>3. CASE ~\E v \in Workers : Serve(v)
      <2>1. /\ UNCHANGED <<token, apc, req, mpc, arg, revoked>> /\ now' \in Nat /\ now <= now'
            /\ Issued' = Issued /\ \A a \in Issued : RefusedUntil(a)' = RefusedUntil(a)
            BY <1>3, <1>b, OtherSteps, OtherStepsGrow DEF Issued
      <2>2. \A a \in AccessTokens : \/ store'[Blacklisted(a)] = store[Blacklisted(a)]
                                    \/ /\ store'[Blacklisted(a)] = Absent
                                       /\ store[Blacklisted(a)] # Absent
                                       /\ store[Blacklisted(a)].expires > 0
                                       /\ now = store[Blacklisted(a)].updated
                                                   + store[Blacklisted(a)].expires
            BY <1>3, OtherSteps, SessionNamesFit
      <2>3. \A a \in AccessTokens : store'[Blacklisted(a)] # Absent => a \in Issued' /\ Covers(a)'
            BY <2>1, <2>2 DEF MarksHold, Covers
      <2>4. ASSUME NEW a \in Issued, Marked(a) PROVE Marked(a)'
            <3>1. a \in AccessTokens /\ RefusedUntil(a) \in Int
                  BY <1>0, <1>a
            <3>2. CASE store'[Blacklisted(a)] = store[Blacklisted(a)]
                  BY <1>0, <2>1, <2>4, <3>1, <3>2 DEF Marked
            <3>3. CASE store'[Blacklisted(a)] # store[Blacklisted(a)]
                  <4>1. Covers(a) /\ store[Blacklisted(a)].expires > 0
                        /\ now = store[Blacklisted(a)].updated + store[Blacklisted(a)].expires
                        BY <2>2, <3>1, <3>3 DEF MarksHold
                  <4>2. RefusedUntil(a) <= now \/ store[Blacklisted(a)].expires = 0
                        BY <4>1 DEF Covers
                  <4>3. store[Blacklisted(a)].expires # 0
                        <5>1. store[Blacklisted(a)].expires \in Nat
                              BY <2>2, <3>1, <3>3, <1>0, SessionNamesFit DEF StoreFits
                        <5> QED BY <4>1, <5>1
                  <4> QED BY <1>0, <2>1, <3>1, <4>2, <4>3 DEF Marked
            <3> QED BY <3>2, <3>3
      <2>5. \A a \in revoked' : Marked(a)'
            BY <1>0, <2>1, <2>4 DEF MarksHold
      <2>6. ASSUME NEW w \in Workers PROVE WorkerMarks(w)'
            <3>1. CASE apc[w] \in {"burnt", "remove", "bye", "renew"}
                  <4>1. PICK a \in Issued : a = req[w].access
                        BY <1>1, <3>1
                  <4>2. Marked(a) => Marked(a)'
                        BY <2>4
                  <4> QED BY <2>1, <4>1, <4>2 DEF MarksHold, WorkerMarks, Marked
            <3> QED BY <2>1, <3>1 DEF MarksHold, WorkerMarks
      <2> QED BY <2>3, <2>5, <2>6 DEF MarksHold
<1> QED BY <1>2, <1>3

-----------------------------------------------------------------------------
LEMMA RevokedIsBlacklisted ==
    ASSUME Fit, MarksHold, NEW w \in Workers, req[w].access \in revoked,
           now < RefusedUntil(req[w].access)
    PROVE  IsBlacklisted(w)
<1> DEFINE a == req[w].access
           n == Blacklisted(a)
<1>1. /\ a \in AccessTokens /\ RefusedUntil(a) \in Int /\ now \in Nat /\ StoreFits
      /\ n \in Names
      BY SessionNamesFit, UntilFits DEF Fit, Extends, Issued
<1>2. store[n] # Absent /\ Covers(a)
      BY <1>1 DEF MarksHold, Marked
<1>3. store[n].updated \in Nat /\ store[n].expires \in Nat /\ store[n].map \in Marks
      BY <1>1, <1>2, SessionNamesFit DEF StoreFits
<1>4. Live(n)
      BY <1>1, <1>2, <1>3 DEF Live, Expired, Covers
<1>5. \A m \in Marks : m # Nothing
      BY DEF Marks, Nothing
<1> QED BY <1>3, <1>4, <1>5 DEF IsBlacklisted, MapOf

(* A request that began with a token already dead goes no further than its *)
(* check while the token is to be refused; a refresh does when it is over. *)
Lapsed(a) == RefusedUntil(a) < token[a].exp /\ now >= RefusedUntil(a)

LateRequest(w) ==
    /\ req[w].kind \in {"access", "logout"} /\ req[w].lateAccess =>
          apc[w] \in {"check", "refused", "failed"} \/ Lapsed(req[w].access)
    /\ req[w].kind = "refresh" /\ req[w].lateAccess =>
          apc[w] \in {"blacklist", "refused", "failed"} \/ now >= RefusedUntil(req[w].access)

LateIsStopped == \A w \in Workers : LateRequest(w)

LEMMA NextLate == Fit /\ MarksHold /\ LateIsStopped /\ [Next]_vars => LateIsStopped'
<1> SUFFICES ASSUME Fit, MarksHold, LateIsStopped, [Next]_vars, NEW w \in Workers
             PROVE  LateRequest(w)'
      BY DEF LateIsStopped
<1>0. /\ Extends /\ now \in Nat /\ WorkerFits(w) /\ LateRequest(w)
      BY DEF Fit, Extends, LateIsStopped
<1>1. req[w].kind \in {"access", "logout", "refresh"} =>
          /\ req[w].access \in Issued /\ Payload(w).exp \in Nat
          /\ RefusedUntil(req[w].access) \in Int
          /\ RefusedUntil(req[w].access) <= Payload(w).exp
          /\ req[w].lateAccess => req[w].access \in revoked
      BY <1>0, UntilFits DEF WorkerFits, RequestFits, Payload, Extends, Issued, Payloads
<1>2. ASSUME req'[w] = req[w], Grows, now' \in Nat, now <= now',
             req[w].kind \in {"access", "logout", "refresh"}
      PROVE  /\ Lapsed(req[w].access) => Lapsed(req[w].access)'
             /\ now >= RefusedUntil(req[w].access) => (now >= RefusedUntil(req[w].access))'
      <2>1. PICK a \in Issued : a = req[w].access
            BY <1>1, <1>2
      <2>2. RefusedUntil(a)' = RefusedUntil(a) /\ token'[a] = token[a]
            BY <1>2, UntilStays DEF Grows
      <2>3. RefusedUntil(req[w].access)' = RefusedUntil(a)
            BY <1>2, <2>1, <2>2 DEF RefusedUntil
      <2>4. token'[req'[w].access] = token[a]
            BY <1>2, <2>1, <2>2
      <2>5. Lapsed(req[w].access)' <=> (RefusedUntil(a) < token[a].exp /\ now' >= RefusedUntil(a))
            BY <2>3, <2>4 DEF Lapsed
      <2> QED BY <1>0, <1>1, <1>2, <2>1, <2>3, <2>5 DEF Lapsed
<1>3. CASE Serve(w)
      <2>1. now' = now /\ Grows
            BY <1>0, <1>3, OwnSteps
      <2>2. CASE Storing(w)
            <3>1. apc'[w] = apc[w] /\ req'[w] = req[w]
                  BY <2>2 DEF Storing, authVars
            <3> QED BY <1>0, <1>2, <2>1, <3>1 DEF LateRequest
      <2>3. CASE req'[w] # req[w] \/ apc[w] = "idle"
            <3>1. \/ Storing(w)
                  \/ req'[w] = NoRequest
                  \/ apc'[w] \in {"count", "check", "blacklist"}
                  BY <1>0, <1>3, <2>3, Places
            <3>2. KindFits(w)'
                  BY <1>3, OwnKind
            <3> QED BY <2>2, <3>1, <3>2
                    DEF KindFits, LoginSteps, CheckSteps, RefreshSteps, NoRequest, LateRequest
      <2>4. CASE req'[w] = req[w] /\ ~Storing(w) /\ apc[w] # "idle"
            <3>1. CASE req[w].kind \in {"access", "logout"} /\ req[w].lateAccess
                  <4>1. CASE Lapsed(req[w].access)
                        BY <1>0, <1>2, <2>1, <2>4, <3>1, <4>1 DEF LateRequest
                  <4>2. CASE ~Lapsed(req[w].access)
                        <5>1. apc[w] \in {"check", "refused", "failed"} /\ req[w].access \in revoked
                              BY <1>0, <1>1, <3>1, <4>2 DEF LateRequest
                        <5>2. ~Done(w)
                              BY <1>0, <2>4, <3>1 DEF Done, NoRequest, Extends
                        <5>3. CASE Abort(w)
                              BY <1>0, <2>4, <3>1, <5>3 DEF Abort, Fail, Respond, To, Extends, LateRequest
                        <5>4. CASE CheckHeader(w)
                              <6>1. Alive(w) => now < RefusedUntil(req[w].access)
                                    BY <1>0, <1>1, <3>1, <4>2 DEF Lapsed, Alive, Payload
                              <6>2. Alive(w) => IsBlacklisted(w)
                                    BY <5>1, <6>1, RevokedIsBlacklisted
                              <6>3. Refuse(w)
                                    BY <5>4, <6>2 DEF CheckHeader, CheckToken
                              <6> QED BY <1>0, <2>4, <3>1, <6>3
                                      DEF Refuse, Respond, To, Extends, LateRequest
                        <5> QED BY <1>0, <1>3, <2>4, <5>1, <5>2, <5>3, <5>4, Places DEF Outcomes
                  <4> QED BY <4>1, <4>2
            <3>2. CASE req[w].kind = "refresh" /\ req[w].lateAccess
                  <4>1. CASE now >= RefusedUntil(req[w].access)
                        BY <1>0, <1>2, <2>1, <2>4, <3>2, <4>1 DEF LateRequest
                  <4>2. CASE now < RefusedUntil(req[w].access)
                        <5>1. /\ apc[w] \in {"blacklist", "refused", "failed"}
                              /\ req[w].access \in revoked
                              BY <1>0, <1>1, <3>2, <4>2 DEF LateRequest
                        <5>2. ~Done(w)
                              BY <1>0, <2>4, <3>2 DEF Done, NoRequest, Extends
                        <5>3. CASE Abort(w)
                              BY <1>0, <2>4, <3>2, <5>3 DEF Abort, Fail, Respond, To, Extends, LateRequest
                        <5>4. CASE CheckNotBlacklisted(w)
                              <6>1. Refuse(w)
                                    BY <4>2, <5>1, <5>4, RevokedIsBlacklisted DEF CheckNotBlacklisted
                              <6> QED BY <1>0, <2>4, <3>2, <6>1 DEF Refuse, Respond, To, Extends, LateRequest
                        <5> QED BY <1>0, <1>3, <2>4, <5>1, <5>2, <5>3, <5>4, Places DEF Outcomes
                  <4> QED BY <1>0, <1>1, <3>2, <4>1, <4>2
            <3>3. CASE ~(req[w].kind \in {"access", "logout", "refresh"} /\ req[w].lateAccess)
                  BY <2>4, <3>3 DEF LateRequest
            <3> QED BY <3>1, <3>2, <3>3
      <2> QED BY <2>2, <2>3, <2>4
<1>4. CASE ~Serve(w)
      <2>1. Same(w) /\ Grows /\ now' \in Nat /\ now <= now'
            <3>1. CASE \E v \in Workers : Serve(v)
                  BY <1>0, <1>4, <3>1, OwnSteps
            <3>2. CASE ~\E v \in Workers : Serve(v)
                  BY <3>2, OtherSteps, OtherStepsGrow
            <3> QED BY <3>1, <3>2
      <2> QED BY <1>0, <1>2, <2>1 DEF Same, LateRequest
<1> QED BY <1>3, <1>4

(* Once a response has declared an access token dead, a later request with *)
(* it is let in only to refresh it when it has expired or, where tokens of *)
(* Keycloak last longer than those of LDAP, which is how long a mark does  *)
(* (token.py 194), when no more than the difference is left of it.         *)
THEOREM RevokedNeverReturns == Spec => []RevokedIsRefused
<1>1. Init => Near /\ MarksHold /\ LateIsStopped
      <2> SUFFICES ASSUME Init PROVE Near /\ MarksHold /\ LateIsStopped
            OBVIOUS
      <2>1. Near
            BY DEF Init, Near, Issued, NoRequest
      <2>2. MarksHold
            BY SessionNamesFit DEF Init, MapInit, MarksHold, WorkerMarks
      <2>3. LateIsStopped
            BY DEF Init, LateIsStopped, LateRequest, NoRequest
      <2> QED BY <2>1, <2>2, <2>3
<1>2. Fit /\ LateIsStopped => RevokedIsRefused
      <2> SUFFICES ASSUME Fit, LateIsStopped,
                          NEW w \in Workers, apc[w] = "ok", req[w].kind # "login", req[w].lateAccess
                   PROVE  /\ now >= RefusedUntil(req[w].access)
                          /\ \/ req[w].kind = "refresh"
                             \/ RefusedUntil(req[w].access) < token[req[w].access].exp
            BY DEF RevokedIsRefused
      <2>1. req[w].kind \in {"access", "logout", "refresh"}
            BY DEF Fit, WorkerFits, KindFits, Outcomes
      <2> QED BY <2>1 DEF LateIsStopped, LateRequest, Lapsed
<1>3. Fit /\ Near /\ MarksHold /\ LateIsStopped /\ [Next]_vars => (Near /\ MarksHold /\ LateIsStopped)'
      BY NextNear, NextMarks, NextLate
<1> QED BY <1>1, <1>2, <1>3, FitHolds, PTL DEF Spec

-----------------------------------------------------------------------------
(* The roles that are stored are those of a token, and so is the time they *)
(* are stored for: what was left of the token when a worker computed it,   *)
(* or a second, counted from when the worker writes it.                    *)
RolesFrom(a, u) ==
    LET r == store[RolesOf(u)] IN
    /\ token[a].user = u /\ token[a].roles = r.map["roles"]
    /\ r.expires > 0 /\ r.updated + r.expires <= token[a].exp + WorkerTimeout

RolesOrdered(w) ==
    /\ apc[w] \in {"cache", "store"} => req[w].start < Payload(w).exp
    /\ apc[w] = "stored" /\ mpc[w] = "setWrite" =>
          /\ arg[w].mapping = Field("roles", Payload(w).roles)
          /\ arg[w].expire > 0 /\ req[w].start + arg[w].expire <= Payload(w).exp

RolesHeld ==
    /\ \A u \in Users : store[RolesOf(u)] # Absent => \E a \in Issued : RolesFrom(a, u)
    /\ \A w \in Workers : RolesOrdered(w)

LEMMA NextRoles == Fit /\ RolesHeld /\ [Next]_vars => RolesHeld'
<1> SUFFICES ASSUME Fit, RolesHeld, [Next]_vars PROVE RolesHeld'
      OBVIOUS
<1>0. /\ Extends /\ StoreFits /\ now \in Nat /\ WorkerTimeout \in Nat
      /\ \A w \in Workers : WorkerFits(w)
      BY LifetimesAssumption DEF Fit, Extends
<1>1. ASSUME NEW w \in Workers, apc[w] \in {"check", "cache", "store", "stored"}
      PROVE  /\ req[w].access \in Issued
             /\ Payload(w).exp \in Nat /\ Payload(w).user \in Users
             /\ req[w].start \in Nat /\ req[w].start <= now /\ now <= req[w].start + WorkerTimeout
      BY <1>0, <1>1, TokenFits DEF WorkerFits, KindFits, RequestFits, CheckSteps, Payload, Payloads
<1>2. ASSUME NEW w \in Workers, Same(w), Grows PROVE RolesOrdered(w)'
      <2>1. apc[w] \in {"cache", "store", "stored"} => Payload(w)' = Payload(w)
            BY <1>1, <1>2 DEF Same, Grows, Payload
      <2>2. RolesOrdered(w)
            BY DEF RolesHeld
      <2> QED BY <1>2, <2>1, <2>2 DEF RolesOrdered, Same
<1>3. ASSUME NEW u \in Users, store'[RolesOf(u)] = store[RolesOf(u)], Grows,
             store'[RolesOf(u)] # Absent
      PROVE  \E a \in Issued' : RolesFrom(a, u)'
      BY <1>3 DEF RolesHeld, RolesFrom, Grows
<1>4. ASSUME NEW v \in Workers, Serve(v) PROVE RolesHeld'
      <2>1. now' = now /\ Grows /\ \A w \in Workers \ {v} : Same(w)
            BY <1>0, <1>4, OwnSteps
      <2>2. ASSUME NEW u \in Users, store'[RolesOf(u)] # store[RolesOf(u)]
            PROVE  \E a \in Issued' : RolesFrom(a, u)'
            <3> DEFINE n == RolesOf(u)
            <3>1. (MapSetWrite(v) \/ HExpire(v)) /\ n = Target(v)
                  BY <1>4, <2>2, WriteSites, NamesDiffer, SessionNamesFit
            <3>2. mpc[v] \in {"setWrite", "expire"}
                  BY <3>1 DEF MapSetWrite, HExpire
            <3>3. apc[v] = "stored" /\ mpc[v] = "setWrite" /\ MapSetWrite(v)
                  BY <1>0, <3>1, <3>2, NamesDiffer DEF WorkerFits, PendingFits, Target, HExpire
            <3>4. u = Payload(v).user /\ req[v].access \in Issued
                  <4>1. Target(v) = RolesOf(Payload(v).user)
                        BY <3>3 DEF Target
                  <4> QED BY <1>1, <3>1, <3>3, <4>1, NamesDiffer
            <3>5. /\ arg[v].name = n /\ arg[v].expire \in Nat
                  /\ arg[v].mapping = Field("roles", Payload(v).roles)
                  /\ arg[v].expire > 0 /\ req[v].start + arg[v].expire <= Payload(v).exp
                  BY <1>0, <3>1, <3>3 DEF RolesHeld, RolesOrdered, WorkerFits, PendingFits
            <3> DEFINE m == Updated(snap[v], arg[v].mapping)
            <3>6. m["roles"] = Payload(v).roles
                  BY <3>5 DEF Updated, Field
            <3> HIDE DEF m
            <3>7. Put(n, m, now, arg[v].expire)
                  BY <3>3, <3>5, AbsentAssumption DEF MapSetWrite, WriteBack, SetRecord, m
            <3>8. store'[n] = [map |-> m, updated |-> now, expires |-> arg[v].expire]
                  BY <1>0, <3>7, SessionNamesFit DEF Put, StoreFits
            <3>9. now + arg[v].expire <= Payload(v).exp + WorkerTimeout
                  BY <1>0, <1>1, <2>1, <3>3, <3>5
            <3>10. token'[req[v].access] = Payload(v) /\ req[v].access \in Issued'
                  BY <2>1, <3>4 DEF Grows, Payload
            <3> QED BY <3>4, <3>5, <3>6, <3>8, <3>9, <3>10 DEF RolesFrom
      <2>3. RolesOrdered(v)'
            <3>1. CASE Storing(v)
                  <4>1. UNCHANGED <<apc, req, token>> /\ mpc'[v] = "ready"
                        BY <1>0, <3>1 DEF Storing, authVars, MapStep, MapSetWrite, HExpire,
                                          MapDeleteWrite, WriteBack, End, Extends
                  <4> QED BY <4>1 DEF RolesHeld, RolesOrdered, Payload
            <3>2. CASE CheckHeader(v) /\ apc'[v] = "cache"
                  <4>1. Alive(v) /\ req' = req /\ apc[v] = "check" /\ token' = token
                        BY <1>0, <3>2 DEF CheckHeader, CheckToken, Refuse, Fail, Respond, To, At, Keep,
                                          Extends
                  <4>2. req[v].start < Payload(v).exp
                        BY <1>0, <1>1, <2>1, <4>1 DEF Alive
                  <4> QED BY <3>2, <4>1, <4>2 DEF RolesOrdered, Payload
            <3>3. CASE CheckTokenRoles(v) /\ apc'[v] = "store"
                  <4>1. apc[v] = "cache" /\ req' = req /\ token' = token
                        BY <1>0, <3>3 DEF CheckTokenRoles, Refuse, Respond, To, At, Keep, Extends
                  <4> QED BY <3>3, <4>1 DEF RolesHeld, RolesOrdered, Payload
            <3>4. CASE StoreRoles(v)
                  <4> DEFINE e == IF Payload(v).exp > now THEN Payload(v).exp - now ELSE 1
                  <4>1. /\ apc[v] = "store" /\ apc'[v] = "stored" /\ req' = req /\ token' = token
                        /\ backend = "file"
                        /\ MapSet(v, RolesOf(Payload(v).user), Field("roles", Payload(v).roles), e)
                        BY <1>0, <3>4 DEF StoreRoles, To, At, Keep, Extends
                  <4>2. req[v].start < Payload(v).exp
                        BY <4>1 DEF RolesHeld, RolesOrdered
                  <4>3. e > 0 /\ req[v].start + e <= Payload(v).exp
                        BY <1>0, <1>1, <2>1, <4>1, <4>2
                  <4> HIDE DEF e
                  <4>4. MapSetRead(v, RolesOf(Payload(v).user), Field("roles", Payload(v).roles), e)
                        BY <4>1 DEF MapSet, HSet
                  <4>5. arg'[v] = [name |-> RolesOf(Payload(v).user),
                                   mapping |-> Field("roles", Payload(v).roles), expire |-> e]
                        BY <1>0, <4>4 DEF MapSetRead, Begin, Extends
                  <4> QED BY <4>1, <4>3, <4>5 DEF RolesOrdered, Payload
            <3>5. CASE apc'[v] \notin {"cache", "store", "stored"}
                  BY <3>5 DEF RolesOrdered
            <3> QED BY <1>0, <1>4, <3>1, <3>2, <3>3, <3>4, <3>5, Places
      <2> QED BY <1>2, <1>3, <2>1, <2>2, <2>3 DEF RolesHeld
<1>5. CASE ~\E v \in Workers : Serve(v)
      <2>1. \A u \in Users : store'[RolesOf(u)] # Absent => store'[RolesOf(u)] = store[RolesOf(u)]
            BY <1>5, OtherSteps, SessionNamesFit
      <2> QED BY <1>2, <1>3, <1>5, <2>1, OtherStepsGrow DEF RolesHeld
<1> QED BY <1>4, <1>5

(* The roles cached for a user, which let any request of this user in, are *)
(* those of a token of the user that has not been expired for longer than  *)
(* one request may run (decorators.py, user_roles_cache.py): a role the    *)
(* user has lost is out of the cache when the tokens that carry it are.    *)
THEOREM CacheFollowsTokens == Spec => []CachedRolesExpire
<1>1. Init => RolesHeld
      BY SessionNamesFit DEF Init, MapInit, RolesHeld, RolesOrdered
<1>2. Fit /\ RolesHeld => CachedRolesExpire
      <2> SUFFICES ASSUME Fit, RolesHeld, NEW u \in Users, MapOf(RolesOf(u)) # Nothing
                   PROVE  \E a \in Issued : /\ token[a].user = u
                                            /\ token[a].roles = MapOf(RolesOf(u))["roles"]
                                            /\ now <= token[a].exp + WorkerTimeout
            BY DEF CachedRolesExpire
      <2>1. Live(RolesOf(u)) /\ MapOf(RolesOf(u)) = store[RolesOf(u)].map
            BY DEF MapOf
      <2>2. PICK a \in Issued : RolesFrom(a, u)
            BY <2>1 DEF RolesHeld, Live
      <2>3. /\ store[RolesOf(u)].updated \in Nat /\ store[RolesOf(u)].expires \in Nat
            /\ token[a].exp \in Nat /\ now \in Nat /\ WorkerTimeout \in Nat
            BY <2>1, SessionNamesFit, LifetimesAssumption
               DEF Fit, StoreFits, Extends, Live, Issued, Payloads
      <2>4. now <= token[a].exp + WorkerTimeout
            BY <2>1, <2>2, <2>3 DEF Live, Expired, RolesFrom
      <2> QED BY <2>1, <2>2, <2>4 DEF RolesFrom
<1> QED BY <1>1, <1>2, NextRoles, FitHolds, PTL DEF Spec

-----------------------------------------------------------------------------
(* What a step does to the sessions of a user. *)
LEMMA SessionWrites ==
    ASSUME Fit, NEW v \in Workers, Serve(v), NEW u \in Users
    PROVE  LET n == SessionsOf(u) IN
           \/ store'[n] = store[n] \/ store'[n] = Absent
           \/ /\ backend = "redis" /\ Live(n)
              /\ DOMAIN store'[n].map \subseteq DOMAIN store[n].map
              /\ \A r \in DOMAIN store'[n].map : store'[n].map[r] = store[n].map[r]
              /\ \/ store'[n].updated = store[n].updated /\ store'[n].expires = store[n].expires
                 \/ HExpire(v) /\ arg[v].name = n
           \/ /\ backend = "redis" /\ AddSession(v) /\ u = req[v].user
              /\ DOMAIN store'[n].map \subseteq DOMAIN MapOf(n) \cup {req[v].refresh}
           \/ /\ backend = "file" /\ MapSetWrite(v) /\ apc[v] = "issue" /\ u = req[v].user
              /\ arg[v].name = n
              /\ SetRecord(n, Updated(snap[v], arg[v].mapping), arg[v].expire)
           \/ /\ backend = "file" /\ MapDeleteWrite(v) /\ apc[v] \in {"bye", "dropped"}
              /\ u = Payload(v).user /\ arg[v].name = n
              /\ SetRecord(n, Without(snap[v], req[v].refresh), Absent)
<1> DEFINE n == SessionsOf(u)
           Goal ==
             \/ store'[n] = store[n] \/ store'[n] = Absent
             \/ /\ backend = "redis" /\ Live(n)
                /\ DOMAIN store'[n].map \subseteq DOMAIN store[n].map
                /\ \A r \in DOMAIN store'[n].map : store'[n].map[r] = store[n].map[r]
                /\ \/ store'[n].updated = store[n].updated /\ store'[n].expires = store[n].expires
                   \/ HExpire(v) /\ arg[v].name = n
             \/ /\ backend = "redis" /\ AddSession(v) /\ u = req[v].user
                /\ DOMAIN store'[n].map \subseteq DOMAIN MapOf(n) \cup {req[v].refresh}
             \/ /\ backend = "file" /\ MapSetWrite(v) /\ apc[v] = "issue" /\ u = req[v].user
                /\ arg[v].name = n
                /\ SetRecord(n, Updated(snap[v], arg[v].mapping), arg[v].expire)
             \/ /\ backend = "file" /\ MapDeleteWrite(v) /\ apc[v] \in {"bye", "dropped"}
                /\ u = Payload(v).user /\ arg[v].name = n
                /\ SetRecord(n, Without(snap[v], req[v].refresh), Absent)
<1> SUFFICES ASSUME store'[n] # store[n] PROVE Goal
      OBVIOUS
<1>0. Extends /\ StoreFits /\ WorkerFits(v) /\ n \in Names
      BY SessionNamesFit DEF Fit
<1>1. ASSUME NEW k, NEW m, NEW x, NEW y, Put(k, m, x, y)
      PROVE  n = k /\ store'[n].map = m /\ store'[n].updated = x /\ store'[n].expires = y
      BY <1>0, <1>1 DEF Put, StoreFits
<1>2. ASSUME NEW k, Delete(k) PROVE Goal
      BY <1>0, <1>2 DEF Delete, StoreFits
<1>3. ASSUME NEW k, MapDelete(v, SessionsOf(k), req[v].refresh) PROVE Goal
      <2>1. CASE HDel(v, SessionsOf(k), req[v].refresh)
            <3> DEFINE s == SessionsOf(k)
                       rest == Without(MapOf(s), req[v].refresh)
            <3>1. CASE rest = Nothing
                  <4>1. store' = [store EXCEPT ![s] = Absent]
                        BY <2>1, <3>1 DEF HDel
                  <4> QED BY <1>0, <4>1 DEF StoreFits
            <3>2. CASE rest # Nothing
                  <4>1. Put(s, rest, store[s].updated, store[s].expires) /\ backend = "redis"
                        BY <2>1, <3>2 DEF HDel
                  <4>2. /\ n = s /\ store'[n].map = rest
                        /\ store'[n].updated = store[n].updated /\ store'[n].expires = store[n].expires
                        BY <1>1, <4>1
                  <4>3. Live(s) /\ MapOf(s) = store[s].map
                        BY <3>2 DEF MapOf, Without, Nothing
                  <4>4. /\ DOMAIN rest \subseteq DOMAIN MapOf(s)
                        /\ \A r \in DOMAIN rest : rest[r] = MapOf(s)[r]
                        BY DEF Without
                  <4> HIDE DEF rest
                  <4> QED BY <4>1, <4>2, <4>3, <4>4
            <3> QED BY <3>1, <3>2
      <2> QED BY <1>3, <2>1 DEF MapDelete, MapDeleteRead, MapDeleteAbsent
<1>4. CASE AddSession(v)
      <2> DEFINE s == SessionsOf(req[v].user)
                 new == Field(req[v].refresh, [print |-> req[v].print, created |-> now,
                                     expires |-> RefreshLifetime(req[v].provider)])
      <2>1. HSet(v, s, new, RefreshLifetime(req[v].provider))
            BY <1>4 DEF AddSession, MapSet, MapSetRead
      <2>2. \E x, y : Put(s, Updated(MapOf(s), new), x, y) /\ backend = "redis"
            BY <2>1 DEF HSet
      <2>3. n = s /\ store'[n].map = Updated(MapOf(s), new)
            BY <1>1, <2>2
      <2>4. DOMAIN Updated(MapOf(s), new) = DOMAIN MapOf(s) \cup {req[v].refresh}
            BY DEF Updated, Field
      <2>5. u = req[v].user
            BY <2>3, NamesDiffer
      <2> QED BY <1>4, <2>2, <2>3, <2>4, <2>5
<1>5. CASE WipeSessions(v) \/ RemoveLastSession(v)
      BY <1>2, <1>5 DEF WipeSessions, RemoveLastSession
<1>6. CASE RemoveSession(v) \/ DropSession(v)
      BY <1>3, <1>6 DEF RemoveSession, DropSession
<1>7. CASE Storing(v)
      <2>1. CASE MapSetWrite(v)
            <3>1. /\ SetRecord(arg[v].name, Updated(snap[v], arg[v].mapping), arg[v].expire)
                  /\ mpc[v] = "setWrite"
                  BY <2>1 DEF MapSetWrite, WriteBack
            <3>2. n = arg[v].name
                  BY <1>1, <3>1 DEF SetRecord
            <3>3. arg[v].name = Target(v) /\ backend = "file"
                  /\ apc[v] \in {"issue", "stored", "burnt", "remove", "renew"}
                  BY <1>0, <3>1 DEF WorkerFits, PendingFits
            <3>4. apc[v] = "issue" /\ u = req[v].user
                  BY <3>2, <3>3, NamesDiffer DEF Target
            <3> QED BY <2>1, <3>1, <3>2, <3>3, <3>4
      <2>2. CASE HExpire(v)
            <3>1. /\ Live(arg[v].name) /\ mpc[v] = "expire"
                  /\ Put(arg[v].name, store[arg[v].name].map, now, arg[v].expire)
                  BY <2>2 DEF HExpire
            <3>2. n = arg[v].name /\ store'[n].map = store[n].map
                  BY <1>1, <3>1
            <3>3. backend = "redis"
                  BY <1>0, <3>1 DEF WorkerFits, PendingFits
            <3> QED BY <2>2, <3>1, <3>2, <3>3
      <2>3. CASE MapDeleteWrite(v)
            <3>1. /\ SetRecord(arg[v].name, Without(snap[v], arg[v].key), Absent)
                  /\ mpc[v] = "deleteWrite"
                  BY <2>3 DEF MapDeleteWrite, WriteBack
            <3>2. n = arg[v].name
                  BY <1>1, <3>1 DEF SetRecord
            <3>3. /\ arg[v].name = Target(v) /\ backend = "file" /\ apc[v] \in {"bye", "dropped"}
                  /\ arg[v].key = req[v].refresh
                  BY <1>0, <3>1 DEF WorkerFits, PendingFits
            <3>4. u = Payload(v).user
                  BY <3>2, <3>3, NamesDiffer DEF Target
            <3> QED BY <2>3, <3>1, <3>2, <3>3, <3>4
      <2> QED BY <1>7, <2>1, <2>2, <2>3 DEF Storing, MapStep
<1>8. CASE Burn(v) \/ RevokeForLogout(v) \/ RevokeForRefresh(v) \/ StoreRoles(v)
      <2>1. PICK a : \/ \E m, e : HSet(v, Blacklisted(a), m, e)
                     \/ \E m, e : HSet(v, RolesOf(a), m, e)
            BY <1>8 DEF Burn, RevokeForLogout, RevokeForRefresh, Blacklist, StoreRoles, MapSet,
                        MapSetRead
      <2>2. n = Blacklisted(a) \/ n = RolesOf(a)
            BY <1>1, <2>1 DEF HSet
      <2> QED BY <2>2, NamesDiffer
<1>9. store' # store
      OBVIOUS
<1>10. CASE Login(v) \/ Access(v) \/ Logout(v) \/ Refresh(v) \/ Done(v)
      BY <1>9, <1>10 DEF Login, Access, Logout, Refresh, Request, BeginRequest, Done,
                         KeepStorage, mapVars
<1>11. CASE CountSessions(v) \/ IssueToken(v) \/ CheckHeader(v) \/ RefuseBurnt(v)
           \/ CheckCachedRoles(v) \/ CheckTokenRoles(v) \/ StoreRolesFails(v) \/ RolesStored(v)
      BY <1>9, <1>11 DEF CountSessions, IssueToken, CheckHeader, RefuseBurnt, CheckCachedRoles,
                         CheckTokenRoles, StoreRolesFails, RolesStored, KeepStorage, mapVars
<1>12. CASE ReadSessions(v) \/ CheckAgain(v) \/ LeaveLdap(v) \/ LeaveKeycloak(v)
            \/ LeaveKeycloakFails(v) \/ NoSession(v) \/ ConfirmLogout(v)
      BY <1>9, <1>12 DEF ReadSessions, CheckAgain, LeaveLdap, LeaveKeycloak, LeaveKeycloakFails,
                         NoSession, ConfirmLogout, KeepStorage, mapVars
<1>13. CASE CheckNotBlacklisted(v) \/ RefuseSession(v) \/ RefuseDropped(v)
            \/ AcceptSession(v) \/ Renew(v) \/ Abort(v)
      BY <1>9, <1>13 DEF CheckNotBlacklisted, RefuseSession, RefuseDropped, AcceptSession, Renew,
                         Abort, KeepStorage, mapVars
<1> HIDE DEF Goal
<1> QED BY <1>4, <1>5, <1>6, <1>7, <1>8, <1>10, <1>11, <1>12, <1>13 DEF Serve

-----------------------------------------------------------------------------
(* The sessions a storage method has read and is to write back. *)
SessionSnap(w) ==
    \/ apc[w] = "issue" /\ mpc[w] = "setWrite"
    \/ mpc[w] = "deleteWrite"
SnapUser(w) == IF apc[w] = "issue" THEN req[w].user ELSE Payload(w).user

LEMMA ReadyServes ==
    ASSUME Fit, NEW v \in Workers, Serve(v), mpc[v] # "ready"
    PROVE  Storing(v) \/ Abort(v)
<1>1. apc[v] # "idle" /\ apc[v] \notin Outcomes
      BY DEF Fit, WorkerFits, KindFits
<1>2. ASSUME NEW x, At(v, x) PROVE FALSE
      BY <1>2 DEF At
<1>3. CASE Login(v) \/ Access(v) \/ Logout(v) \/ Refresh(v) \/ Done(v)
      BY <1>1, <1>3 DEF Login, Access, Logout, Refresh, Request, BeginRequest, Done, Outcomes
<1>4. CASE CountSessions(v) \/ WipeSessions(v) \/ AddSession(v) \/ IssueToken(v)
           \/ CheckHeader(v) \/ Burn(v) \/ RefuseBurnt(v) \/ CheckCachedRoles(v)
           \/ CheckTokenRoles(v) \/ StoreRoles(v) \/ StoreRolesFails(v) \/ RolesStored(v)
      BY <1>2, <1>4 DEF CountSessions, WipeSessions, AddSession, IssueToken, CheckHeader, Burn,
              Blacklist, RefuseBurnt, CheckCachedRoles, CheckTokenRoles, StoreRoles,
              StoreRolesFails, RolesStored
<1>5. CASE ReadSessions(v) \/ CheckAgain(v) \/ LeaveLdap(v) \/ LeaveKeycloak(v)
           \/ LeaveKeycloakFails(v) \/ RevokeForLogout(v) \/ NoSession(v)
           \/ RemoveLastSession(v) \/ RemoveSession(v) \/ ConfirmLogout(v)
      BY <1>2, <1>5 DEF ReadSessions, CheckAgain, LeaveLdap, LeaveKeycloak, LeaveKeycloakFails,
              RevokeForLogout, Blacklist, NoSession, RemoveLastSession, RemoveSession, ConfirmLogout
<1>6. CASE CheckNotBlacklisted(v) \/ RefuseSession(v) \/ DropSession(v) \/ RefuseDropped(v)
           \/ AcceptSession(v) \/ RevokeForRefresh(v) \/ Renew(v)
      BY <1>2, <1>6 DEF CheckNotBlacklisted, RefuseSession, DropSession, RefuseDropped,
              AcceptSession, RevokeForRefresh, Blacklist, Renew
<1> QED BY <1>3, <1>4, <1>5, <1>6 DEF Serve

LEMMA SnapSites ==
    ASSUME Fit, NEW v \in Workers, Serve(v), SessionSnap(v)'
    PROVE  /\ SnapUser(v)' \in Users /\ snap'[v] = Sessions(SnapUser(v)')
           /\ AddSession(v) \/ RemoveSession(v) \/ DropSession(v)
           /\ backend = "file"
           /\ AddSession(v) =>
                arg'[v] = [name |-> SessionsOf(req[v].user),
                           mapping |-> Field(req[v].refresh,
                               [print |-> req[v].print, created |-> now,
                                expires |-> RefreshLifetime(req[v].provider)]),
                           expire |-> RefreshLifetime(req[v].provider)]
           /\ (RemoveSession(v) \/ DropSession(v)) => apc'[v] # "issue"
<1>0. Extends /\ WorkerFits(v) /\ KindFits(v)' /\ PendingFits(v)' /\ Grows
      BY OwnKind, OwnPending, OwnSteps DEF Fit
<1>1. mpc'[v] # "ready" /\ apc'[v] \in {"issue", "bye", "dropped"}
      BY <1>0 DEF SessionSnap, PendingFits
<1>2. CASE AddSession(v)
      <2> DEFINE s == SessionsOf(req[v].user)
                 new == Field(req[v].refresh, [print |-> req[v].print, created |-> now,
                                     expires |-> RefreshLifetime(req[v].provider)])
                 e == RefreshLifetime(req[v].provider)
      <2>1. MapSet(v, s, new, e) /\ apc[v] = "add" /\ apc'[v] = "issue" /\ req' = req
            BY <1>0, <1>2 DEF AddSession, At, To, Keep, Extends
      <2>2. ~HSet(v, s, new, e)
            <3>1. ASSUME HSet(v, s, new, e) PROVE mpc'[v] \in {"expire", "ready"}
                  BY <1>0, <3>1 DEF HSet, Begin, Complete, Extends
            <3> QED BY <2>1, <3>1 DEF SessionSnap
      <2>3. MapSetRead(v, s, new, e)
            BY <2>1, <2>2 DEF MapSet
      <2>4. snap'[v] = MapOf(s) /\ arg'[v] = [name |-> s, mapping |-> new, expire |-> e]
            /\ backend = "file"
            BY <1>0, <2>3 DEF MapSetRead, Begin, Extends
      <2>5. req[v].user \in Users
            BY <1>0, <2>1, LoginFits DEF WorkerFits, KindFits, LoginSteps
      <2>6. SnapUser(v)' = req[v].user
            BY <2>1 DEF SnapUser
      <2>7. ~RemoveSession(v) /\ ~DropSession(v)
            BY <2>1 DEF RemoveSession, DropSession, At
      <2> QED BY <1>2, <2>4, <2>5, <2>6, <2>7 DEF Sessions
<1>3. CASE RemoveSession(v) \/ DropSession(v)
      <2> DEFINE s == SessionsOf(Payload(v).user)
      <2>1. /\ MapDelete(v, s, req[v].refresh) /\ apc[v] \in {"remove", "find"}
            /\ apc'[v] \in {"bye", "dropped"} /\ req' = req /\ token' = token
            BY <1>0, <1>3 DEF RemoveSession, DropSession, At, To, Keep, Extends
      <2>2. MapDeleteRead(v, s, req[v].refresh)
            BY <1>1, <2>1 DEF MapDelete, MapDeleteAbsent, HDel, Complete
      <2>3. snap'[v] = MapOf(s) /\ backend = "file"
            BY <1>0, <2>2 DEF MapDeleteRead, Begin, Extends
      <2>4. Payload(v).user \in Users
            BY <1>0, <2>1, TokenFits DEF WorkerFits, KindFits, LogoutSteps, RefreshSteps, Payloads
      <2>5. SnapUser(v)' = Payload(v).user
            BY <2>1 DEF SnapUser, Payload
      <2>6. ~AddSession(v)
            BY <2>1 DEF AddSession, At
      <2> QED BY <1>3, <2>1, <2>3, <2>4, <2>5, <2>6 DEF Sessions
<1>4. ASSUME Storing(v) \/ Abort(v) PROVE FALSE
      BY <1>0, <1>1, <1>4 DEF Storing, MapStep, MapSetWrite, HExpire, MapDeleteWrite, WriteBack, End,
                              Abort, Extends
<1>5. ~(Storing(v) \/ Abort(v))
      BY <1>4
<1>6. mpc[v] = "ready"
      BY <1>5, ReadyServes
<1>7. CASE RemoveLastSession(v)
      BY <1>1, <1>6, <1>7 DEF RemoveLastSession, Delete
<1>8. CASE Login(v) /\ apc'[v] = "issue"
      BY <1>0, <1>8 DEF Login, BeginRequest, To, Extends
<1> QED BY <1>0, <1>1, <1>2, <1>3, <1>5, <1>7, <1>8, Places

-----------------------------------------------------------------------------
(* Where a refresh token can be met: among the sessions of its user, in    *)
(* the request of its login, among the sessions a logout has found or a    *)
(* method is to write back.  It is met with one user only.                 *)
Owns(r, u) ==
    \/ r \in DOMAIN Sessions(u)
    \/ \E w \in Workers : req[w].kind = "login" /\ req[w].refresh = r /\ req[w].user = u
    \/ \E w \in Workers : req[w].kind = "logout" /\ r \in DOMAIN found[w] /\ Payload(w).user = u
    \/ \E w \in Workers : SessionSnap(w) /\ r \in DOMAIN snap[w] /\ SnapUser(w) = u

OneOwner == \A r : \A u, v \in Users : Owns(r, u) /\ Owns(r, v) => u = v

(* What a worker in a login is to add, and what one in a logout has found. *)
Tidy(w) ==
    /\ DOMAIN found[w] \subseteq made
    /\ req[w].kind # "logout" => found[w] = Nothing
    /\ apc[w] = "issue" /\ mpc[w] = "setWrite" => DOMAIN arg[w].mapping = {req[w].refresh}
    /\ apc[w] = "bye" => req[w].refresh \in DOMAIN found[w]

(* A login that has not added its session: nobody has met its token.       *)
NotAdded(w) ==
    \/ apc[w] \in {"count", "wipe", "add"}
    \/ apc[w] = "issue" /\ mpc[w] = "setWrite"

Unseen(w, r) ==
    /\ r \notin loggedIn /\ r \notin loggedOut
    /\ \A u \in Users : r \notin DOMAIN Sessions(u)
    /\ \A x \in Workers : /\ r \notin DOMAIN found[x]
                          /\ SessionSnap(x) => r \notin DOMAIN snap[x]
                          /\ x # w /\ req[x].kind = "login" => req[x].refresh # r

(* A token that is logged out is among no sessions, and is refused.        *)
Gone(r) == \A u \in Users : r \notin DOMAIN Sessions(u)

OutGone ==
    ~raced => /\ \A r \in loggedOut : Gone(r)
              /\ \A w \in Workers : apc[w] = "bye" /\ mpc[w] = "ready" => Gone(req[w].refresh)

LateRefused(w) ==
    ~raced /\ req[w].kind = "refresh" /\ req[w].lateRefresh =>
        apc[w] \in {"blacklist", "find", "refused", "failed"}

Kept ==
    /\ OneOwner
    /\ \A w \in Workers : Tidy(w)
    /\ \A w \in Workers : NotAdded(w) => Unseen(w, req[w].refresh)
    /\ OutGone
    /\ \A w \in Workers : LateRefused(w)

(* A session that is there after a step was there before, or is the one a  *)
(* login adds, or is written back although it was gone.                    *)
LEMMA SessionsAfter ==
    ASSUME Fit, NEW v \in Workers, Serve(v), Tidy(v), NEW u \in Users,
           NEW r \in DOMAIN Sessions(u)', r \notin DOMAIN Sessions(u)
    PROVE  \/ r = req[v].refresh /\ u = req[v].user /\ NotAdded(v) /\ req[v].kind = "login"
           \/ r \in DOMAIN snap[v] /\ SessionSnap(v) /\ u = SnapUser(v) /\ raced'
<1> DEFINE n == SessionsOf(u)
<1>0. /\ StoreFits /\ n \in Names /\ now' = now /\ backend' = backend /\ WorkerFits(v)
      /\ n \in DOMAIN store
      BY OwnSteps, SessionNamesFit DEF Fit, Grows, StoreFits
<1>1. Live(n)' /\ r \in DOMAIN store'[n].map
      BY DEF Sessions, MapOf, Nothing
<1>2. store'[n] # Absent
      BY <1>1 DEF Live
<1>3. ASSUME NEW m, NEW e, SetRecord(n, m, e) PROVE r \in DOMAIN m
      BY <1>0, <1>1, <1>3 DEF SetRecord, Put, StoreFits
<1>4. ASSUME Live(n) PROVE r \notin DOMAIN store[n].map
      BY <1>4 DEF Sessions, MapOf
<1>5. store'[n] # store[n]
      <2>1. ASSUME store'[n] = store[n] PROVE Live(n)
            BY <1>0, <1>1, <2>1 DEF Live, Expired
      <2> QED BY <1>1, <1>4, <2>1
<1>6. CASE /\ AddSession(v) /\ u = req[v].user
           /\ DOMAIN store'[n].map \subseteq DOMAIN MapOf(n) \cup {req[v].refresh}
      <2>1. apc[v] = "add"
            BY <1>6 DEF AddSession, At
      <2> QED BY <1>0, <1>1, <1>6, <2>1 DEF Sessions, NotAdded, WorkerFits, KindFits, LoginSteps
<1>7. CASE /\ MapSetWrite(v) /\ apc[v] = "issue" /\ u = req[v].user /\ arg[v].name = n
           /\ SetRecord(n, Updated(snap[v], arg[v].mapping), arg[v].expire)
      <2>1. mpc[v] = "setWrite" /\ (raced' <=> raced \/ snap[v] # MapOf(n))
            BY <1>7 DEF MapSetWrite, WriteBack
      <2>2. DOMAIN Updated(snap[v], arg[v].mapping) = DOMAIN snap[v] \cup {req[v].refresh}
            BY <1>7, <2>1 DEF Updated, Tidy
      <2>3. r \in DOMAIN snap[v] \/ r = req[v].refresh
            BY <1>3, <1>7, <2>2
      <2>4. NotAdded(v) /\ req[v].kind = "login" /\ SessionSnap(v) /\ SnapUser(v) = u
            BY <1>0, <1>7, <2>1 DEF NotAdded, WorkerFits, KindFits, LoginSteps, SessionSnap, SnapUser
      <2> QED BY <1>7, <2>1, <2>3, <2>4 DEF Sessions
<1>8. CASE /\ MapDeleteWrite(v) /\ apc[v] \in {"bye", "dropped"} /\ u = Payload(v).user
           /\ arg[v].name = n /\ SetRecord(n, Without(snap[v], req[v].refresh), Absent)
      <2>1. mpc[v] = "deleteWrite" /\ (raced' <=> raced \/ snap[v] # MapOf(n))
            BY <1>8 DEF MapDeleteWrite, WriteBack
      <2>2. r \in DOMAIN snap[v]
            BY <1>3, <1>8 DEF Without
      <2>3. SessionSnap(v) /\ SnapUser(v) = u
            BY <1>8, <2>1 DEF SessionSnap, SnapUser
      <2> QED BY <2>1, <2>2, <2>3 DEF Sessions
<1> QED BY <1>1, <1>2, <1>4, <1>5, <1>6, <1>7, <1>8, SessionWrites

(* A logout has removed the session when it comes to its end.              *)
LEMMA Removed ==
    ASSUME Fit, NEW v \in Workers, Serve(v),
           apc'[v] = "bye", mpc'[v] = "ready", apc[v] # "bye" \/ mpc[v] # "ready",
           NEW u, u = Payload(v).user
    PROVE  /\ req' = req /\ token' = token /\ req[v].kind = "logout" /\ u \in Users
           /\ req[v].refresh \notin DOMAIN Sessions(u)'
<1> DEFINE n == SessionsOf(u)
<1>0. Extends /\ StoreFits /\ WorkerFits(v) /\ now' = now /\ backend' = backend
      BY OwnSteps DEF Fit, Grows
<1>1. ASSUME u \in Users, NEW m, NEW x, NEW y, Put(n, Without(m, req[v].refresh), x, y)
      PROVE  req[v].refresh \notin DOMAIN Sessions(u)'
      <2>1. store'[n].map = Without(m, req[v].refresh)
            BY <1>0, <1>1, SessionNamesFit DEF Put, StoreFits
      <2>2. req[v].refresh \notin DOMAIN store'[n].map
            BY <2>1 DEF Without
      <2> QED BY <2>2 DEF Sessions, MapOf, Nothing
<1>2. ASSUME u \in Users, store'[n] = Absent \/ (store' = store /\ req[v].refresh \notin DOMAIN MapOf(n))
      PROVE  req[v].refresh \notin DOMAIN Sessions(u)'
      BY <1>0, <1>2 DEF Sessions, MapOf, Nothing, Live, Expired
<1>3. CASE RemoveLastSession(v) \/ RemoveSession(v)
      <2>1. apc[v] = "remove" /\ req' = req /\ token' = token
            BY <1>3 DEF RemoveLastSession, RemoveSession, At, Keep
      <2>2. req[v].kind = "logout" /\ u \in Users /\ n \in Names
            BY <1>0, <2>1, TokenFits, SessionNamesFit
               DEF WorkerFits, KindFits, LogoutSteps, Payloads
      <2>3. CASE RemoveLastSession(v)
            <3>1. store'[n] = Absent
                  BY <1>0, <2>2, <2>3 DEF RemoveLastSession, Delete, StoreFits
            <3> QED BY <1>2, <2>1, <2>2, <3>1
      <2>4. CASE MapDeleteAbsent(v, n, req[v].refresh)
            BY <1>2, <2>1, <2>2, <2>4 DEF MapDeleteAbsent
      <2>5. CASE HDel(v, n, req[v].refresh)
            <3>1. \/ store'[n] = Absent
                  \/ \E x, y : Put(n, Without(MapOf(n), req[v].refresh), x, y)
                  BY <1>0, <2>2, <2>5 DEF HDel, StoreFits
            <3> QED BY <1>1, <1>2, <2>1, <2>2, <3>1
      <2>6. ~MapDeleteRead(v, n, req[v].refresh)
            BY <1>0 DEF MapDeleteRead, Begin, Extends
      <2> QED BY <1>3, <2>3, <2>4, <2>5, <2>6 DEF RemoveSession, MapDelete
<1>4. CASE Storing(v)
      <2>1. apc' = apc /\ req' = req /\ token' = token /\ mpc[v] # "ready"
            BY <1>4 DEF Storing, authVars, MapStep, MapSetWrite, HExpire, MapDeleteWrite
      <2>2. req[v].kind = "logout" /\ u \in Users
            BY <1>0, <2>1, TokenFits DEF WorkerFits, KindFits, LogoutSteps, Payloads
      <2>3. mpc[v] = "deleteWrite" /\ arg[v].name = n /\ arg[v].key = req[v].refresh
            BY <1>0, <2>1 DEF Extends, WorkerFits, PendingFits, Target
      <2>4. PICK x, y : Put(n, Without(snap[v], req[v].refresh), x, y)
            BY <1>4, <2>3 DEF Storing, MapStep, MapSetWrite, HExpire, MapDeleteWrite, WriteBack, SetRecord
      <2> QED BY <1>1, <2>1, <2>2, <2>4
<1> QED BY <1>0, <1>3, <1>4, Places

(* What is met has been made.                                              *)
LEMMA SnapMade ==
    ASSUME Fit, NEW w \in Workers, SessionSnap(w)
    PROVE  DOMAIN snap[w] \subseteq made
<1>1. CASE mpc[w] = "deleteWrite"
      BY <1>1 DEF Fit, WorkerFits, PendingFits, HoldsSessions
<1>2. CASE apc[w] = "issue" /\ mpc[w] = "setWrite"
      <2>1. req[w].user \in Users
            BY <1>2, LoginFits DEF Fit, WorkerFits, KindFits, LoginSteps
      <2>2. snap[w] = Nothing \/ HoldsSessions(snap[w])
            BY <1>2, <2>1, SessionNamesFit DEF Fit, WorkerFits, PendingFits, Target
      <2> QED BY <2>2 DEF Nothing, HoldsSessions
<1> QED BY <1>1, <1>2 DEF SessionSnap

LEMMA OwnsMade ==
    ASSUME Fit, \A w \in Workers : Tidy(w), NEW r, NEW u \in Users, Owns(r, u)
    PROVE  r \in made
<1>1. CASE r \in DOMAIN Sessions(u)
      BY <1>1, SessionsFit DEF Fit, Sessions, HoldsSessions
<1>2. CASE \E w \in Workers : req[w].kind = "login" /\ req[w].refresh = r
      BY <1>2, LoginFits
<1>3. CASE \E w \in Workers : r \in DOMAIN found[w]
      BY <1>3 DEF Tidy
<1>4. CASE \E w \in Workers : SessionSnap(w) /\ r \in DOMAIN snap[w]
      BY <1>4, SnapMade
<1> QED BY <1>1, <1>2, <1>3, <1>4 DEF Owns

(* Where the request, and what a logout has found, come from.              *)
LEMMA FoundSites ==
    ASSUME Fit, NEW v \in Workers, Serve(v), Tidy(v)
    PROVE  /\ \/ found'[v] = found[v] /\ (req'[v].kind = "logout" /\ found[v] # Nothing
                                              => req'[v] = req[v] /\ token' = token)
              \/ found'[v] = Nothing
              \/ /\ req[v].kind = "logout" /\ req' = req /\ token' = token
                 /\ Payload(v).user \in Users /\ found'[v] = Sessions(Payload(v).user)
           /\ req'[v].kind # "logout" => found'[v] = Nothing
<1>0. Extends /\ WorkerFits(v) /\ KindFits(v)' /\ Grows
      BY OwnKind, OwnSteps DEF Fit
<1>1. CASE ReadSessions(v)
      <2>1. apc[v] = "sessions" /\ req' = req /\ token' = token
            /\ found'[v] \in {found[v], Sessions(Payload(v).user)}
            BY <1>0, <1>1 DEF ReadSessions, At, Refuse, Fail, Respond, Sessions, Extends
      <2>2. req[v].kind = "logout"
            BY <1>0, <2>1 DEF WorkerFits, KindFits, LogoutSteps
      <2> QED BY <2>1, <2>2, TokenFits DEF Payloads
<1>2. CASE Done(v)
      BY <1>0, <1>2 DEF Done, Extends
<1>3. CASE Storing(v)
      BY <1>3 DEF Storing, authVars, Tidy
<1>4. CASE (Login(v) \/ Access(v) \/ Logout(v) \/ Refresh(v)) /\ apc[v] = "idle"
      <2>1. req[v].kind = "none"
            BY <1>0, <1>4 DEF WorkerFits, KindFits, NoRequest
      <2>2. found' = found
            BY <1>4 DEF Login, Access, Logout, Refresh, Request, BeginRequest
      <2> QED BY <2>1, <2>2 DEF Tidy
<1>5. CASE ~ReadSessions(v) /\ ~Done(v) /\ req'[v] = req[v]
      <2>1. found'[v] = found[v]
            BY <1>0, <1>5, Places
      <2>2. CASE token' = token
            BY <1>5, <2>1, <2>2 DEF Tidy
      <2>3. CASE IssueToken(v) \/ Renew(v)
            <3>1. (IssueToken(v) => apc[v] = "issue") /\ (Renew(v) => apc[v] = "renew")
                  BY DEF IssueToken, Renew, At
            <3>2. req[v].kind # "logout"
                  BY <1>0, <2>3, <3>1 DEF WorkerFits, KindFits, LoginSteps, RefreshSteps
            <3> QED BY <1>5, <2>1, <3>2 DEF Tidy
      <2> QED BY <1>0, <2>2, <2>3, Places
<1>6. ASSUME Login(v) \/ Access(v) \/ Logout(v) \/ Refresh(v) PROVE apc[v] = "idle"
      BY <1>6 DEF Login, Access, Logout, Refresh, Request, BeginRequest
<1> QED BY <1>0, <1>1, <1>2, <1>3, <1>4, <1>5, <1>6, Places

(* What a worker in no step keeps of another one's request.                *)
LEMMA PayloadStays ==
    ASSUME Fit, Grows, NEW w \in Workers, Same(w), req[w].kind \in {"access", "logout", "refresh"}
    PROVE  Payload(w)' = Payload(w)
BY DEF Fit, WorkerFits, RequestFits, Grows, Same, Payload

LEMMA SnapStays ==
    ASSUME Fit, Grows, NEW w \in Workers, Same(w), SessionSnap(w)'
    PROVE  SessionSnap(w) /\ SnapUser(w)' = SnapUser(w) /\ snap'[w] = snap[w]
<1>1. SessionSnap(w) /\ apc'[w] = apc[w] /\ req'[w] = req[w] /\ snap'[w] = snap[w]
      BY DEF SessionSnap, Same
<1>2. CASE apc[w] = "issue"
      BY <1>1, <1>2 DEF SnapUser
<1>3. CASE apc[w] # "issue"
      <2>1. req[w].kind \in {"access", "logout", "refresh"}
            BY <1>1, <1>3 DEF SessionSnap, Fit, WorkerFits, PendingFits, KindFits,
                              LogoutSteps, RefreshSteps
      <2> QED BY <1>1, <1>3, <2>1, PayloadStays DEF SnapUser
<1> QED BY <1>2, <1>3, <1>1

(* A token that is met was met before with the same user, or has just been *)
(* made.                                                                   *)
LEMMA OwnsBefore ==
    ASSUME Fit, \A w \in Workers : Tidy(w), NEW v \in Workers, Serve(v),
           NEW r, NEW u \in Users, Owns(r, u)'
    PROVE  \/ Owns(r, u)
           \/ Login(v) /\ r \notin made /\ req'[v].refresh = r /\ req'[v].user = u
<1>0. Extends /\ WorkerFits(v) /\ KindFits(v)' /\ Grows /\ \A w \in Workers \ {v} : Same(w)
      BY OwnKind, OwnSteps DEF Fit
<1>1. CASE r \in DOMAIN Sessions(u)'
      BY <1>1, SessionsAfter DEF Owns
<1>2. ASSUME NEW w \in Workers, req'[w].kind = "login", req'[w].refresh = r, req'[w].user = u
      PROVE  \/ Owns(r, u)
             \/ Login(v) /\ r \notin made /\ req'[v].refresh = r /\ req'[v].user = u
      <2>1. CASE req'[w] = req[w]
            BY <1>2, <2>1 DEF Owns
      <2>2. CASE w = v /\ Login(v)
            <3>1. PICK x \in RefreshTokens \ made : req'[v].refresh = x
                  BY <1>0, <2>2 DEF Login, BeginRequest, Extends
            <3> QED BY <1>2, <2>2, <3>1
      <2>3. CASE w = v /\ (apc'[v] \in {"check", "blacklist"} \/ req'[v] = NoRequest)
            BY <1>0, <1>2, <2>3 DEF KindFits, CheckSteps, RefreshSteps, NoRequest
      <2>4. Storing(v) => req' = req
            BY DEF Storing, authVars
      <2> QED BY <1>0, <2>1, <2>2, <2>3, <2>4, Places DEF Same
<1>3. ASSUME NEW w \in Workers, req'[w].kind = "logout", r \in DOMAIN found'[w], Payload(w)'.user = u
      PROVE  Owns(r, u)
      <2>1. CASE w # v
            BY <1>0, <1>3, <2>1, PayloadStays DEF Owns, Same
      <2>2. CASE w = v
            <3>1. found'[v] # Nothing
                  BY <1>3, <2>2 DEF Nothing
            <3>2. CASE found'[v] = found[v] /\ req'[v] = req[v] /\ token' = token
                  <4>1. Payload(v)' = Payload(v)
                        BY <3>2 DEF Payload
                  <4> QED BY <1>3, <2>2, <3>2, <4>1 DEF Owns
            <3>3. CASE req' = req /\ token' = token /\ found'[v] = Sessions(Payload(v).user)
                  <4>1. Payload(v)' = Payload(v)
                        BY <3>3 DEF Payload
                  <4> QED BY <1>3, <2>2, <3>3, <4>1 DEF Owns
            <3> QED BY <1>3, <2>2, <3>1, <3>2, <3>3, FoundSites
      <2> QED BY <2>1, <2>2
<1>4. ASSUME NEW w \in Workers, SessionSnap(w)', r \in DOMAIN snap'[w], SnapUser(w)' = u
      PROVE  Owns(r, u)
      <2>1. CASE w # v
            BY <1>0, <1>4, <2>1, SnapStays DEF Owns
      <2>2. CASE w = v
            BY <1>4, <2>2, SnapSites DEF Owns
      <2> QED BY <2>1, <2>2
<1> QED BY <1>1, <1>2, <1>3, <1>4 DEF Owns

LEMMA OwnOneOwner ==
    ASSUME Fit, Kept, NEW v \in Workers, Serve(v)
    PROVE  OneOwner'
<1> SUFFICES ASSUME NEW r, NEW u1 \in Users, NEW u2 \in Users, Owns(r, u1)', Owns(r, u2)'
             PROVE  u1 = u2
      BY DEF OneOwner
<1>1. \A w \in Workers : Tidy(w)
      BY DEF Kept
<1>2. CASE r \in made
      BY <1>1, <1>2, OwnsBefore DEF Kept, OneOwner
<1>3. CASE r \notin made
      BY <1>1, <1>3, OwnsBefore, OwnsMade
<1> QED BY <1>2, <1>3

LEMMA OwnTidy ==
    ASSUME Fit, NEW v \in Workers, Serve(v), Tidy(v)
    PROVE  Tidy(v)'
<1>0. Extends /\ StoreFits /\ WorkerFits(v) /\ Grows /\ PendingFits(v)'
      BY OwnSteps, OwnPending DEF Fit
<1>1. DOMAIN found'[v] \subseteq made'
      <2>1. ASSUME Payload(v).user \in Users PROVE DOMAIN Sessions(Payload(v).user) \subseteq made
            BY <1>0, <2>1, SessionsFit DEF Sessions, HoldsSessions
      <2> QED BY <1>0, <2>1, FoundSites DEF Tidy, Grows, Nothing
<1>2. req'[v].kind # "logout" => found'[v] = Nothing
      BY FoundSites
<1>3. ASSUME apc'[v] = "issue", mpc'[v] = "setWrite"
      PROVE  DOMAIN arg'[v].mapping = {req'[v].refresh}
      <2>1. SessionSnap(v)'
            BY <1>3 DEF SessionSnap
      <2>2. AddSession(v)
            BY <1>3, <2>1, SnapSites
      <2>3. req' = req
            BY <2>2 DEF AddSession, Keep
      <2> DEFINE e == [print |-> req[v].print, created |-> now,
                       expires |-> RefreshLifetime(req[v].provider)]
      <2>4. arg'[v] = [name |-> SessionsOf(req[v].user), mapping |-> Field(req[v].refresh, e),
                       expire |-> RefreshLifetime(req[v].provider)]
            BY <2>1, <2>2, SnapSites
      <2> HIDE DEF e
      <2>5. arg'[v].mapping = Field(req[v].refresh, e)
            BY <2>4
      <2> QED BY <2>3, <2>5 DEF Field
<1>4. ASSUME apc'[v] = "bye"
      PROVE  req'[v].refresh \in DOMAIN found'[v]
      <2>1. CASE RemoveLastSession(v) \/ RemoveSession(v)
            BY <2>1 DEF RemoveLastSession, RemoveSession, Keep
      <2>2. CASE Storing(v)
            BY <1>4, <2>2 DEF Storing, authVars, Tidy
      <2> QED BY <1>0, <1>4, <2>1, <2>2, Places
<1> QED BY <1>1, <1>2, <1>3, <1>4 DEF Tidy

LEMMA OthersTidy ==
    ASSUME Grows, NEW w \in Workers, Same(w), Tidy(w)
    PROVE  Tidy(w)'
BY DEF Grows, Same, Tidy

(* A token nobody has met is met by no step but that of its login.         *)
LEMMA UnseenStays ==
    ASSUME Fit, Kept, NEW v \in Workers, Serve(v), NEW w, NEW r \in made, Unseen(w, r),
           v = w \/ ~(req[v].kind = "login" /\ req[v].refresh = r), ~(v = w /\ MapSetWrite(v)),
           ~(v = w /\ AddSession(v) /\ backend = "redis"), ~(v = w /\ IssueToken(v))
    PROVE  Unseen(w, r)'
<1>0. /\ Extends /\ WorkerFits(v) /\ KindFits(v)' /\ Grows /\ \A x \in Workers \ {v} : Same(x)
      /\ Tidy(v)
      BY OwnKind, OwnSteps DEF Fit, Kept
<1>1. r \notin loggedOut'
      <2>1. CASE ConfirmLogout(v)
            <3>1. loggedOut' = loggedOut \cup {req[v].refresh} /\ apc[v] = "bye"
                  BY <2>1 DEF ConfirmLogout, Respond, At
            <3> QED BY <1>0, <3>1 DEF Tidy, Unseen
      <2> QED BY <1>0, <2>1, Places DEF Unseen
<1>a. r \notin loggedIn'
      <2>1. CASE IssueToken(v)
            <3>1. loggedIn' = loggedIn \cup {req[v].refresh} /\ req[v].kind = "login"
                  BY <1>0, <2>1 DEF IssueToken, At, WorkerFits, KindFits, LoginSteps
            <3> QED BY <2>1, <3>1 DEF Unseen
      <2> QED BY <1>0, <2>1, Places DEF Unseen
<1>2. ASSUME NEW u \in Users PROVE r \notin DOMAIN Sessions(u)'
      <2> SUFFICES ASSUME r \in DOMAIN Sessions(u)' PROVE FALSE
            OBVIOUS
      <2>1. r \notin DOMAIN Sessions(u) /\ (SessionSnap(v) => r \notin DOMAIN snap[v])
            BY DEF Unseen
      <2>2. r = req[v].refresh /\ NotAdded(v) /\ req[v].kind = "login"
            BY <1>0, <2>1, SessionsAfter
      <2>3. v = w /\ Sessions(u)' # Sessions(u)
            BY <2>1, <2>2
      <2>4. /\ ~(backend = "redis" /\ AddSession(v)) /\ ~MapSetWrite(v)
            BY <2>3
      <2>5. store'[SessionsOf(u)] # store[SessionsOf(u)] /\ store'[SessionsOf(u)] # Absent
            <3>1. now' = now /\ backend' = backend
                  BY <1>0, OwnSteps DEF Grows
            <3> QED BY <2>1, <3>1 DEF Sessions, MapOf, Live, Expired, Nothing
      <2>6. ~MapDeleteWrite(v)
            BY <1>0, <2>2 DEF MapDeleteWrite, NotAdded, WorkerFits, PendingFits
      <2>7. backend = "redis" /\ Live(SessionsOf(u))
            /\ DOMAIN store'[SessionsOf(u)].map \subseteq DOMAIN store[SessionsOf(u)].map
            BY <2>4, <2>5, <2>6, SessionWrites
      <2> QED BY <2>1, <2>7 DEF Sessions, MapOf, Nothing
<1>3. ASSUME NEW x \in Workers
      PROVE  /\ r \notin DOMAIN found'[x]
             /\ SessionSnap(x)' => r \notin DOMAIN snap'[x]
             /\ x # w /\ req'[x].kind = "login" => req'[x].refresh # r
      <2>1. CASE x # v
            BY <1>0, <2>1 DEF Same, Unseen, SessionSnap
      <2>2. CASE x = v
            <3>1. r \notin DOMAIN found'[v]
                  BY <1>0, FoundSites DEF Unseen, Nothing
            <3>2. SessionSnap(v)' => r \notin DOMAIN snap'[v]
                  BY SnapSites DEF Unseen
            <3>3. ASSUME v # w, req'[v].kind = "login" PROVE req'[v].refresh # r
                  <4>1. CASE req'[v] = req[v]
                        BY <3>3, <4>1
                  <4>2. CASE Login(v)
                        <5>1. PICK y \in RefreshTokens \ made : req'[v].refresh = y
                              BY <1>0, <4>2 DEF Login, BeginRequest, Extends
                        <5> QED BY <5>1
                  <4>3. CASE apc'[v] \in {"check", "blacklist"} \/ req'[v] = NoRequest
                        BY <1>0, <3>3, <4>3 DEF KindFits, CheckSteps, RefreshSteps, NoRequest
                  <4>4. Storing(v) => req' = req
                        BY DEF Storing, authVars
                  <4> QED BY <1>0, <4>1, <4>2, <4>3, <4>4, Places
            <3> QED BY <2>2, <3>1, <3>2, <3>3
      <2> QED BY <2>1, <2>2
<1> QED BY <1>1, <1>a, <1>2, <1>3 DEF Unseen

LEMMA LoginUnseen ==
    ASSUME Fit, Kept, NEW v \in Workers, Login(v)
    PROVE  Unseen(v, req[v].refresh)'
<1>0. /\ Extends /\ StoreFits /\ mpc[v] = "ready" /\ apc[v] = "idle"
      /\ store' = store /\ now' = now /\ backend' = backend /\ snap' = snap /\ mpc' = mpc
      /\ found' = found /\ loggedIn' = loggedIn /\ loggedOut' = loggedOut
      /\ apc' = [apc EXCEPT ![v] = "count"]
      BY DEF Login, BeginRequest, To, KeepStorage, mapVars, Fit, WorkerFits, KindFits
<1>1. PICK r \in RefreshTokens \ made : req'[v].refresh = r
      BY <1>0 DEF Login, BeginRequest, Extends
<1>2. r \notin loggedIn' /\ r \notin loggedOut'
      BY <1>0 DEF Extends
<1>3. ASSUME NEW u \in Users PROVE r \notin DOMAIN Sessions(u)'
      <2>1. DOMAIN Sessions(u) \subseteq made
            BY <1>0, SessionsFit DEF Sessions, HoldsSessions
      <2>2. Sessions(u)' = Sessions(u)
            BY <1>0 DEF Sessions, MapOf, Live, Expired
      <2> QED BY <2>1, <2>2
<1>4. ASSUME NEW x \in Workers
      PROVE  /\ r \notin DOMAIN found'[x]
             /\ SessionSnap(x)' => r \notin DOMAIN snap'[x]
             /\ x # v /\ req'[x].kind = "login" => req'[x].refresh # r
      <2>1. r \notin DOMAIN found'[x]
            BY <1>0 DEF Kept, Tidy
      <2>2. SessionSnap(x)' => SessionSnap(x)
            BY <1>0 DEF SessionSnap, Extends
      <2>3. x # v => req'[x] = req[x]
            BY <1>0 DEF Login, BeginRequest, Extends
      <2> QED BY <1>0, <2>1, <2>2, <2>3, SnapMade, LoginFits
<1> QED BY <1>1, <1>2, <1>3, <1>4 DEF Unseen

LEMMA OwnUnseen ==
    ASSUME Fit, Kept, NEW v \in Workers, Serve(v), NEW w \in Workers, NotAdded(w)'
    PROVE  Unseen(w, req[w].refresh)'
<1>0. /\ Extends /\ \A x \in Workers : WorkerFits(x)
      /\ \A x \in Workers \ {v} : Same(x)
      BY OwnSteps DEF Fit
<1>1. ASSUME NotAdded(w) PROVE req[w].kind = "login" /\ req[w].refresh \in made
      BY <1>0, <1>1, LoginFits DEF NotAdded, WorkerFits, KindFits, LoginSteps
<1>2. ASSUME NEW r \in made, Unseen(w, r)', req'[w].refresh = r PROVE Unseen(w, req[w].refresh)'
      BY <1>2 DEF Unseen
<1>3. CASE w # v
      <2>1. NotAdded(w) /\ req'[w] = req[w]
            BY <1>0, <1>3 DEF NotAdded, Same
      <2>2. Unseen(w, req[w].refresh)
            BY <2>1 DEF Kept
      <2>3. ~(req[v].kind = "login" /\ req[v].refresh = req[w].refresh)
            BY <1>3, <2>2 DEF Unseen
      <2> DEFINE r == req[w].refresh
      <2>4. r \in made /\ Unseen(w, r) /\ req'[w].refresh = r
            BY <1>1, <2>1, <2>2
      <2>5. ~(req[v].kind = "login" /\ req[v].refresh = r)
            BY <2>3
      <2> HIDE DEF r
      <2>6. PICK y \in made : y = r
            BY <2>4
      <2>7. Unseen(w, y)'
            BY <1>3, <2>4, <2>5, <2>6, UnseenStays
      <2> QED BY <1>2, <2>4, <2>6, <2>7
<1>4. CASE w = v /\ Login(v)
      BY <1>4, LoginUnseen
<1>5. ~(w = v /\ Storing(v))
      <2> SUFFICES ASSUME w = v, Storing(v) PROVE FALSE
            OBVIOUS
      <2>1. apc' = apc /\ mpc[v] # "ready" /\ mpc'[v] = "ready"
            BY <1>0 DEF Storing, authVars, MapStep, MapSetWrite, HExpire, MapDeleteWrite, WriteBack,
                        End, Extends
      <2>2. apc[v] \in {"count", "wipe", "add"}
            BY <2>1 DEF NotAdded
      <2> QED BY <1>0, <2>1, <2>2 DEF Extends, WorkerFits, PendingFits
<1>6. CASE w = v /\ ~Login(v)
      <2>1. apc'[v] \in {"count", "wipe", "add", "issue"}
            BY <1>6 DEF NotAdded
      <2>2. apc[v] \in {"count", "wipe", "add"}
            BY <1>0, <1>5, <1>6, <2>1, Places
      <2>3. NotAdded(v) /\ apc[v] # "idle"
            BY <2>2 DEF NotAdded
      <2>4. req'[v] = req[v]
            BY <1>0, <1>5, <1>6, <2>1, <2>3, Places
      <2>5. ~MapSetWrite(v)
            BY <1>0, <2>2 DEF MapSetWrite, WorkerFits, PendingFits
      <2>6. ~(AddSession(v) /\ backend = "redis")
            <3> SUFFICES ASSUME AddSession(v) PROVE backend = "file"
                  OBVIOUS
            <3>1. apc'[v] = "issue"
                  BY <1>0 DEF AddSession, To, Extends
            <3>2. SessionSnap(v)'
                  BY <1>6, <3>1 DEF NotAdded, SessionSnap
            <3> QED BY <3>2, SnapSites
      <2>a. ~IssueToken(v)
            BY <2>2 DEF IssueToken, At
      <2> DEFINE r == req[v].refresh
      <2>7. r \in made /\ Unseen(v, r) /\ req'[v].refresh = r
            BY <1>1, <1>6, <2>3, <2>4 DEF Kept
      <2> HIDE DEF r
      <2>8. PICK y \in made : y = r
            BY <2>7
      <2>9. Unseen(v, y)'
            BY <2>5, <2>6, <2>a, <2>7, <2>8, UnseenStays
      <2> QED BY <1>2, <1>6, <2>7, <2>8, <2>9
<1> QED BY <1>3, <1>4, <1>6

(* A token that is among no sessions stays so, unless a login adds it.     *)
LEMMA GoneStays ==
    ASSUME Fit, NEW v \in Workers, Serve(v), Tidy(v), ~raced', NEW r, Gone(r),
           ~(NotAdded(v) /\ req[v].refresh = r)
    PROVE  Gone(r)'
<1> SUFFICES ASSUME NEW u \in Users, r \in DOMAIN Sessions(u)' PROVE FALSE
      BY DEF Gone
<1>1. r \notin DOMAIN Sessions(u)
      BY DEF Gone
<1> QED BY <1>1, SessionsAfter

LEMMA OwnOutGone ==
    ASSUME Fit, Kept, NEW v \in Workers, Serve(v)
    PROVE  OutGone'
<1> SUFFICES ASSUME ~raced' PROVE OutGone'
      BY DEF OutGone
<1>0. /\ Extends /\ ~raced /\ Tidy(v) /\ \A w \in Workers : Tidy(w)
      /\ NotAdded(v) => Unseen(v, req[v].refresh)
      /\ \A w \in Workers \ {v} : Same(w)
      /\ \A r \in loggedOut : Gone(r)
      /\ \A w \in Workers : apc[w] = "bye" /\ mpc[w] = "ready" => Gone(req[w].refresh)
      BY OwnMethod, OwnSteps DEF Kept, OutGone, Fit
<1>1. ASSUME NEW r, Gone(r), ~(NotAdded(v) /\ req[v].refresh = r) PROVE Gone(r)'
      BY <1>0, <1>1, GoneStays
<1>2. ASSUME NEW r \in loggedOut' PROVE Gone(r)'
      <2>1. CASE r \in loggedOut
            BY <1>0, <1>1, <2>1 DEF Unseen
      <2>2. CASE r \notin loggedOut
            <3>1. ConfirmLogout(v)
                  BY <1>0, <1>2, <2>2, Places
            <3>2. r = req[v].refresh /\ apc[v] = "bye" /\ mpc[v] = "ready"
                  BY <1>2, <2>2, <3>1 DEF ConfirmLogout, Respond, At
            <3>3. Gone(r) /\ ~NotAdded(v)
                  BY <1>0, <3>2 DEF NotAdded
            <3> QED BY <1>1, <3>3
      <2> QED BY <2>1, <2>2
<1>3. ASSUME NEW w \in Workers, apc'[w] = "bye", mpc'[w] = "ready" PROVE Gone(req[w].refresh)'
      <2>1. CASE w # v
            <3>0. PICK r : r = req[w].refresh
                  OBVIOUS
            <3>1. apc[w] = "bye" /\ mpc[w] = "ready" /\ req'[w] = req[w]
                  BY <1>0, <1>3, <2>1 DEF Same
            <3>2. Gone(r) /\ r \in DOMAIN found[w]
                  BY <1>0, <3>0, <3>1 DEF Tidy
            <3>3. ~(NotAdded(v) /\ req[v].refresh = r)
                  BY <1>0, <3>2 DEF Unseen
            <3>4. req'[w].refresh = r
                  BY <3>0, <3>1
            <3>5. Gone(r)'
                  BY <1>1, <3>2, <3>3
            <3> QED BY <3>4, <3>5 DEF Gone
      <2>2. CASE w = v /\ apc[v] = "bye" /\ mpc[v] = "ready"
            <3>0. PICK r : r = req[v].refresh
                  OBVIOUS
            <3>1. Gone(r) /\ ~NotAdded(v)
                  BY <1>0, <2>2, <3>0 DEF NotAdded
            <3>2. req'[v].refresh = r
                  BY <1>0, <1>3, <2>2, <3>0, Places DEF Storing, authVars
            <3>3. Gone(r)'
                  BY <1>1, <3>1
            <3> QED BY <2>2, <3>2, <3>3 DEF Gone
      <2>3. CASE w = v /\ (apc[v] # "bye" \/ mpc[v] # "ready")
            <3>0. PICK r, owner : r = req[v].refresh /\ owner = Payload(v).user
                  OBVIOUS
            <3>1. /\ req' = req /\ token' = token /\ req[v].kind = "logout" /\ owner \in Users
                  /\ r \notin DOMAIN Sessions(owner)'
                  BY <1>3, <2>3, <3>0, Removed
            <3>2. Tidy(v)' /\ OneOwner'
                  BY <1>0, OwnTidy, OwnOneOwner
            <3>3. r \in DOMAIN found'[v] /\ req'[v].kind = "logout" /\ Payload(v)'.user = owner
                  BY <1>3, <2>3, <3>0, <3>1, <3>2 DEF Tidy, Payload
            <3>4. req'[v].refresh = r
                  BY <3>0, <3>1
            <3>5. Owns(r, owner)'
                  BY <3>1, <3>3 DEF Owns
            <3>6. ASSUME NEW u \in Users, r \in DOMAIN Sessions(u)' PROVE FALSE
                  <4>1. Owns(r, u)'
                        BY <3>6 DEF Owns
                  <4>2. u = owner
                        BY <3>1, <3>2, <3>5, <4>1 DEF OneOwner
                  <4> QED BY <3>1, <3>6, <4>2
            <3> QED BY <2>3, <3>4, <3>6 DEF Gone
      <2> QED BY <2>1, <2>2, <2>3
<1> QED BY <1>2, <1>3 DEF OutGone

(* A refresh with a token that was logged out gets no further than the     *)
(* search for its session.                                                 *)
LEMMA OwnLateRefused ==
    ASSUME Fit, Kept, NEW v \in Workers, Serve(v)
    PROVE  LateRefused(v)'
<1> SUFFICES ASSUME ~raced', req'[v].kind = "refresh", req'[v].lateRefresh
             PROVE  apc'[v] \in {"blacklist", "find", "refused", "failed"}
      BY DEF LateRefused
<1>0. /\ Extends /\ ~raced /\ WorkerFits(v) /\ KindFits(v)' /\ LateRefused(v)
      /\ \A r \in loggedOut : Gone(r)
      BY OwnMethod, OwnKind DEF Kept, OutGone, Fit
<1>1. ~Done(v) \/ req'[v] # NoRequest
      BY DEF NoRequest
<1>2. CASE Storing(v)
      BY <1>0, <1>2 DEF Storing, authVars, LateRefused
<1>3. CASE (Login(v) /\ apc'[v] = "count") \/ apc'[v] = "check"
      BY <1>0, <1>3 DEF KindFits, LoginSteps, CheckSteps
<1>4. CASE req'[v] = req[v] /\ ~Storing(v)
      <2>1. /\ apc[v] \in {"blacklist", "find", "refused", "failed"} /\ req[v].kind = "refresh"
            /\ req[v].refresh \in loggedOut
            BY <1>0, <1>4 DEF LateRefused, WorkerFits, RequestFits
      <2>2. CASE CheckNotBlacklisted(v)
            BY <1>0, <2>2 DEF CheckNotBlacklisted, Refuse, Respond, To, Extends
      <2>3. CASE Abort(v)
            BY <1>0, <2>3 DEF Abort, Fail, Respond, To, Extends
      <2>4. CASE RefuseSession(v)
            BY <1>0, <2>4 DEF RefuseSession, Refuse, Respond, To, Extends
      <2>5. ~HasSession(v)
            <3>1. Payload(v).user \in Users
                  BY <2>1, TokenFits DEF Payloads
            <3> QED BY <1>0, <2>1, <3>1 DEF HasSession, Gone, Sessions
      <2>6. ~DropSession(v) /\ ~AcceptSession(v)
            BY <2>5 DEF DropSession, AcceptSession
      <2>7. ~Done(v)
            BY <1>0, <1>4, <2>1 DEF Done, Extends, NoRequest
      <2> QED BY <1>0, <1>4, <2>1, <2>2, <2>3, <2>4, <2>6, <2>7, Places DEF Outcomes
<1> QED BY <1>0, <1>1, <1>2, <1>3, <1>4, Places

(* A step of no worker adds no session and brings none back.               *)
LEMMA OthersKeepNone ==
    ASSUME Fit, [Next]_vars, ~\E v \in Workers : Serve(v)
    PROVE  /\ raced' = raced
           /\ \A u \in Users : DOMAIN Sessions(u)' \subseteq DOMAIN Sessions(u)
<1>1. raced' = raced
      <2>1. CASE CloseKeycloakSession
            BY <2>1 DEF CloseKeycloakSession, KeepStorage, mapVars
      <2>2. CASE Expire
            BY <2>2 DEF Expire, RedisExpire
      <2>3. CASE Tick
            BY <2>3 DEF Tick, MapTick
      <2>4. CASE UNCHANGED vars
            BY <2>4 DEF vars, mapVars
      <2> QED BY <2>1, <2>2, <2>3, <2>4 DEF Next
<1>2. ASSUME NEW u \in Users, NEW r \in DOMAIN Sessions(u)' PROVE r \in DOMAIN Sessions(u)
      <2> DEFINE n == SessionsOf(u)
      <2>1. Live(n)' /\ r \in DOMAIN store'[n].map
            BY <1>2 DEF Sessions, MapOf, Nothing
      <2>2. /\ backend' = backend /\ now' \in Nat /\ now <= now' /\ now \in Nat
            /\ store'[n] = store[n] \/ store'[n] = Absent
            BY OtherSteps, SessionNamesFit DEF Fit, Extends
      <2>3. store'[n] = store[n] /\ store[n] # Absent
            BY <2>1, <2>2 DEF Live
      <2>4. store[n].updated \in Nat /\ store[n].expires \in Nat
            BY <2>3, SessionNamesFit DEF Fit, StoreFits
      <2>5. ~Expired(store[n])'
            BY <2>1 DEF Live
      <2>6. Live(n)
            BY <2>2, <2>3, <2>4, <2>5 DEF Live, Expired
      <2> QED BY <2>1, <2>3, <2>6 DEF Sessions, MapOf
<1> QED BY <1>1, <1>2

LEMMA OthersKept ==
    ASSUME Fit, Kept, [Next]_vars, ~\E v \in Workers : Serve(v)
    PROVE  Kept'
<1>0. /\ Grows /\ \A w \in Workers : Same(w)
      /\ raced' = raced /\ loggedIn' = loggedIn /\ loggedOut' = loggedOut
      /\ \A u \in Users : DOMAIN Sessions(u)' \subseteq DOMAIN Sessions(u)
      BY OtherSteps, OtherStepsGrow, OthersKeepNone
<1>1. ASSUME NEW r, NEW u \in Users, Owns(r, u)' PROVE Owns(r, u)
      <2>1. CASE r \in DOMAIN Sessions(u)'
            BY <1>0, <2>1 DEF Owns
      <2>2. CASE \E w \in Workers : req'[w].kind = "login" /\ req'[w].refresh = r /\ req'[w].user = u
            BY <1>0, <2>2 DEF Owns, Same
      <2>3. ASSUME NEW w \in Workers, req'[w].kind = "logout", r \in DOMAIN found'[w],
                   Payload(w)'.user = u
            PROVE  Owns(r, u)
            BY <1>0, <2>3, PayloadStays DEF Owns, Same
      <2>4. ASSUME NEW w \in Workers, SessionSnap(w)', r \in DOMAIN snap'[w], SnapUser(w)' = u
            PROVE  Owns(r, u)
            BY <1>0, <2>4, SnapStays DEF Owns
      <2> QED BY <1>1, <2>1, <2>2, <2>3, <2>4 DEF Owns
<1>2. OneOwner'
      BY <1>1 DEF Kept, OneOwner
<1>3. \A w \in Workers : Tidy(w)'
      BY <1>0, OthersTidy DEF Kept
<1>4. ASSUME NEW w \in Workers, NotAdded(w)' PROVE Unseen(w, req[w].refresh)'
      <2>1. Unseen(w, req[w].refresh)
            BY <1>0, <1>4 DEF Kept, NotAdded, Same
      <2> QED BY <1>0, <2>1 DEF Unseen, Same, SessionSnap
<1>5. OutGone'
      BY <1>0 DEF Kept, OutGone, Gone, Same
<1>6. \A w \in Workers : LateRefused(w)'
      BY <1>0 DEF Kept, LateRefused, Same
<1> QED BY <1>2, <1>3, <1>4, <1>5, <1>6 DEF Kept

LEMMA NextKept == Fit /\ Kept /\ [Next]_vars => Kept'
<1> SUFFICES ASSUME Fit, Kept, [Next]_vars PROVE Kept'
      OBVIOUS
<1>1. ASSUME NEW v \in Workers, Serve(v) PROVE Kept'
      <2>1. /\ Grows /\ \A w \in Workers \ {v} : Same(w)
            /\ raced => raced'
            /\ \A w \in Workers : Tidy(w) /\ LateRefused(w)
            BY <1>1, OwnSteps, OwnMethod DEF Fit, Kept
      <2>2. OneOwner'
            BY <1>1, OwnOneOwner
      <2>3. ASSUME NEW w \in Workers PROVE Tidy(w)'
            <3>1. CASE w = v
                  BY <1>1, <2>1, <3>1, OwnTidy
            <3>2. CASE w # v
                  BY <2>1, <3>2, OthersTidy
            <3> QED BY <3>1, <3>2
      <2>4. ASSUME NEW w \in Workers PROVE NotAdded(w)' => Unseen(w, req[w].refresh)'
            BY <1>1, OwnUnseen
      <2>5. OutGone'
            BY <1>1, OwnOutGone
      <2>6. ASSUME NEW w \in Workers PROVE LateRefused(w)'
            <3>1. CASE w = v
                  BY <1>1, <3>1, OwnLateRefused
            <3>2. CASE w # v
                  BY <2>1, <3>2 DEF LateRefused, Same
            <3> QED BY <3>1, <3>2
      <2> QED BY <2>2, <2>3, <2>4, <2>5, <2>6 DEF Kept
<1> QED BY <1>1, OthersKept

LEMMA InitKept == Init => Kept
<1> SUFFICES ASSUME Init PROVE Kept
      OBVIOUS
<1>1. /\ \A w \in Workers : /\ apc[w] = "idle" /\ mpc[w] = "ready" /\ req[w] = NoRequest
                            /\ found[w] = Nothing
      /\ loggedOut = {} /\ \A n \in Names : store[n] = Absent
      BY DEF Init, MapInit
<1>2. \A u \in Users : DOMAIN Sessions(u) = {}
      BY <1>1, SessionNamesFit DEF Sessions, MapOf, Live, Nothing
<1>3. \A w \in Workers : ~SessionSnap(w) /\ ~NotAdded(w) /\ DOMAIN found[w] = {}
      BY <1>1 DEF SessionSnap, NotAdded, Nothing
<1>4. \A w \in Workers : req[w].kind = "none"
      <2>1. NoRequest.kind = "none"
            BY DEF NoRequest
      <2> QED BY <1>1, <2>1
<1>5. OneOwner
      BY <1>2, <1>3, <1>4 DEF OneOwner, Owns
<1>6. (\A w \in Workers : Tidy(w)) /\ OutGone /\ \A w \in Workers : LateRefused(w)
      BY <1>1, <1>3, <1>4 DEF Tidy, OutGone, LateRefused
<1> QED BY <1>3, <1>5, <1>6 DEF Kept

(* Once a logout was confirmed its refresh token gets no access token,     *)
(* unless another worker's write has brought back the session              *)
(* (auth_logout.py, refresh_token.py, file_storage.py).                    *)
THEOREM LoggedOutStaysOut == Spec => []LoggedOutIsRefused
<1>1. Kept => LoggedOutIsRefused
      BY DEF Kept, LateRefused, LoggedOutIsRefused
<1> QED BY <1>1, InitKept, NextKept, FitHolds, PTL DEF Spec

-----------------------------------------------------------------------------
(* The record of a user's sessions lasts.  A session that was answered, or *)
(* is in a file, or whose login has set the expiration time, is no younger *)
(* than that time; the others are between the two commands of Redis, or    *)
(* their login was killed there.                                           *)
Recent(m) == \A r \in DOMAIN m : m[r].created <= now

Settled(u, r) ==
    \/ backend = "file" \/ r \in loggedIn
    \/ \E w \in Workers : /\ apc[w] = "issue" /\ mpc[w] = "ready"
                          /\ req[w].user = u /\ req[w].refresh = r

LastingRecord(u) ==
    LET s == store[SessionsOf(u)] IN
    /\ Recent(s.map)
    /\ s.expires # 0 =>
          /\ LeastRefresh <= s.expires
          /\ \A r \in DOMAIN s.map : Settled(u, r) => s.map[r].created <= s.updated

LastingMethod(w) ==
    /\ SessionSnap(w) => Recent(snap[w])
    /\ apc[w] = "issue" /\ mpc[w] # "ready" =>
          LeastRefresh <= arg[w].expire /\ Recent(arg[w].mapping)

Lasting ==
    /\ \A u \in Users : Live(SessionsOf(u)) => LastingRecord(u)
    /\ \A w \in Workers : LastingMethod(w)

LEMMA LeastFits ==
    /\ LeastRefresh \in Nat
    /\ \A p : RefreshLifetime(p) \in Nat /\ LeastRefresh <= RefreshLifetime(p)
BY LifetimesAssumption DEF LeastRefresh, RefreshLifetime

LEMMA CreatedFits ==
    ASSUME NEW m, HoldsSessions(m), NEW r \in DOMAIN m
    PROVE  m[r].created \in Nat
BY DEF HoldsSessions, SessionEntry

LEMMA RecordFits ==
    ASSUME Fit, NEW u \in Users, Live(SessionsOf(u))
    PROVE  /\ store[SessionsOf(u)].updated \in Nat /\ store[SessionsOf(u)].expires \in Nat
           /\ Sessions(u) = store[SessionsOf(u)].map /\ HoldsSessions(Sessions(u))
           /\ now \in Nat
<1>1. HoldsSessions(Sessions(u))
      BY SessionsFit DEF Fit, Sessions
<1> QED BY <1>1, SessionNamesFit DEF Fit, Extends, StoreFits, Live, Sessions, MapOf

(* The two writes of the file storage, from a mapping it has read.         *)
LEMMA SetRecordLasts ==
    ASSUME Fit, Lasting, NEW u \in Users, NEW m, NEW e, SetRecord(SessionsOf(u), m, e),
           Recent(m), e = Absent \/ LeastRefresh <= e, now' = now
    PROVE  LastingRecord(u)'
<1> DEFINE n == SessionsOf(u)
<1>1. StoreFits /\ n \in Names
      BY SessionNamesFit DEF Fit
<1>2. PICK x : Put(n, m, now, x) /\ (x = 0 \/ LeastRefresh <= x)
      <2>1. CASE e # Absent
            BY <2>1 DEF SetRecord
      <2>2. CASE e = Absent /\ Live(n)
            <3>1. LastingRecord(u) /\ Put(n, m, now, store[n].expires)
                  BY <2>2 DEF SetRecord, Lasting
            <3> QED BY <3>1 DEF LastingRecord
      <2>3. CASE e = Absent /\ ~Live(n)
            BY <2>3 DEF SetRecord
      <2> QED BY <2>1, <2>2, <2>3
<1>3. store'[n] = [map |-> m, updated |-> now, expires |-> x]
      BY <1>1, <1>2 DEF Put, StoreFits
<1> QED BY <1>2, <1>3 DEF LastingRecord, Recent

(* What Redis is left with by the first command of a login.                *)
LEMMA RedisAdds ==
    ASSUME Fit, NEW v \in Workers, AddSession(v), backend = "redis"
    PROVE  LET n == SessionsOf(req[v].user)
               new == Field(req[v].refresh, [print |-> req[v].print, created |-> now,
                                     expires |-> RefreshLifetime(req[v].provider)])
           IN  /\ store'[n] = [map |-> Updated(MapOf(n), new),
                               updated |-> IF Live(n) THEN store[n].updated ELSE now,
                               expires |-> IF Live(n) THEN store[n].expires ELSE 0]
               /\ apc'[v] = "issue" /\ mpc'[v] = "expire" /\ req'[v] = req[v]
               /\ loggedIn' = loggedIn /\ NotAdded(v) /\ req[v].kind = "login"
<1> DEFINE n == SessionsOf(req[v].user)
           new == Field(req[v].refresh, [print |-> req[v].print, created |-> now,
                                 expires |-> RefreshLifetime(req[v].provider)])
           e == RefreshLifetime(req[v].provider)
<1>0. Extends /\ StoreFits /\ WorkerFits(v)
      BY DEF Fit
<1>1. /\ apc[v] = "add" /\ apc'[v] = "issue" /\ req' = req /\ loggedIn' = loggedIn
      /\ HSet(v, n, new, e)
      BY <1>0 DEF AddSession, At, To, Keep, Extends, MapSet, MapSetRead
<1>2. req[v].kind = "login" /\ NotAdded(v)
      BY <1>0, <1>1 DEF WorkerFits, KindFits, LoginSteps, NotAdded
<1>3. n \in Names /\ e \in Nat
      BY <1>2, LoginFits, SessionNamesFit
<1>4. e # Absent
      BY <1>3, AbsentAssumption
<1> HIDE DEF n, new, e
<1>5. mpc'[v] = "expire"
      BY <1>0, <1>1, <1>4 DEF HSet, Begin, Extends
<1>6. store'[n] = [map |-> Updated(MapOf(n), new),
                   updated |-> IF Live(n) THEN store[n].updated ELSE now,
                   expires |-> IF Live(n) THEN store[n].expires ELSE 0]
      BY <1>0, <1>1, <1>3 DEF HSet, Put, StoreFits
<1> QED BY <1>1, <1>2, <1>5, <1>6 DEF n, new

(* A session that is there gets settled by its login's second command.     *)
Expires(v, u) == HExpire(v) /\ apc[v] = "issue" /\ req[v].user = u

LEMMA SettledSites ==
    ASSUME Fit, Kept, NEW v \in Workers, Serve(v), NEW u \in Users, ~Expires(v, u),
           NEW r \in DOMAIN Sessions(u), Settled(u, r)'
    PROVE  Settled(u, r)
<1>0. /\ Extends /\ WorkerFits(v) /\ Grows /\ \A w \in Workers \ {v} : Same(w)
      BY OwnSteps DEF Fit
<1>1. CASE backend' = "file"
      BY <1>0, <1>1 DEF Grows, Settled
<1>2. CASE r \in loggedIn'
      <2>1. CASE IssueToken(v) /\ r = req[v].refresh
            <3>1. apc[v] = "issue" /\ mpc[v] = "ready"
                  BY <2>1 DEF IssueToken, At
            <3>2. req[v].kind = "login"
                  BY <1>0, <3>1 DEF WorkerFits, KindFits, LoginSteps
            <3>3. Owns(r, u) /\ Owns(r, req[v].user) /\ req[v].user \in Users
                  BY <2>1, <3>2, LoginFits DEF Owns
            <3>4. req[v].user = u
                  BY <3>3 DEF Kept, OneOwner
            <3> QED BY <2>1, <3>1, <3>4 DEF Settled
      <2>2. CASE ~(IssueToken(v) /\ r = req[v].refresh)
            <3>1. r \in loggedIn
                  BY <1>0, <1>2, <2>2, Places DEF IssueToken
            <3> QED BY <3>1 DEF Settled
      <2> QED BY <2>1, <2>2
<1>3. ASSUME NEW w \in Workers, apc'[w] = "issue", mpc'[w] = "ready", req'[w].user = u,
             req'[w].refresh = r
      PROVE  Settled(u, r)
      <2>1. CASE w # v
            BY <1>0, <1>3, <2>1 DEF Same, Settled
      <2>2. CASE w = v /\ Storing(v)
            <3>1. apc' = apc /\ req' = req
                  BY <2>2 DEF Storing, authVars
            <3>2. CASE MapSetWrite(v)
                  BY <1>0, <3>2 DEF MapSetWrite, WorkerFits, PendingFits, Settled
            <3>3. CASE HExpire(v)
                  BY <1>3, <2>2, <3>1, <3>3 DEF Expires
            <3>4. CASE MapDeleteWrite(v)
                  BY <1>0, <1>3, <2>2, <3>1, <3>4 DEF MapDeleteWrite, WorkerFits, PendingFits
            <3> QED BY <2>2, <3>2, <3>3, <3>4 DEF Storing, MapStep
      <2>3. CASE w = v /\ ~Storing(v)
            <3>1. AddSession(v) \/ Login(v)
                  BY <1>0, <1>3, <2>3, Places
            <3>2. ~Login(v)
                  BY <1>0, <1>3, <2>3 DEF Login, BeginRequest, To, Extends
            <3>3. backend # "redis"
                  BY <1>3, <2>3, <3>1, <3>2, RedisAdds
            <3> QED BY <1>0, <3>3 DEF Settled, Extends
      <2> QED BY <2>1, <2>2, <2>3
<1> QED BY <1>1, <1>2, <1>3 DEF Settled

LEMMA OwnRecordLasts ==
    ASSUME Fit, Kept, Lasting, NEW v \in Workers, Serve(v), NEW u \in Users, Live(SessionsOf(u))'
    PROVE  LastingRecord(u)'
<1> DEFINE n == SessionsOf(u)
<1>0. /\ Extends /\ StoreFits /\ WorkerFits(v) /\ n \in Names /\ LastingMethod(v)
      /\ now' = now /\ backend' = backend /\ \A w \in Workers \ {v} : Same(w)
      BY OwnSteps, SessionNamesFit DEF Fit, Grows, Lasting
<1>1. store'[n] # Absent /\ (store'[n] = store[n] => Live(n))
      BY <1>0 DEF Live, Expired
<1>2. Live(n) => LastingRecord(u)
      BY DEF Lasting
<1>3. ASSUME ~Expires(v, u), Live(n), NEW r \in DOMAIN store[n].map, Settled(u, r)'
      PROVE  store[n].expires # 0 => store[n].map[r].created <= store[n].updated
      <2>1. r \in DOMAIN Sessions(u)
            BY <1>3, RecordFits
      <2>2. Settled(u, r)
            BY <1>3, <2>1, SettledSites
      <2> QED BY <1>2, <1>3, <2>2 DEF LastingRecord
<1>4. CASE Expires(v, u)
      <2>1. mpc[v] = "expire" /\ arg[v].name = n /\ LeastRefresh <= arg[v].expire
            BY <1>0, <1>4 DEF Expires, HExpire, WorkerFits, PendingFits, Target, LastingMethod
      <2>2. Live(n)
            BY <1>1, <1>4, <2>1 DEF Expires, HExpire
      <2>3. Put(n, store[n].map, now, arg[v].expire)
            BY <1>4, <2>1, <2>2 DEF Expires, HExpire
      <2>4. store'[n] = [map |-> store[n].map, updated |-> now, expires |-> arg[v].expire]
            BY <1>0, <2>3 DEF Put, StoreFits
      <2> QED BY <1>0, <1>2, <2>1, <2>2, <2>4 DEF LastingRecord, Recent
<1>5. CASE /\ ~Expires(v, u) /\ Live(n) /\ DOMAIN store'[n].map \subseteq DOMAIN store[n].map
           /\ \A r \in DOMAIN store'[n].map : store'[n].map[r] = store[n].map[r]
           /\ store'[n].updated = store[n].updated /\ store'[n].expires = store[n].expires
      <2>1. Recent(store[n].map)'
            BY <1>0, <1>2, <1>5 DEF LastingRecord, Recent
      <2>2. ASSUME store'[n].expires # 0
            PROVE  /\ LeastRefresh <= store'[n].expires
                   /\ \A r \in DOMAIN store'[n].map :
                         Settled(u, r)' => store'[n].map[r].created <= store'[n].updated
            BY <1>2, <1>3, <1>5, <2>2 DEF LastingRecord
      <2> QED BY <2>1, <2>2 DEF LastingRecord
<1>6. CASE backend = "redis" /\ AddSession(v) /\ u = req[v].user
      <2>1. PICK new : new = [print |-> req[v].print, created |-> now,
                              expires |-> RefreshLifetime(req[v].provider)]
            OBVIOUS
      <2>2. PICK r0 : r0 = req[v].refresh
            OBVIOUS
      <2>3. /\ store'[n] = [map |-> Updated(MapOf(n), Field(r0, new)),
                            updated |-> IF Live(n) THEN store[n].updated ELSE now,
                            expires |-> IF Live(n) THEN store[n].expires ELSE 0]
            /\ apc'[v] = "issue" /\ mpc'[v] = "expire" /\ req'[v] = req[v]
            /\ loggedIn' = loggedIn /\ NotAdded(v) /\ req[v].kind = "login"
            BY <1>0, <1>6, <2>1, <2>2, RedisAdds DEF Fit
      <2>4. /\ store'[n].map = Updated(MapOf(n), Field(r0, new))
            /\ store'[n].updated = IF Live(n) THEN store[n].updated ELSE now
            /\ store'[n].expires = IF Live(n) THEN store[n].expires ELSE 0
            BY <2>3
      <2>5. new.created = now
            BY <2>1
      <2>6. ~Expires(v, u)
            BY <1>6 DEF Expires, AddSession, At
      <2>7. /\ DOMAIN store'[n].map = DOMAIN MapOf(n) \cup {r0}
            /\ \A r \in DOMAIN store'[n].map :
                  store'[n].map[r] = IF r = r0 THEN new ELSE MapOf(n)[r]
            BY <2>4 DEF Updated, Field
      <2>8. MapOf(n) = IF Live(n) THEN store[n].map ELSE Nothing
            BY DEF MapOf
      <2>9. Recent(store[n].map)'
            <3>1. Recent(MapOf(n))
                  BY <1>2, <2>8 DEF LastingRecord, Recent, Nothing
            <3> QED BY <1>0, <2>5, <2>7, <3>1 DEF Recent, Extends
      <2>10. ~Settled(u, r0)'
            <3>1. Unseen(v, r0)
                  BY <2>2, <2>3 DEF Kept
            <3>2. r0 \notin loggedIn'
                  BY <2>3, <3>1 DEF Unseen
            <3>3. ASSUME NEW w \in Workers, apc'[w] = "issue", mpc'[w] = "ready",
                         req'[w].refresh = r0
                  PROVE  FALSE
                  <4>1. w # v
                        BY <2>3, <3>3
                  <4>2. apc[w] = "issue" /\ req[w].refresh = r0
                        BY <1>0, <3>3, <4>1 DEF Same
                  <4>3. req[w].kind = "login"
                        BY <4>2 DEF Fit, WorkerFits, KindFits, LoginSteps
                  <4> QED BY <3>1, <4>1, <4>2, <4>3 DEF Unseen
            <3> QED BY <1>0, <1>6, <3>2, <3>3 DEF Settled
      <2>11. ASSUME store'[n].expires # 0
            PROVE  /\ LeastRefresh <= store'[n].expires
                   /\ \A r \in DOMAIN store'[n].map :
                         Settled(u, r)' => store'[n].map[r].created <= store'[n].updated
            <3>1. /\ Live(n) /\ store'[n].expires = store[n].expires
                  /\ store'[n].updated = store[n].updated
                  BY <2>4, <2>11
            <3>2. ASSUME NEW r \in DOMAIN store'[n].map, Settled(u, r)'
                  PROVE  store'[n].map[r].created <= store'[n].updated
                  <4>1. r # r0
                        BY <2>10, <3>2
                  <4>2. r \in DOMAIN store[n].map /\ store'[n].map[r] = store[n].map[r]
                        BY <2>7, <2>8, <3>1, <3>2, <4>1
                  <4> QED BY <1>3, <2>6, <2>11, <3>1, <3>2, <4>2
            <3> QED BY <1>2, <2>11, <3>1, <3>2 DEF LastingRecord
      <2> QED BY <2>9, <2>11 DEF LastingRecord
<1>7. CASE /\ MapSetWrite(v) /\ apc[v] = "issue"
           /\ SetRecord(n, Updated(snap[v], arg[v].mapping), arg[v].expire)
      <2>1. mpc[v] = "setWrite"
            BY <1>7 DEF MapSetWrite
      <2>2. Recent(snap[v]) /\ Recent(arg[v].mapping) /\ LeastRefresh <= arg[v].expire
            BY <1>0, <1>7, <2>1 DEF LastingMethod, SessionSnap
      <2>3. Recent(Updated(snap[v], arg[v].mapping))
            BY <2>2 DEF Recent, Updated
      <2> QED BY <1>0, <1>7, <2>2, <2>3, SetRecordLasts
<1>8. CASE MapDeleteWrite(v) /\ SetRecord(n, Without(snap[v], req[v].refresh), Absent)
      <2>1. Recent(snap[v])
            BY <1>0, <1>8 DEF MapDeleteWrite, LastingMethod, SessionSnap
      <2>2. Recent(Without(snap[v], req[v].refresh))
            BY <2>1 DEF Recent, Without
      <2> QED BY <1>0, <1>8, <2>2, SetRecordLasts
<1>9. CASE HExpire(v) /\ arg[v].name = n /\ ~Expires(v, u)
      <2>1. mpc[v] = "expire"
            BY <1>9 DEF HExpire
      <2>2. /\ arg[v].name = Target(v)
            /\ apc[v] \in {"issue", "stored", "burnt", "remove", "renew"}
            BY <1>0, <2>1 DEF WorkerFits, PendingFits
      <2>3. apc[v] = "issue" /\ req[v].user = u
            BY <1>9, <2>2, NamesDiffer DEF Target
      <2> QED BY <1>9, <2>3 DEF Expires
<1>10. CASE store'[n] = store[n] /\ ~Expires(v, u)
      BY <1>1, <1>5, <1>10
<1> QED BY <1>1, <1>4, <1>5, <1>6, <1>7, <1>8, <1>9, <1>10, SessionWrites

LEMMA OwnMethodLasts ==
    ASSUME Fit, Lasting, NEW v \in Workers, Serve(v)
    PROVE  LastingMethod(v)'
<1>0. Extends /\ WorkerFits(v) /\ now' = now
      BY OwnSteps DEF Fit
<1>1. ASSUME NEW u \in Users PROVE Recent(Sessions(u))
      <2>1. CASE Live(SessionsOf(u))
            BY <2>1, RecordFits DEF Lasting, LastingRecord
      <2>2. CASE ~Live(SessionsOf(u))
            BY <2>2 DEF Sessions, MapOf, Nothing, Recent
      <2> QED BY <2>1, <2>2
<1>2. ASSUME SessionSnap(v)' PROVE Recent(snap[v])'
      <2>1. Recent(Sessions(SnapUser(v)')) /\ snap'[v] = Sessions(SnapUser(v)')
            BY <1>1, <1>2, SnapSites
      <2> QED BY <1>0, <2>1 DEF Recent
<1>3. ASSUME apc'[v] = "issue", mpc'[v] # "ready"
      PROVE  (LeastRefresh <= arg[v].expire /\ Recent(arg[v].mapping))'
      <2> DEFINE n == SessionsOf(req[v].user)
                 new == [print |-> req[v].print, created |-> now,
                         expires |-> RefreshLifetime(req[v].provider)]
                 e == RefreshLifetime(req[v].provider)
      <2>1. ~Storing(v)
            BY <1>0, <1>3 DEF Storing, MapStep, MapSetWrite, HExpire, MapDeleteWrite, WriteBack, End,
                              Extends
      <2>2. AddSession(v)
            <3>1. AddSession(v) \/ Login(v)
                  BY <1>0, <1>3, <2>1, Places
            <3> QED BY <1>0, <1>3, <3>1 DEF Login, BeginRequest, To, Extends
      <2>3. MapSet(v, n, Field(req[v].refresh, new), e)
            BY <2>2 DEF AddSession
      <2>4. new.created = now /\ LeastRefresh <= e
            BY LeastFits
      <2> HIDE DEF n, new, e
      <2>5. arg'[v] = [name |-> n, mapping |-> Field(req[v].refresh, new), expire |-> e]
            BY <1>0, <1>3, <2>2, <2>3
               DEF AddSession, At, MapSet, MapSetRead, HSet, Begin, Complete, Extends
      <2>6. arg'[v].mapping = Field(req[v].refresh, new) /\ arg'[v].expire = e
            BY <2>5
      <2> QED BY <1>0, <2>4, <2>6 DEF Recent, Field, Extends
<1> QED BY <1>2, <1>3 DEF LastingMethod

LEMMA OthersMethodLasts ==
    ASSUME Fit, NEW w \in Workers, LastingMethod(w), Same(w), now' \in Nat, now <= now'
    PROVE  LastingMethod(w)'
<1>0. WorkerFits(w) /\ now \in Nat
      BY DEF Fit, Extends
<1>1. ASSUME apc[w] = "issue", mpc[w] \in {"setWrite", "expire"}
      PROVE  /\ HoldsSessions(arg[w].mapping)
             /\ mpc[w] = "setWrite" => HoldsSessions(snap[w])
      <2>1. req[w].user \in Users
            BY <1>0, <1>1, LoginFits DEF WorkerFits, KindFits, LoginSteps
      <2> QED BY <1>0, <1>1, <2>1, SessionNamesFit, NothingHoldsNoSession
              DEF WorkerFits, PendingFits, Target
<1>2. mpc[w] = "deleteWrite" => HoldsSessions(snap[w]) /\ apc[w] # "issue"
      BY <1>0 DEF WorkerFits, PendingFits
<1>3. ASSUME NEW m, HoldsSessions(m), Recent(m) PROVE \A r \in DOMAIN m : m[r].created <= now'
      BY <1>0, <1>3, CreatedFits DEF Recent
<1>4. mpc[w] \in {"ready", "setWrite", "expire", "deleteWrite"}
      BY DEF Fit, Extends
<1> QED BY <1>1, <1>2, <1>3, <1>4 DEF LastingMethod, SessionSnap, Recent, Same

LEMMA NextLasting == Fit /\ Kept /\ Lasting /\ [Next]_vars => Lasting'
<1> SUFFICES ASSUME Fit, Kept, Lasting, [Next]_vars PROVE Lasting'
      OBVIOUS
<1>0. now \in Nat /\ \A w \in Workers : LastingMethod(w)
      BY DEF Fit, Extends, Lasting
<1>1. ASSUME NEW v \in Workers, Serve(v) PROVE Lasting'
      <2>1. now' = now /\ \A w \in Workers \ {v} : Same(w)
            BY <1>1, OwnSteps DEF Fit
      <2>2. \A w \in Workers \ {v} : LastingMethod(w)'
            BY <1>0, <2>1, OthersMethodLasts
      <2>3. LastingMethod(v)'
            BY <1>1, OwnMethodLasts
      <2>4. \A u \in Users : Live(SessionsOf(u))' => LastingRecord(u)'
            BY <1>1, OwnRecordLasts
      <2> QED BY <2>2, <2>3, <2>4 DEF Lasting
<1>2. CASE ~\E v \in Workers : Serve(v)
      <2>1. /\ now' \in Nat /\ now <= now' /\ backend' = backend /\ loggedIn' = loggedIn
            /\ \A w \in Workers : Same(w)
            BY <1>2, OtherSteps, OtherStepsGrow
      <2>2. \A w \in Workers : LastingMethod(w)'
            BY <1>0, <2>1, OthersMethodLasts
      <2>3. ASSUME NEW u \in Users, Live(SessionsOf(u))' PROVE LastingRecord(u)'
            <3> DEFINE n == SessionsOf(u)
            <3>1. store'[n] # Absent /\ ~Expired(store[n])'
                  BY <2>3 DEF Live
            <3>2. store'[n] = store[n]
                  BY <1>2, <3>1, OtherSteps, SessionNamesFit
            <3>3. store[n].updated \in Nat /\ store[n].expires \in Nat
                  BY <3>1, <3>2, SessionNamesFit DEF Fit, StoreFits
            <3>4. Live(n)
                  BY <1>0, <2>1, <3>1, <3>2, <3>3 DEF Live, Expired
            <3>5. LastingRecord(u) /\ HoldsSessions(store[n].map)
                  BY <3>4, RecordFits DEF Lasting
            <3>6. \A r \in DOMAIN store[n].map : store[n].map[r].created <= now'
                  BY <1>0, <2>1, <3>5, CreatedFits DEF LastingRecord, Recent
            <3>7. \A r : Settled(u, r)' => Settled(u, r)
                  BY <2>1 DEF Settled, Same
            <3> QED BY <3>2, <3>5, <3>6, <3>7 DEF LastingRecord, Recent
      <2> QED BY <2>2, <2>3 DEF Lasting
<1> QED BY <1>1, <1>2

(* With a file and with Redis, and whatever the lifetimes of the sessions  *)
(* of LDAP and of Keycloak: the record that holds a session a login has    *)
(* answered with lasts for the shorter of the two from that login, though  *)
(* each login sets its time anew and each removal keeps it                 *)
(* (file_storage.py, redis.py, auth_login.py).                             *)
THEOREM SessionsAreKept == Spec => []SessionsLast
<1>1. Init => Lasting
      BY SessionNamesFit DEF Init, MapInit, Lasting, LastingMethod, SessionSnap, Live
<1>2. Fit /\ Lasting => SessionsLast
      <2> SUFFICES ASSUME Fit, Lasting, NEW u \in Users, NEW r \in DOMAIN Sessions(u) \cap loggedIn
                   PROVE  LET s == store[SessionsOf(u)] IN
                          s.expires = 0 \/ s.updated + s.expires >= s.map[r].created + LeastRefresh
            BY DEF SessionsLast
      <2> DEFINE s == store[SessionsOf(u)]
      <2>1. Live(SessionsOf(u))
            BY DEF Sessions, MapOf, Nothing
      <2>2. /\ s.updated \in Nat /\ s.expires \in Nat /\ Sessions(u) = s.map
            /\ s.map[r].created \in Nat
            BY <2>1, RecordFits, CreatedFits
      <2>3. /\ s.expires # 0 => LeastRefresh <= s.expires /\ s.map[r].created <= s.updated
            BY <2>1, <2>2 DEF Lasting, LastingRecord, Settled
      <2> HIDE DEF s
      <2>4. s.expires = 0 \/ s.updated + s.expires >= s.map[r].created + LeastRefresh
            BY <2>2, <2>3, LeastFits
      <2> QED BY <2>4 DEF s
<1> QED BY <1>1, <1>2, NextLasting, InitKept, NextKept, FitHolds, PTL DEF Spec

-----------------------------------------------------------------------------
(* The workers that have counted the sessions of a user, or wiped them,    *)
(* and are still to add one.                                               *)
Adding(u) ==
    {w \in Workers : /\ req[w].kind = "login" /\ req[w].user = u
                     /\ apc[w] = "add" \/ (apc[w] = "issue" /\ mpc[w] = "setWrite")}

Room(u) ==
    /\ IsFiniteSet(DOMAIN Sessions(u))
    /\ Cardinality(DOMAIN Sessions(u)) + Cardinality(Adding(u))
          <= MAX_REFRESH_SESSIONS_COUNT - 1 + Cardinality(Workers)

Counted == raced \/ \A u \in Users : Room(u)

LEMMA AddingIsFinite ==
    \A S : S \subseteq Workers =>
        /\ IsFiniteSet(S) /\ Cardinality(S) \in Nat
        /\ Cardinality(S) <= Cardinality(Workers) /\ Cardinality(Workers) \in Nat
BY SessionsAssumption, FS_Subset, FS_CardinalityType

(* What leaves a place of a login before its session is added.             *)
LEMMA LoginPlaces ==
    ASSUME Fit, NEW v \in Workers, Serve(v)
    PROVE  /\ apc[v] = "count" => CountSessions(v) \/ Abort(v)
           /\ apc[v] = "wipe" => WipeSessions(v) \/ Abort(v)
           /\ apc[v] = "add" => AddSession(v) \/ Abort(v)
           /\ apc[v] = "issue" /\ mpc[v] = "setWrite" => MapSetWrite(v) \/ Abort(v)
           /\ apc'[v] = "add" => CountSessions(v) \/ WipeSessions(v)
<1> USE DEF Fit, Extends
<1>1. apc[v] \in {"count", "wipe", "add"} => mpc[v] = "ready"
      BY DEF WorkerFits, PendingFits
<1>2. CASE Login(v) \/ Access(v) \/ Logout(v) \/ Refresh(v)
      BY <1>2 DEF Login, Access, Logout, Refresh, Request, BeginRequest, To
<1>3. CASE CountSessions(v) \/ WipeSessions(v) \/ AddSession(v)
      BY <1>3 DEF CountSessions, WipeSessions, AddSession, At, To, Keep
<1>4. CASE IssueToken(v) \/ RefuseBurnt(v) \/ NoSession(v) \/ ConfirmLogout(v)
      BY <1>4 DEF IssueToken, RefuseBurnt, NoSession, ConfirmLogout, Respond, At, To
<1>5. CASE CheckHeader(v) \/ CheckAgain(v)
      BY <1>5 DEF CheckHeader, CheckAgain, CheckToken, Refuse, Fail, Respond, At, To, Keep
<1>6. CASE Burn(v) \/ RevokeForLogout(v) \/ RevokeForRefresh(v)
      BY <1>6 DEF Burn, RevokeForLogout, RevokeForRefresh, Blacklist, At, To, Keep
<1>7. CASE CheckCachedRoles(v) \/ RolesStored(v)
      BY <1>7 DEF CheckCachedRoles, RolesStored, LetIn, Refuse, Respond, At, To, Keep
<1>8. CASE CheckTokenRoles(v) \/ CheckNotBlacklisted(v)
      BY <1>8 DEF CheckTokenRoles, CheckNotBlacklisted, Refuse, Respond, At, To, Keep
<1>9. CASE StoreRoles(v) \/ LeaveLdap(v) \/ LeaveKeycloak(v)
      BY <1>9 DEF StoreRoles, LeaveLdap, LeaveKeycloak, At, To, Keep
<1>10. CASE StoreRolesFails(v) \/ LeaveKeycloakFails(v) \/ RefuseSession(v) \/ RefuseDropped(v)
      BY <1>10 DEF StoreRolesFails, LeaveKeycloakFails, RefuseSession, RefuseDropped, Refuse, Fail,
                   Respond, At, To
<1>11. CASE ReadSessions(v) \/ Renew(v)
      BY <1>11 DEF ReadSessions, Renew, Refuse, Fail, Respond, At, To
<1>12. CASE RemoveLastSession(v) \/ RemoveSession(v) \/ DropSession(v) \/ AcceptSession(v)
      BY <1>12 DEF RemoveLastSession, RemoveSession, DropSession, AcceptSession, At, To
<1>13. CASE Abort(v)
      BY <1>13 DEF Abort, Fail, Respond, To
<1>14. CASE Done(v)
      BY <1>14 DEF Done, To
<1>15. CASE Storing(v)
  <2>1. mpc[v] # "ready" /\ apc' = apc
        BY <1>15 DEF Storing, authVars, MapStep, MapSetWrite, HExpire, MapDeleteWrite
  <2>2. mpc[v] = "setWrite" => MapSetWrite(v)
        BY <1>15 DEF Storing, MapStep, HExpire, MapDeleteWrite
  <2> QED BY <1>1, <2>1, <2>2
<1> QED BY <1>2, <1>3, <1>4, <1>5, <1>6, <1>7, <1>8, <1>9, <1>10, <1>11, <1>12, <1>13, <1>14,
           <1>15 DEF Serve

LEMMA StorageStays ==
    ASSUME store' = store, now' = now, backend' = backend, NEW u
    PROVE  Sessions(u)' = Sessions(u)
BY DEF Sessions, MapOf, Live, Expired

(* A session comes from a worker that was to add one, and now is not.      *)
LEMMA NewSession ==
    ASSUME Fit, NEW v \in Workers, Serve(v), Tidy(v), ~raced', NEW u \in Users,
           NEW r \in DOMAIN Sessions(u)', r \notin DOMAIN Sessions(u)
    PROVE  r = req[v].refresh /\ v \in Adding(u) /\ v \notin Adding(u)'
<1>1. r = req[v].refresh /\ u = req[v].user /\ NotAdded(v) /\ req[v].kind = "login"
      BY SessionsAfter
<1>2. /\ now' = now /\ backend' = backend /\ SessionsOf(u) \in Names
      /\ store = [n \in Names |-> store[n]] /\ mpc = [w \in Workers |-> mpc[w]]
      BY OwnSteps, SessionNamesFit DEF Fit, Grows, StoreFits, Extends
<1>3. store' # store
      BY <1>2, StorageStays
<1>4. ~Abort(v) /\ ~CountSessions(v)
      BY <1>3 DEF Abort, CountSessions, KeepStorage, mapVars
<1>5. ~WipeSessions(v)
  <2>1. ASSUME WipeSessions(v) PROVE store'[SessionsOf(u)] = Absent
        BY <1>1, <1>2, <2>1 DEF WipeSessions, Delete
  <2>2. store'[SessionsOf(u)] = Absent => DOMAIN Sessions(u)' = {}
        BY DEF Sessions, MapOf, Live, Nothing
  <2> QED BY <2>1, <2>2
<1>6. CASE apc[v] = "add"
  <2>1. AddSession(v)
        BY <1>4, <1>6, LoginPlaces
  <2>2. mpc[v] = "ready" /\ apc'[v] = "issue"
        BY <1>6, <2>1 DEF AddSession, At, To, Fit, Extends
  <2>3. \E n, m, e : HSet(v, n, m, e)
        BY <1>3, <2>1 DEF AddSession, MapSet, MapSetRead
  <2>4. mpc'[v] # "setWrite"
        BY <1>2, <2>2, <2>3 DEF HSet, Complete, Begin
  <2> QED BY <1>1, <1>6, <2>2, <2>4 DEF Adding
<1>7. CASE apc[v] = "issue" /\ mpc[v] = "setWrite"
  <2>1. MapSetWrite(v)
        BY <1>4, <1>7, LoginPlaces
  <2>2. mpc'[v] = "ready" /\ v \in Adding(u)
        BY <1>1, <1>2, <1>7, <2>1 DEF MapSetWrite, WriteBack, End, Adding
  <2>3. apc'[v] # "add"
        BY <2>1, <1>7, <1>4, <1>5, LoginPlaces
  <2> QED BY <1>1, <2>2, <2>3 DEF Adding
<1> QED BY <1>1, <1>4, <1>5, <1>6, <1>7, LoginPlaces DEF NotAdded

(* A worker begins to add a session when there is room, or makes it.       *)
LEMMA NewAdding ==
    ASSUME Fit, NEW v \in Workers, Serve(v), NEW u \in Users, ~(Adding(u)' \subseteq Adding(u)),
           IsFiniteSet(DOMAIN Sessions(u))
    PROVE  \/ /\ Cardinality(DOMAIN Sessions(u)) < MAX_REFRESH_SESSIONS_COUNT
              /\ Sessions(u)' = Sessions(u) /\ v \notin Adding(u)
              /\ Adding(u)' \subseteq Adding(u) \cup {v}
           \/ DOMAIN Sessions(u)' = {}
<1>1. /\ now' = now /\ backend' = backend /\ SessionsOf(u) \in Names
      /\ store = [n \in Names |-> store[n]]
      /\ apc \in [Workers -> Step] /\ \A w \in Workers \ {v} : Same(w)
      BY OwnSteps, SessionNamesFit DEF Fit, Grows, StoreFits, Extends
<1>2. PICK w \in Adding(u)' : w \notin Adding(u)
      OBVIOUS
<1>3. \A x \in Workers \ {v} : x \in Adding(u)' <=> x \in Adding(u)
      BY <1>1 DEF Adding, Same
<1>4. w = v /\ v \in Adding(u)' /\ v \notin Adding(u)
      BY <1>2, <1>3 DEF Adding
<1>5. req'[v].kind = "login" /\ req'[v].user = u
      BY <1>4 DEF Adding
<1>6. apc'[v] = "add"
  <2>1. SUFFICES ASSUME apc'[v] = "issue", mpc'[v] = "setWrite", apc'[v] # "add" PROVE FALSE
        BY <1>4 DEF Adding
  <2>2. \/ Login(v) \/ Storing(v)
        \/ apc[v] \in {"count", "wipe", "add"} /\ AddSession(v)
        BY <2>1, Places DEF Fit
  <2>3. ~Login(v)
        BY <1>1, <2>1 DEF Login, BeginRequest, To
  <2>4. ~Storing(v)
        BY <2>1 DEF Storing, MapStep, MapSetWrite, HExpire, MapDeleteWrite, WriteBack, End, Fit, Extends
  <2>5. AddSession(v) => v \in Adding(u)
        BY <1>5 DEF AddSession, At, Keep, Adding
  <2> QED BY <1>4, <2>2, <2>3, <2>4, <2>5
<1>7. CASE CountSessions(v)
  <2>1. req' = req /\ store' = store
        BY <1>7 DEF CountSessions, Keep, KeepStorage, mapVars
  <2>2. Sessions(u)' = Sessions(u)
        BY <1>1, <2>1, StorageStays
  <2>3. ~(Cardinality(DOMAIN Sessions(u)) >= MAX_REFRESH_SESSIONS_COUNT)
        BY <1>1, <1>5, <1>6, <1>7, <2>1 DEF CountSessions, To, Sessions
  <2>4. Cardinality(DOMAIN Sessions(u)) < MAX_REFRESH_SESSIONS_COUNT
        BY <2>3, FS_CardinalityType, SessionsAssumption
  <2> QED BY <1>3, <1>4, <2>2, <2>4 DEF Adding
<1>8. CASE WipeSessions(v)
  <2>1. req' = req /\ store'[SessionsOf(u)] = Absent
        BY <1>1, <1>5, <1>8 DEF WipeSessions, Delete, Keep
  <2> QED BY <2>1 DEF Sessions, MapOf, Live, Nothing
<1> QED BY <1>6, <1>7, <1>8, LoginPlaces

LEMMA RoomStays ==
    ASSUME Fit, NEW v \in Workers, Serve(v), Tidy(v), ~raced', NEW u \in Users, Room(u)
    PROVE  Room(u)'
<1> DEFINE D == DOMAIN Sessions(u)
           A == Adding(u)
           N == Cardinality(Workers)
           M == MAX_REFRESH_SESSIONS_COUNT
<1>1. /\ IsFiniteSet(D) /\ Cardinality(D) \in Nat
      /\ Cardinality(D) + Cardinality(A) <= M - 1 + N
      BY FS_CardinalityType DEF Room
<1>2. /\ A \subseteq Workers /\ A' \subseteq Workers
      /\ Cardinality(A) \in Nat /\ Cardinality(A') \in Nat /\ N \in Nat
      /\ Cardinality(A) <= N /\ Cardinality(A') <= N /\ M \in Nat \ {0}
      BY AddingIsFinite, SessionsAssumption DEF Adding
<1> SUFFICES IsFiniteSet(D') /\ Cardinality(D') + Cardinality(A') <= M - 1 + N
    BY DEF Room
<1>3. CASE ~(A' \subseteq A)
  <2>1. CASE D' = {}
        BY <1>2, <2>1, FS_EmptySet
  <2>2. CASE Cardinality(D) < M /\ D' = D /\ v \notin A /\ A' \subseteq A \cup {v}
        BY <1>1, <1>2, <2>2
  <2> QED BY <1>1, <1>3, <2>1, <2>2, NewAdding
<1>4. CASE A' \subseteq A /\ D' \subseteq D
  <2>1. IsFiniteSet(D') /\ Cardinality(D') \in Nat /\ Cardinality(D') <= Cardinality(D)
        BY <1>1, <1>4, FS_Subset, FS_CardinalityType
  <2>2. Cardinality(A') <= Cardinality(A)
        BY <1>2, <1>4, AddingIsFinite, FS_Subset
  <2> QED BY <1>1, <1>2, <2>1, <2>2
<1>5. CASE A' \subseteq A /\ ~(D' \subseteq D)
  <2>0. PICK r : r = req[v].refresh
        OBVIOUS
  <2>1. D' \subseteq D \cup {r} /\ v \in A /\ v \notin A'
        BY <1>5, <2>0, NewSession
  <2>2. /\ IsFiniteSet(D \cup {r}) /\ Cardinality(D \cup {r}) \in Nat
        /\ Cardinality(D \cup {r}) <= Cardinality(D) + 1
    <3> PICK S : S = D
        OBVIOUS
    <3>1. IsFiniteSet(S) /\ Cardinality(S) \in Nat
          BY <1>1
    <3>2. /\ IsFiniteSet(S \cup {r})
          /\ Cardinality(S \cup {r}) = IF r \in S THEN Cardinality(S) ELSE Cardinality(S) + 1
          BY <3>1, FS_AddElement
    <3> QED BY <3>1, <3>2
  <2>3. IsFiniteSet(D') /\ Cardinality(D') \in Nat /\ Cardinality(D') <= Cardinality(D) + 1
        BY <1>1, <2>1, <2>2, FS_Subset, FS_CardinalityType
  <2>4. IsFiniteSet(A) /\ A' \subseteq A \ {v}
        BY <1>2, <1>5, <2>1, AddingIsFinite
  <2>5. Cardinality(A \ {v}) = Cardinality(A) - 1 /\ IsFiniteSet(A \ {v})
        BY <2>1, <2>4, FS_RemoveElement
  <2>6. Cardinality(A') <= Cardinality(A) - 1
        BY <2>4, <2>5, FS_Subset
  <2> QED BY <1>1, <1>2, <2>3, <2>6
<1> QED BY <1>3, <1>4, <1>5

LEMMA NextCounted == Fit /\ Kept /\ Counted /\ [Next]_vars => Counted'
<1> SUFFICES ASSUME Fit, Kept, Counted, [Next]_vars, ~raced' PROVE \A u \in Users : Room(u)'
    BY DEF Counted
<1>1. ASSUME NEW v \in Workers, Serve(v)
      PROVE  \A u \in Users : Room(u)'
  <2>1. ~raced /\ Tidy(v)
        BY <1>1, OwnMethod DEF Fit, Kept
  <2> QED BY <1>1, <2>1, RoomStays DEF Counted
<1>2. CASE ~\E v \in Workers : Serve(v)
  <2>1. /\ raced' = raced
        /\ \A u \in Users : DOMAIN Sessions(u)' \subseteq DOMAIN Sessions(u)
        /\ \A w \in Workers : Same(w)
        BY <1>2, OthersKeepNone, OtherStepsGrow
  <2>2. \A u \in Users : Adding(u)' = Adding(u)
        BY <2>1 DEF Adding, Same
  <2>3. ASSUME NEW u \in Users
        PROVE  Room(u)'
    <3>1. Room(u)
          BY <2>1 DEF Counted
    <3> DEFINE D == DOMAIN Sessions(u)
               E == D'
    <3>2. IsFiniteSet(D) /\ E \subseteq D
          BY <2>1, <3>1 DEF Room
    <3>3. IsFiniteSet(E) /\ Cardinality(E) \in Nat /\ Cardinality(E) <= Cardinality(D) /\ Cardinality(D) \in Nat
          BY <3>2, FS_Subset, FS_CardinalityType
    <3>4. /\ Cardinality(Adding(u)) \in Nat /\ Cardinality(Workers) \in Nat
          /\ MAX_REFRESH_SESSIONS_COUNT \in Nat
          BY AddingIsFinite, SessionsAssumption DEF Adding
    <3> QED BY <2>2, <3>1, <3>3, <3>4 DEF Room
  <2> QED BY <2>3
<1> QED BY <1>1, <1>2

LEMMA InitCounted == Init => Counted
<1> SUFFICES ASSUME Init, NEW u \in Users PROVE Room(u)
    BY DEF Counted
<1>1. /\ \A w \in Workers : apc[w] = "idle" /\ \A n \in Names : store[n] = Absent
      BY DEF Init, MapInit
<1>2. DOMAIN Sessions(u) = {}
  <2>1. store[SessionsOf(u)] = Absent
        BY SessionNamesFit DEF Init, MapInit
  <2> QED BY <2>1 DEF Sessions, MapOf, Live, Nothing
<1>3. Adding(u) = {}
      BY <1>1 DEF Adding
<1>4. Cardinality(Workers) \in Nat
      BY AddingIsFinite
<1> QED BY <1>2, <1>3, <1>4, FS_EmptySet, SessionsAssumption DEF Room

(* auth_login.py:181 keeps the sessions of a user within a number: as long *)
(* as no two transactions of one mapping overlap, logins that run at the   *)
(* same time exceed it by at most one session for every other worker.      *)
THEOREM LoginsKeepSessionsBounded == Spec => []SessionsBounded
<1>1. Counted => SessionsBounded
  <2> SUFFICES ASSUME Counted, ~raced, NEW u \in Users
               PROVE  Cardinality(DOMAIN Sessions(u))
                         <= MAX_REFRESH_SESSIONS_COUNT - 1 + Cardinality(Workers)
      BY DEF SessionsBounded
  <2>1. Room(u)
        BY DEF Counted
  <2>2. /\ Cardinality(DOMAIN Sessions(u)) \in Nat
        /\ Cardinality(Adding(u)) \in Nat /\ Cardinality(Workers) \in Nat
        BY <2>1, AddingIsFinite, FS_CardinalityType DEF Room, Adding
  <2> QED BY <2>1, <2>2, SessionsAssumption DEF Room
<1>2. Fit /\ Kept /\ Counted /\ [Next]_vars => Counted'
      BY NextCounted
<1> QED BY <1>1, <1>2, InitCounted, InitKept, NextKept, FitHolds, PTL DEF Spec
=============================================================================
