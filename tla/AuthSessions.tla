---------------------------- MODULE AuthSessions ----------------------------
(***************************************************************************)
(* Login, logout, refresh and the token check of every protected endpoint: *)
(* altrepo_api/api/auth/endpoints/{auth_login,auth_logout,refresh_token}   *)
(* and token_required of altrepo_api/api/auth/decorators.py, run by        *)
(* several workers over the token storage.  Every step below is one        *)
(* storage operation, one call of Keycloak, or the computation between     *)
(* two of them.                                                            *)
(*                                                                         *)
(* The storage holds three kinds of mappings: the refresh sessions of a    *)
(* user, a mark for every blacklisted access token, and the roles of a     *)
(* user.  Passwords, LDAP groups and signatures are checked before a       *)
(* request gets here: a login below is one LDAP or Keycloak has accepted.  *)
(***************************************************************************)
EXTENDS MapStorage, FiniteSets

CONSTANTS
    Users,
    Prints,           \* fingerprints of clients (user_fingerprint)
    RefreshTokens,    \* refresh tokens that can be made (bounds the logins)
    AccessTokens,     \* access tokens that can be made (bounds the issues)
    Providers,        \* the authentication providers in use
    TokenRoles,       \* the sets of roles a token can carry
    RoleGroups,       \* the sets of roles that make a group (AG_ROLE_MAPPING)
    Kinds,            \* the kinds of requests the clients make
    MaxRequests,      \* bound on the number of requests
    MAX_REFRESH_SESSIONS_COUNT,
    EXPIRES_ACCESS_TOKEN,
    EXPIRES_REFRESH_TOKEN,
    KeycloakAccess,      \* lifetime of Keycloak's access tokens
    KeycloakRefresh,     \* lifetime of Keycloak's refresh tokens
    WorkerTimeout        \* gunicorn kills a worker that is busy for longer

SessionsOf(u) == <<"refresh-token", u>>
Blacklisted(a) == <<"blacklisted", a>>
RolesOf(u) == <<"user", u>>

ASSUME NamesAssumption ==
    Names = {SessionsOf(u) : u \in Users} \cup {Blacklisted(a) : a \in AccessTokens}
              \cup {RolesOf(u) : u \in Users}

(* What a token says, and what the storage holds under each kind of name. *)
Payloads ==
    [user : Users, provider : Providers, print : Prints, exp : Nat,
     roles : TokenRoles, refresh : RefreshTokens \cup {Absent}]
SessionEntry == [print : Prints, created : Nat, expires : Nat]
SessionMaps == UNION {[R -> SessionEntry] : R \in SUBSET RefreshTokens}
Marks == [{"expires_at"} -> Nat]
RoleMaps == [{"roles"} -> TokenRoles]
StoredRecord ==
    [map : SessionMaps \cup Marks \cup RoleMaps, updated : Nat, expires : Nat]

ASSUME LifetimesAssumption ==
    /\ {EXPIRES_ACCESS_TOKEN, EXPIRES_REFRESH_TOKEN, KeycloakAccess, KeycloakRefresh} \subseteq Nat
    /\ WorkerTimeout \in Nat
ASSUME SessionsAssumption ==
    MAX_REFRESH_SESSIONS_COUNT \in Nat \ {0} /\ IsFiniteSet(Workers)
ASSUME AbsentAssumption ==
    Absent \notin Payloads /\ Absent \notin StoredRecord /\ Absent \notin Nat

VARIABLES
    requests,    \* the number of requests made
    token,       \* token[a]: the payload of access token a, Absent if not made
    made,        \* the refresh tokens that were made
    keycloak,    \* the refresh tokens whose Keycloak session is open
    apc,         \* apc[w]: where worker w is in its request
    req,         \* req[w]: the request
    found,       \* found[w]: the sessions a logout has read
    revoked,     \* the access tokens a response has declared dead (history)
    loggedIn,    \* the refresh tokens a login has answered with (history)
    loggedOut    \* the refresh tokens whose logout was confirmed (history)

authVars ==
    <<requests, token, made, keycloak, apc, req, found, revoked, loggedIn, loggedOut>>
vars == <<mapVars, authVars>>

NoRequest == [kind |-> "none"]

Init ==
    /\ MapInit
    /\ requests = 0
    /\ token = [a \in AccessTokens |-> Absent]
    /\ made = {}
    /\ keycloak = {}
    /\ apc = [w \in Workers |-> "idle"]
    /\ req = [w \in Workers |-> NoRequest]
    /\ found = [w \in Workers |-> Nothing]
    /\ revoked = {}
    /\ loggedIn = {}
    /\ loggedOut = {}

Issued == {a \in AccessTokens : token[a] # Absent}
AccessLifetime(provider) ==
    IF provider = "ldap" THEN EXPIRES_ACCESS_TOKEN ELSE KeycloakAccess
RefreshLifetime(provider) ==
    IF provider = "ldap" THEN EXPIRES_REFRESH_TOKEN ELSE KeycloakRefresh

(* Worker w is at step pc of its request and in no storage method. *)
At(w, pc) == apc[w] = pc /\ mpc[w] = "ready"
To(w, pc) == apc' = [apc EXCEPT ![w] = pc]

Keep ==
    UNCHANGED <<requests, token, made, keycloak, req, found, revoked, loggedIn, loggedOut>>
KeepStorage == UNCHANGED mapVars

(***************************************************************************)
(* A request begins, and ends with a response: "ok", "refused" (a 400, 401 *)
(* or 403) or "failed" (500).  `dead` are the access tokens it declares    *)
(* dead, `out` the refresh tokens whose logout it confirms.                *)
(***************************************************************************)
BeginRequest(w, pc, r) ==
    /\ apc[w] = "idle"
    /\ requests < MaxRequests
    /\ requests' = requests + 1
    /\ To(w, pc)
    /\ req' = [req EXCEPT ![w] = r]
    /\ UNCHANGED <<token, found, revoked, loggedIn, loggedOut>>
    /\ KeepStorage

Respond(w, response, dead, out) ==
    /\ To(w, response)
    /\ revoked' = revoked \cup dead
    /\ loggedOut' = loggedOut \cup out
    /\ UNCHANGED <<requests, made, keycloak, req, found>>

Refuse(w) == Respond(w, "refused", {}, {}) /\ UNCHANGED <<token, loggedIn>>
Fail(w) == Respond(w, "failed", {}, {}) /\ UNCHANGED <<token, loggedIn>>

Done(w) ==
    /\ apc[w] \in {"ok", "refused", "failed"}
    /\ To(w, "idle")
    /\ req' = [req EXCEPT ![w] = NoRequest]
    /\ found' = [found EXCEPT ![w] = Nothing]
    /\ UNCHANGED <<requests, token, made, keycloak, revoked, loggedIn, loggedOut>>
    /\ KeepStorage

(***************************************************************************)
(* Login.                                                                  *)
(***************************************************************************)
Login(w) ==
    /\ "login" \in Kinds
    /\ \E u \in Users, f \in Prints, p \in Providers, roles \in TokenRoles,
          r \in RefreshTokens \ made :
         /\ BeginRequest(w, "count",
                   [kind |-> "login", user |-> u, print |-> f, provider |-> p,
                    roles |-> roles, refresh |-> r, exp |-> now + AccessLifetime(p),
                    start |-> now])
         /\ made' = made \cup {r}
         /\ keycloak' = IF p = "keycloak" THEN keycloak \cup {r} ELSE keycloak

(* Mistake: one session too many. *)
CountSessionsOffByOne(w) ==
    /\ At(w, "count")
    /\ To(w, IF Cardinality(DOMAIN MapOf(SessionsOf(req[w].user)))
                   > MAX_REFRESH_SESSIONS_COUNT
             THEN "wipe" ELSE "add")
    /\ Keep /\ KeepStorage

(* _exceeds_max_sessions *)
CountSessions(w) ==
    /\ At(w, "count")
    /\ To(w, IF Cardinality(DOMAIN MapOf(SessionsOf(req[w].user)))
                   >= MAX_REFRESH_SESSIONS_COUNT
             THEN "wipe" ELSE "add")
    /\ Keep /\ KeepStorage

WipeSessions(w) ==
    /\ At(w, "wipe")
    /\ To(w, "add")
    /\ Delete(SessionsOf(req[w].user))
    /\ Keep

(* Mistake: the sessions expire with the access token. *)
AddShortSession(w) ==
    /\ At(w, "add")
    /\ To(w, "issue")
    /\ MapSet(w, SessionsOf(req[w].user),
              Field(req[w].refresh, [print |-> req[w].print, created |-> now,
                                     expires |-> RefreshLifetime(req[w].provider)]),
              AccessLifetime(req[w].provider))
    /\ Keep

(* _add_refresh_session.  It reads the mapping named by self._token, which *)
(* is "" and never there: it finds no fingerprint and always adds.         *)
AddSession(w) ==
    /\ At(w, "add")
    /\ To(w, "issue")
    /\ MapSet(w, SessionsOf(req[w].user),
              Field(req[w].refresh, [print |-> req[w].print, created |-> now,
                                     expires |-> RefreshLifetime(req[w].provider)]),
              RefreshLifetime(req[w].provider))
    /\ Keep

NewToken(a, payload) == token' = [token EXCEPT ![a] = payload]

IssueToken(w) ==
    /\ At(w, "issue")
    /\ \E a \in AccessTokens \ Issued :
         NewToken(a, [user |-> req[w].user, provider |-> req[w].provider,
                      print |-> req[w].print, exp |-> req[w].exp,
                      roles |-> req[w].roles,
                      refresh |-> IF req[w].provider = "keycloak" THEN req[w].refresh
                                                                 ELSE Absent])
    /\ Respond(w, "ok", {}, {})
    /\ loggedIn' = loggedIn \cup {req[w].refresh}
    /\ KeepStorage

(***************************************************************************)
(* token_required and _check_access_token.  A client sends an access token *)
(* in the header and, to log out, a refresh token in a cookie.             *)
(***************************************************************************)
Request(w, kind, pc) ==
    /\ kind \in Kinds
    /\ \E a \in Issued, r \in made, f \in Prints, role \in UNION TokenRoles :
         BeginRequest(w, pc, [kind |-> kind, access |-> a, refresh |-> r, print |-> f,
                        role |-> role, start |-> now,
                        lateAccess |-> a \in revoked, lateRefresh |-> r \in loggedOut])
    /\ UNCHANGED <<made, keycloak>>

Payload(w) == token[req[w].access]
Alive(w) == Payload(w).exp > now
IsBlacklisted(w) == MapOf(Blacklisted(req[w].access)) # Nothing

WrongPrint(w) ==
    Payload(w).provider = "ldap" /\ Payload(w).print # req[w].print

Access(w) == Request(w, "access", "check")
Logout(w) == Request(w, "logout", "check")

(* Mistake: the key of another mapping. *)
BlacklistUnderWrongName(w, pc, to) ==
    /\ At(w, pc)
    /\ To(w, to)
    /\ MapSet(w, SessionsOf(Payload(w).user), Field("expires_at", Payload(w).exp),
              EXPIRES_ACCESS_TOKEN)
    /\ Keep

(* AccessTokenBlacklist.add, called at step pc; the request goes on at     *)
(* step to.  The expiration time does not depend on the token.             *)
Blacklist(w, pc, to) ==
    /\ At(w, pc)
    /\ To(w, to)
    /\ MapSet(w, Blacklisted(req[w].access), Field("expires_at", Payload(w).exp),
              EXPIRES_ACCESS_TOKEN)
    /\ Keep

(* AccessTokenBlacklist.check: go on at step to, or refuse, or blacklist    *)
(* the token of a client with another fingerprint and refuse.  It decodes  *)
(* the token again, and an expired one is an exception nobody handles.     *)
CheckToken(w, to) ==
    IF IsBlacklisted(w) THEN Refuse(w)
    ELSE IF ~Alive(w) THEN Fail(w)
    ELSE To(w, IF WrongPrint(w) THEN "burn" ELSE to) /\ Keep

CheckHeader(w) ==
    /\ At(w, "check")
    /\ IF Alive(w) THEN CheckToken(w, "cache") ELSE Refuse(w)
    /\ KeepStorage

Burn(w) == Blacklist(w, "burn", "burnt")

RefuseBurnt(w) ==
    /\ At(w, "burnt")
    /\ Respond(w, "refused", {req[w].access}, {})
    /\ UNCHANGED <<token, loggedIn>> /\ KeepStorage

(* The role is checked, except for a logout (validate_role=False). *)
HasRole(w, roles) == req[w].kind = "logout" \/ req[w].role \in roles

(* The request is let in: a logout goes on, any other endpoint answers.    *)
LetIn(w) ==
    IF req[w].kind = "logout" THEN To(w, "sessions") /\ Keep
                              ELSE Respond(w, "ok", {}, {}) /\ UNCHANGED <<token, loggedIn>>

(* The cached roles of the user, if any, decide alone. *)
CheckCachedRoles(w) ==
    LET cached == MapOf(RolesOf(Payload(w).user)) IN
    /\ At(w, "cache")
    /\ KeepStorage
    /\ cached # Nothing
    /\ IF HasRole(w, cached["roles"]) THEN LetIn(w) ELSE Refuse(w)

(* Else the roles of the token do, after Keycloak was asked about its own. *)
CheckTokenRoles(w) ==
    LET roles == Payload(w).roles IN
    /\ At(w, "cache")
    /\ KeepStorage
    /\ MapOf(RolesOf(Payload(w).user)) = Nothing
    /\ IF /\ Payload(w).provider = "keycloak" => Payload(w).refresh \in keycloak
          /\ HasRole(w, roles)
          /\ \E g \in RoleGroups : g \subseteq roles
       THEN To(w, "store") /\ Keep
       ELSE Refuse(w)

(* Mistake: nothing is left of the token, and 0 means never. *)
StoreRolesForever(w) ==
    /\ backend = "file"
    /\ At(w, "store")
    /\ To(w, "stored")
    /\ MapSet(w, RolesOf(Payload(w).user), Field("roles", Payload(w).roles),
              IF Payload(w).exp > now THEN Payload(w).exp - now ELSE 0)
    /\ Keep

(* UserRolesCache.add *)
StoreRoles(w) ==
    /\ backend = "file"
    /\ At(w, "store")
    /\ To(w, "stored")
    /\ MapSet(w, RolesOf(Payload(w).user), Field("roles", Payload(w).roles),
              IF Payload(w).exp > now THEN Payload(w).exp - now ELSE 1)
    /\ Keep

(* The client of Redis raises DataError: a list is no value of a hash. *)
StoreRolesFails(w) ==
    /\ backend = "redis"
    /\ At(w, "store")
    /\ Fail(w) /\ KeepStorage

RolesStored(w) == At(w, "stored") /\ LetIn(w) /\ KeepStorage

(***************************************************************************)
(* Logout, after token_required has let it in.                             *)
(* It decodes the token again.  One that has expired since is refused when *)
(* it is of LDAP, and an exception nobody handles when it is of Keycloak.  *)
(***************************************************************************)
ReadSessions(w) ==
    /\ At(w, "sessions")
    /\ IF Alive(w)
       THEN /\ found' = [found EXCEPT ![w] = MapOf(SessionsOf(Payload(w).user))]
            /\ To(w, "recheck")
            /\ UNCHANGED <<requests, token, made, keycloak, req, revoked, loggedIn,
                           loggedOut>>
       ELSE IF Payload(w).provider = "ldap" THEN Refuse(w) ELSE Fail(w)
    /\ KeepStorage

CheckAgain(w) ==
    /\ At(w, "recheck")
    /\ CheckToken(w, "leave")
    /\ KeepStorage

LeaveLdap(w) ==
    /\ At(w, "leave")
    /\ Payload(w).provider = "ldap"
    /\ To(w, "revoke")
    /\ Keep /\ KeepStorage

(* Keycloak closes its session, or has none open and answers with an error. *)
LeaveKeycloak(w) ==
    /\ At(w, "leave")
    /\ Payload(w).provider = "keycloak"
    /\ req[w].refresh \in keycloak
    /\ To(w, "revoke")
    /\ keycloak' = keycloak \ {req[w].refresh}
    /\ UNCHANGED <<requests, token, made, req, found, revoked, loggedIn, loggedOut>>
    /\ KeepStorage

LeaveKeycloakFails(w) ==
    /\ At(w, "leave")
    /\ Payload(w).provider = "keycloak"
    /\ req[w].refresh \notin keycloak
    /\ Fail(w) /\ KeepStorage

RevokeForLogout(w) == Blacklist(w, "revoke", "remove")

NoSession(w) ==
    /\ At(w, "remove")
    /\ req[w].refresh \notin DOMAIN found[w]
    /\ Respond(w, "refused", {req[w].access}, {})
    /\ UNCHANGED <<token, loggedIn>> /\ KeepStorage

(* Mistake: only the list that was read is emptied. *)
ForgetLastSession(w) ==
    /\ At(w, "remove")
    /\ DOMAIN found[w] = {req[w].refresh}
    /\ To(w, "bye")
    /\ Keep /\ KeepStorage

(* The last session of those found: the whole mapping is deleted. *)
RemoveLastSession(w) ==
    /\ At(w, "remove")
    /\ DOMAIN found[w] = {req[w].refresh}
    /\ To(w, "bye")
    /\ Delete(SessionsOf(Payload(w).user))
    /\ Keep

RemoveSession(w) ==
    /\ At(w, "remove")
    /\ req[w].refresh \in DOMAIN found[w]
    /\ DOMAIN found[w] # {req[w].refresh}
    /\ To(w, "bye")
    /\ MapDelete(w, SessionsOf(Payload(w).user), req[w].refresh)
    /\ Keep

ConfirmLogout(w) ==
    /\ At(w, "bye")
    /\ Respond(w, "ok", {req[w].access}, {req[w].refresh})
    /\ UNCHANGED <<token, loggedIn>> /\ KeepStorage

(***************************************************************************)
(* Refresh.  The access token may have expired.                            *)
(***************************************************************************)
Refresh(w) == Request(w, "refresh", "blacklist")

CheckNotBlacklisted(w) ==
    /\ At(w, "blacklist")
    /\ KeepStorage
    /\ IF IsBlacklisted(w) THEN Refuse(w) ELSE To(w, "find") /\ Keep

Session(w) == MapOf(SessionsOf(Payload(w).user))[req[w].refresh]
HasSession(w) == req[w].refresh \in DOMAIN MapOf(SessionsOf(Payload(w).user))
SessionPrintOk(w) == Payload(w).provider = "ldap" => Session(w).print = req[w].print
SessionOver(w) == Session(w).created + Session(w).expires <= now

RefuseSession(w) ==
    /\ At(w, "find")
    /\ ~(HasSession(w) /\ SessionPrintOk(w))
    /\ Refuse(w) /\ KeepStorage

DropSession(w) ==
    /\ At(w, "find")
    /\ HasSession(w) /\ SessionPrintOk(w) /\ SessionOver(w)
    /\ To(w, "dropped")
    /\ MapDelete(w, SessionsOf(Payload(w).user), req[w].refresh)
    /\ Keep

RefuseDropped(w) == At(w, "dropped") /\ Refuse(w) /\ KeepStorage

AcceptSession(w) ==
    /\ At(w, "find")
    /\ HasSession(w) /\ SessionPrintOk(w) /\ ~SessionOver(w)
    /\ To(w, "replace")
    /\ Keep /\ KeepStorage

(* Mistake: the old access token stays valid. *)
RefreshWithoutRevoking(w) ==
    /\ At(w, "replace")
    /\ To(w, "renew")
    /\ Keep /\ KeepStorage

RevokeForRefresh(w) == Blacklist(w, "replace", "renew")

(* update_access_token keeps the payload of the old token but for its exp; *)
(* Keycloak makes a new token for an open session, with the roles the user *)
(* has by now, else the call raises.                                       *)
Renew(w) ==
    LET provider == Payload(w).provider IN
    /\ At(w, "renew")
    /\ KeepStorage
    /\ IF provider = "ldap" \/ req[w].refresh \in keycloak
       THEN /\ \E a \in AccessTokens \ Issued, roles \in TokenRoles :
                  /\ provider = "ldap" => roles = Payload(w).roles
                  /\ NewToken(a, [Payload(w) EXCEPT !.exp = now + AccessLifetime(provider),
                                                    !.roles = roles])
            /\ Respond(w, "ok", {req[w].access}, {})
            /\ UNCHANGED loggedIn
       ELSE Fail(w)

(* A session of Keycloak expires or is closed there, which can only matter *)
(* to a request that is about to ask Keycloak for it.                      *)
Asks(w, r) ==
    \/ apc[w] = "cache" /\ Payload(w).refresh = r
    \/ apc[w] \in {"leave", "renew"} /\ Payload(w).provider = "keycloak"
                                   /\ req[w].refresh = r

CloseKeycloakSession ==
    /\ \E r \in keycloak :
          /\ \E w \in Workers : Asks(w, r)
          /\ keycloak' = keycloak \ {r}
    /\ UNCHANGED <<requests, token, made, apc, req, found, revoked, loggedIn, loggedOut>>
    /\ KeepStorage

(* The worker is killed in the middle of a request; another one is forked. *)
Abort(w) ==
    /\ apc[w] \notin {"idle", "ok", "refused", "failed"}
    /\ Fail(w)
    /\ End(w)
    /\ UNCHANGED <<backend, store, now, raced>>

Storing(w) == MapStep(w) /\ UNCHANGED authVars

Expire == (\E n \in Names : RedisExpire(n)) /\ UNCHANGED authVars

Tick ==
    /\ MapTick
    /\ \A w \in Workers : apc[w] # "idle" => now - req[w].start < WorkerTimeout
    /\ UNCHANGED authVars

Serve(w) ==
    \/ Login(w) \/ CountSessions(w) \/ WipeSessions(w) \/ AddSession(w)
    \/ IssueToken(w)
    \/ Access(w) \/ CheckHeader(w) \/ Burn(w) \/ RefuseBurnt(w)
    \/ CheckCachedRoles(w) \/ CheckTokenRoles(w) \/ StoreRoles(w)
    \/ StoreRolesFails(w) \/ RolesStored(w)
    \/ Logout(w) \/ ReadSessions(w) \/ CheckAgain(w)
    \/ LeaveLdap(w) \/ LeaveKeycloak(w) \/ LeaveKeycloakFails(w)
    \/ RevokeForLogout(w) \/ NoSession(w) \/ RemoveLastSession(w)
    \/ RemoveSession(w) \/ ConfirmLogout(w)
    \/ Refresh(w) \/ CheckNotBlacklisted(w) \/ RefuseSession(w)
    \/ DropSession(w) \/ RefuseDropped(w) \/ AcceptSession(w)
    \/ RevokeForRefresh(w) \/ Renew(w)
    \/ Abort(w) \/ Storing(w) \/ Done(w)

Next == (\E w \in Workers : Serve(w)) \/ CloseKeycloakSession \/ Expire \/ Tick

Spec == Init /\ [][Next]_vars

(***************************************************************************)
(* Properties.                                                             *)
(***************************************************************************)
Step == {"idle", "count", "wipe", "add", "issue", "check", "burn", "burnt", "cache",
         "store", "stored", "sessions", "recheck", "leave", "revoke", "remove", "bye",
         "blacklist", "find", "dropped", "replace", "renew", "ok", "refused", "failed"}

Sessions(u) == MapOf(SessionsOf(u))

TypeOK ==
    /\ token \in [AccessTokens -> Payloads \cup {Absent}]
    /\ apc \in [Workers -> Step]
    /\ \A w \in Workers : apc[w] = "idle" => req[w] = NoRequest /\ mpc[w] = "ready"
    /\ made \subseteq RefreshTokens /\ keycloak \cup loggedIn \cup loggedOut \subseteq made
    /\ revoked \subseteq Issued
    /\ \A u \in Users : DOMAIN Sessions(u) \subseteq made

(* Logins that run at the same time each count the sessions before the     *)
(* others add theirs: a user may have more of them than allowed, but only  *)
(* by one for every other worker, unless another write came between the    *)
(* two halves of one: then a wipe may have been lost.                      *)
SessionsBounded ==
    raced \/ \A u \in Users : Cardinality(DOMAIN Sessions(u))
                 <= MAX_REFRESH_SESSIONS_COUNT - 1 + Cardinality(Workers)

(* The shorter one of the lifetimes of LDAP's and Keycloak's sessions. *)
LeastRefresh ==
    IF KeycloakRefresh < EXPIRES_REFRESH_TOKEN THEN KeycloakRefresh ELSE EXPIRES_REFRESH_TOKEN

(* No session a client was given is lost long before its time: the record  *)
(* that holds the sessions of a user lasts from the login of each of them  *)
(* for the shorter of the two lifetimes, though each login sets its time   *)
(* anew, each removal keeps it, and Redis sets it by a second command.     *)
SessionsLast ==
    \A u \in Users : \A r \in DOMAIN Sessions(u) \cap loggedIn :
        LET s == store[SessionsOf(u)] IN
        s.expires = 0 \/ s.updated + s.expires >= s.map[r].created + LeastRefresh

(* Until when a blacklisted token is refused.  A mark stays for the        *)
(* lifetime of a token of LDAP; one of Keycloak may last longer than that. *)
RefusedUntil(a) ==
    LET more == AccessLifetime(token[a].provider) - EXPIRES_ACCESS_TOKEN IN
    IF more > 0 THEN token[a].exp - more ELSE token[a].exp

(* Once a response has declared an access token dead, no later request is  *)
(* let in with it while the mark must be there: until the token expires,   *)
(* when it can only be refreshed, or, with tokens of Keycloak that last    *)
(* longer than those of LDAP, until that much less.                        *)
RevokedIsRefused ==
    \A w \in Workers : apc[w] = "ok" /\ req[w].kind # "login" /\ req[w].lateAccess =>
        LET a == req[w].access IN
        /\ now >= RefusedUntil(a)
        /\ req[w].kind = "refresh" \/ RefusedUntil(a) < token[a].exp

(* Once a logout was confirmed its refresh token gets no access token,     *)
(* unless another worker's write has brought back the session.             *)
LoggedOutIsRefused ==
    \A w \in Workers : apc[w] = "ok" /\ req[w].kind = "refresh" /\ req[w].lateRefresh => raced

(* The roles cached for a user are those of a token of this user that is   *)
(* alive, or has expired no longer ago than a request may run.             *)
CachedRolesExpire ==
    \A u \in Users : MapOf(RolesOf(u)) # Nothing =>
      \E a \in Issued :
        /\ token[a].user = u
        /\ token[a].roles = MapOf(RolesOf(u))["roles"]
        /\ now <= token[a].exp + WorkerTimeout
=============================================================================
