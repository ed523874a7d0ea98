SPECIFICATION Spec
CONSTANTS
    w1 = w1
    w2 = w2
    u1 = u1
    f1 = f1
    f2 = f2
    r1 = r1
    r2 = r2
    r3 = r3
    a1 = a1
    a2 = a2
    a3 = a3
    read = read
    write = write
    Workers = {w1, w2}
    Names <- MCNames
    Backends = {"file", "redis"}
    MaxTime = 0
    Absent = Absent
    Users = {u1}
    Prints = {f1}
    RefreshTokens = {r1, r2, r3}
    AccessTokens = {a1, a2, a3}
    Providers = {"ldap", "keycloak"}
    TokenRoles = {{read}}
    RoleGroups = {{read}}
    Kinds = {"login", "refresh", "logout"}
    MaxRequests = 4
    MAX_REFRESH_SESSIONS_COUNT = 1
    EXPIRES_ACCESS_TOKEN = 1
    EXPIRES_REFRESH_TOKEN = 2
    KeycloakAccess = 1
    KeycloakRefresh = 2
    WorkerTimeout = 1
INVARIANTS
    TypeOK
    SessionsBounded
    LoggedOutIsRefused
SYMMETRY Symmetry
CHECK_DEADLOCK FALSE
