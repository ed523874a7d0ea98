--------------------------- MODULE MCAuthSessions ---------------------------
(* Up to two workers and one user.  Keycloak may change the user's roles   *)
(* when it renews a token.                                                 *)
EXTENDS AuthSessions, TLC

CONSTANTS w1, w2, u1, f1, f2, r1, r2, r3, a1, a2, a3, write, read

MCNames == {SessionsOf(u) : u \in Users} \cup {Blacklisted(a) : a \in AccessTokens}
             \cup {RolesOf(u) : u \in Users}

Symmetry == Permutations(Workers) \cup Permutations(Prints)
              \cup Permutations(RefreshTokens) \cup Permutations(AccessTokens)
=============================================================================
