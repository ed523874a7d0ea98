--------------------------- MODULE DefaultReasons ---------------------------
(***************************************************************************)
(* The default reasons, altrepo_api/api/management/endpoints/              *)
(* default_reasons.py: texts offered for an action of a source.  A reason  *)
(* is what its newest row in the table DefaultReasons says; each method    *)
(* looks reasons up by some statements and stores rows by another one.     *)
(***************************************************************************)
EXTENDS Requests, FiniteSets

CONSTANT Reasons   \* triples of a text, a source and an action

ASSUME ReasonsAssumption == IsFiniteSet(Reasons)

VARIABLE reasons   \* reasons[r]: the flags of the newest row of r

Flags == {"none", "active", "inactive", "deleted"}

(* The list shows a reason unless it is marked as deleted. *)
Listed(flags) == flags \in {"active", "inactive"}
ListedReasons == {r \in Reasons : Listed(reasons[r])}

ReasonRequests ==
    [method : {"post", "delete"}, reason : Reasons]
        \cup [method : {"put"}, reason : Reasons, prev : Reasons]

ReasonsInit == reasons = [r \in Reasons |-> "none"]

ReasonPost(w, r) ==
    /\ Begin(w, [method |-> "post", reason |-> r], "reason")
    /\ UNCHANGED reasons

ReasonPut(w, r, prev) ==
    /\ Begin(w, [method |-> "put", reason |-> r, prev |-> prev], "reason")
    /\ UNCHANGED reasons

ReasonDelete(w, r) ==
    /\ Begin(w, [method |-> "delete", reason |-> r], "reason")
    /\ UNCHANGED reasons

Look(w) == reasons[request[w].reason]

(* post: a reason that is listed is refused. *)
LookForPost(w) ==
    /\ place[w] = "reason" /\ request[w].method = "post"
    /\ ReadFor(w, Look(w), ~Listed(Look(w)), "storeReason")
    /\ UNCHANGED reasons

(* Mutant of LookForDelete: the reason need not be there. *)
LookForDeleteAny(w) ==
    /\ place[w] = "reason" /\ request[w].method = "delete"
    /\ ReadFor(w, Look(w), Look(w) # "inactive", "storeReason")
    /\ UNCHANGED reasons

(* delete: only an active reason can be disabled. *)
LookForDelete(w) ==
    /\ place[w] = "reason" /\ request[w].method = "delete"
    /\ ReadFor(w, Look(w), Look(w) = "active", "storeReason")
    /\ UNCHANGED reasons

LookForPut(w) ==
    /\ place[w] = "reason" /\ request[w].method = "put"
    /\ ReadAndGo(w, Look(w), "previousReason")
    /\ UNCHANGED reasons

(* put enables a disabled reason, which then is its own previous one, or   *)
(* replaces an active reason by one that is not listed yet.                *)
Undiscards(w, prevFlags) ==
    /\ seen[w] = "inactive" /\ Listed(prevFlags)
    /\ request[w].reason = request[w].prev
ReplacesListed(w, prevFlags) == prevFlags = "active"   \* mutant of Replaces
Replaces(w, prevFlags) == ~Listed(seen[w]) /\ prevFlags = "active"

(* The second look-up of put, and what it is refused for. *)
LookForPrevious(w) ==
    LET prevFlags == reasons[request[w].prev]
    IN  /\ place[w] = "previousReason"
        /\ UNCHANGED reasons
        /\ \/ /\ Undiscards(w, prevFlags) \/ Replaces(w, prevFlags)
              /\ Goto(w, IF Replaces(w, prevFlags) THEN "storeBoth" ELSE "storeReason")
              /\ UNCHANGED <<request, seen, overtaken, left>>
           \/ /\ ~Undiscards(w, prevFlags) /\ ~Replaces(w, prevFlags)
              /\ Answer(w)

StoreReason(w) ==
    /\ place[w] = "storeReason"
    /\ reasons' = [reasons EXCEPT ![request[w].reason] =
                      IF request[w].method = "delete" THEN "inactive" ELSE "active"]
    /\ StoreAndAnswer(w)

(* One INSERT of two rows.  They can only be rows of the same reason if it *)
(* came to be between the two look-ups; both are the newest then, and each *)
(* flag is read from either of the two.                                    *)
StoreBoth(w) ==
    LET r == request[w].reason
        prev == request[w].prev
    IN  /\ place[w] = "storeBoth"
        /\ \E flags \in IF r = prev THEN {"active", "inactive", "deleted"}
                                    ELSE {"active"} :
              reasons' = [reasons EXCEPT ![prev] = "deleted", ![r] = flags]
        /\ StoreAndAnswer(w)

ReasonStep(w) ==
    \/ LookForPost(w)
    \/ LookForDelete(w)
    \/ LookForPut(w)
    \/ LookForPrevious(w)
    \/ StoreReason(w)
    \/ StoreBoth(w)

ReasonsNext ==
    \E w \in Workers :
        \/ \E r \in Reasons : ReasonPost(w, r) \/ ReasonDelete(w, r)
        \/ \E r, prev \in Reasons : ReasonPut(w, r, prev)
        \/ ReasonStep(w)
        \/ Fail(w) /\ UNCHANGED reasons

ReasonsTypeOK ==
    /\ RequestsTypeOK({"reason", "previousReason", "storeReason", "storeBoth"},
                      ReasonRequests, Flags)
    /\ reasons \in [Reasons -> Flags]

-----------------------------------------------------------------------------
(* What the look-ups of put are for (default_reasons.py:162-218): unless   *)
(* another request overtook it, replacing a reason takes one away and adds *)
(* one, and enabling one leaves the list as long as it was.                *)
PutKeepsLength ==
    [][\A w \in Workers :
          (/\ place[w] \in {"storeReason", "storeBoth"} /\ place'[w] = "idle"
           /\ reasons' # reasons
           /\ request[w].method = "put" /\ ~overtaken[w])
              => Cardinality(ListedReasons') = Cardinality(ListedReasons)
      ]_<<reasons, requestVars>>

(* A reason that was replaced stays away from the list until a request     *)
(* asks for just that reason to be listed; a request to disable it brings  *)
(* it back only if it was overtaken (default_reasons.py:220-240).          *)
ReplacedStaysAway ==
    [][\A r \in Reasons, w \in Workers :
          (/\ reasons[r] = "deleted" /\ Listed(reasons'[r])
           /\ place[w] = "storeReason" /\ place'[w] = "idle")
              => request[w].method # "delete" \/ overtaken[w]
      ]_<<reasons, requestVars>>
=============================================================================
