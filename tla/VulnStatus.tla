----------------------------- MODULE VulnStatus -----------------------------
(***************************************************************************)
(* The status of vulnerabilities:                                          *)
(* altrepo_api/api/management/endpoints/vuln_status.py over the table      *)
(* VulnerabilityStatus, where every change is a row of its own and the     *)
(* newest row of a vulnerability counts.  A GET that finds no row stores   *)
(* one.  The field json is left out, it is treated as the reason is; the   *)
(* table's column ts orders the rows as they were inserted.                *)
(***************************************************************************)
EXTENDS Requests, Sequences, FiniteSets

CONSTANTS
    Vulns,        \* vulnerabilities of the table Vulnerabilities
    Authors,      \* nicknames, as numbers to have them sorted
    Resolutions,  \* resolutions of a vulnerability
    Texts,        \* texts of reasons
    NoText,       \* the empty string: no resolution, no reason
    Subscribers   \* lists of subscribers that payloads hold, in order

ASSUME VulnStatusAssumption ==
    /\ Authors \subseteq Nat /\ 0 \notin Authors
    /\ NoText \notin Resolutions
    /\ Subscribers \subseteq Seq(Authors)
    /\ <<>> \in Subscribers
    /\ None \notin Seq(Nat)

VARIABLE versions   \* versions[v]: the rows stored for v, oldest first

Statuses == {"new", "analyzing", "working", "resolved"}

Anonymous == 0   \* the author "" of a row that a GET has stored

Rows == [author : Authors \cup {Anonymous}, status : Statuses,
         reason : Texts \cup {NoText}, resolution : Resolutions \cup {NoText},
         subscribers : Seq(Authors)]

Newest(v) == IF versions[v] = <<>> THEN None ELSE versions[v][Len(versions[v])]

(* What check_params_post lets through. *)
Payloads ==
    {p \in [author : Authors, status : Statuses, reason : Texts \cup {NoText},
            resolution : Resolutions \cup {NoText}, subscribers : Subscribers] :
        /\ p.status = "resolved" <=> p.resolution # NoText
        /\ p.resolution # NoText => p.reason # NoText}

(* The payload of a GET is empty: every field of the row has its default. *)
Defaults == [author |-> Anonymous, status |-> "new", reason |-> NoText,
             resolution |-> NoText, subscribers |-> <<>>]

StatusRequests ==
    [method : {"get"}, vuln : Vulns, row : {Defaults}]
        \cup [method : {"post"}, vuln : Vulns, row : Payloads]

StatusInit == versions = [v \in Vulns |-> <<>>]

StatusGet(w, v) ==
    /\ Begin(w, [method |-> "get", vuln |-> v, row |-> Defaults], "status")
    /\ UNCHANGED versions

StatusPost(w, v, p) ==
    /\ Begin(w, [method |-> "post", vuln |-> v, row |-> p], "status")
    /\ UNCHANGED versions

(* The list s, which is sorted, with a in its place. *)
InOrder(s, a) ==
    LET upTo == Cardinality({i \in 1..Len(s) : s[i] <= a})
    IN  SubSeq(s, 1, upTo) \o <<a>> \o SubSeq(s, upTo + 1, Len(s))

(* The row that the request of w stores after it has read `old`: its       *)
(* author subscribes unless the vulnerability just becomes known as new.   *)
RowFor(w, old) ==
    LET row == request[w].row
    IN  CASE old = None /\ row.status = "new" -> row
          [] old = None /\ row.status # "new" ->
                [row EXCEPT !.subscribers = InOrder(@, row.author)]
          [] old # None ->
                [row EXCEPT !.subscribers = Append(@, row.author)]

NoChanges(old, row) == old = row

(* Mutant of ReturnsToNew: only a resolved vulnerability is kept from it. *)
ReturnsToNewResolved(old, row) == old.status = "resolved" /\ row.status = "new"

ReturnsToNew(old, row) == old.status # "new" /\ row.status = "new"

(* A GET answers with the newest row. *)
AnswerStatus(w) ==
    /\ place[w] = "status" /\ request[w].method = "get"
    /\ Newest(request[w].vuln) # None
    /\ Answer(w)
    /\ UNCHANGED versions

(* A POST is refused: "No changes", "Can't return status to 'new'".  The   *)
(* third test, for a reason of a status that goes back, never refuses: it  *)
(* looks for a reason that is None and a status that is "", and there are  *)
(* none of either.                                                         *)
RefuseStatus(w) ==
    LET old == Newest(request[w].vuln)
        row == request[w].row
    IN  /\ place[w] = "status" /\ request[w].method = "post"
        /\ old # None
        /\ NoChanges(old, row) \/ ReturnsToNew(old, row)
        /\ Answer(w)
        /\ UNCHANGED versions

(* GET without a row, POST without a row or with a change: go on to store. *)
AcceptStatus(w) ==
    LET old == Newest(request[w].vuln)
        row == request[w].row
    IN  /\ place[w] = "status"
        /\ \/ old = None
           \/ /\ old # None /\ request[w].method = "post"
              /\ ~NoChanges(old, row) /\ ~ReturnsToNew(old, row)
        /\ ReadAndGo(w, old, "storeStatus")
        /\ UNCHANGED versions

StoreStatus(w) ==
    /\ place[w] = "storeStatus"
    /\ versions' = [versions EXCEPT ![request[w].vuln] =
                        Append(@, RowFor(w, seen[w]))]
    /\ StoreAndAnswer(w)

StatusStep(w) ==
    \/ AnswerStatus(w)
    \/ RefuseStatus(w)
    \/ AcceptStatus(w)
    \/ StoreStatus(w)

StatusNext ==
    \E w \in Workers :
        \/ \E v \in Vulns : StatusGet(w, v)
        \/ \E v \in Vulns, p \in Payloads : StatusPost(w, v, p)
        \/ StatusStep(w)
        \/ Fail(w) /\ UNCHANGED versions

StatusTypeOK ==
    /\ RequestsTypeOK({"status", "storeStatus"}, StatusRequests, Rows)
    /\ versions \in [Vulns -> Seq(Rows)]

-----------------------------------------------------------------------------
(* "Can't return status to 'new'" (vuln_status.py:223-230): the newest     *)
(* status of a vulnerability goes back to new only when the request that   *)
(* does it was overtaken by another one between its check and its insert.  *)
BackToNewOnlyIfOvertaken ==
    [][\A v \in Vulns, w \in Workers :
          (/\ Newest(v) # None /\ Newest(v).status # "new"
           /\ Newest(v)'.status = "new"
           /\ place[w] = "storeStatus" /\ place'[w] = "idle")
              => overtaken[w]]_<<versions, requestVars>>
=============================================================================
