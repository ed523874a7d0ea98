------------------------------ MODULE SaErrata ------------------------------
(***************************************************************************)
(* Security advisories and exclusions, altrepo_api/api/management/         *)
(* endpoints/sa.py: the records themselves are kept by the Errata Server,  *)
(* a service outside of this repository.  Creating one is two calls, the   *)
(* list to check for overlaps and the create.  libs/errata_server/base.py  *)
(* sends each call once: the adapter that would repeat it is mounted for   *)
(* the prefix "http", and requests prefers its own for the longer          *)
(* "https://".                                                            *)
(***************************************************************************)
EXTENDS Requests, Sequences

CONSTANTS
    Jsons,     \* the contents of errata (ErrataJson) that requests hold
    VulnIds,   \* vulnerabilities
    Cpes,      \* values of vuln_cpe
    Packages,  \* values of pkg_name
    Branches   \* branches of advisories

ASSUME JsonsAssumption ==
    Jsons \subseteq [type : {"advisory", "exclusion", "patch"},
                     action : {"cve", "cpe", "package", "vulnerability"},
                     vuln : VulnIds, cpe : Cpes, pkg : Packages,
                     branches : SUBSET Branches]

VARIABLE errata   \* errata[i]: the records of the Errata Server as created

(* `checked` says that the record is as a create left it that nobody       *)
(* overtook.                                                               *)
Erratum == [json : Jsons, discarded : BOOLEAN, checked : BOOLEAN]

SaRequests == [method : {"post", "delete"}, json : Jsons]
                  \cup [method : {"put"}, json : Jsons, prev : Jsons]

SaInit == errata = <<>>

SaPost(w, j) ==
    /\ Begin(w, [method |-> "post", json |-> j], "list")
    /\ UNCHANGED errata

SaPut(w, prev, j) ==
    /\ Begin(w, [method |-> "put", json |-> j, prev |-> prev], "update")
    /\ UNCHANGED errata

SaDelete(w, j) ==
    /\ Begin(w, [method |-> "delete", json |-> j], "discard")
    /\ UNCHANGED errata

(* An erratum of the list that _check_sa_overlap looks at. *)
ActiveOn(e, v) == ~e.discarded /\ e.json.vuln = v

(* Mutant of Overlaps: exclusions of packages are not compared. *)
OverlapsNoPackage(j, db) ==
    \/ /\ j.type = "advisory"
       /\ \/ db.type = "advisory" /\ j.branches \cap db.branches # {}
          \/ db.type = "exclusion" /\ db.action = "cve"
    \/ /\ j.type = "exclusion"
       /\ \/ db.type = "advisory"
          \/ db.type = "exclusion" /\ db.action = "cve"
          \/ db.type = "exclusion" /\ db.action = "cpe" /\ j.action = "cpe" /\ j.cpe = db.cpe

(* Does the new errata j overlap with the one of the database, db? *)
Overlaps(j, db) ==
    \/ /\ j.type = "advisory"
       /\ \/ db.type = "advisory" /\ j.branches \cap db.branches # {}
          \/ db.type = "exclusion" /\ db.action = "cve"
    \/ /\ j.type = "exclusion"
       /\ \/ db.type = "advisory"
          \/ /\ db.type = "exclusion"
             /\ \/ db.action = "cve"
                \/ j.action = "cpe" /\ db.action = "cpe" /\ j.cpe = db.cpe
                \/ j.action = "package" /\ db.action = "package" /\ j.pkg = db.pkg

Refused(j) ==
    \E i \in 1..Len(errata) : ActiveOn(errata[i], j.vuln) /\ Overlaps(j, errata[i].json)

CheckOverlap(w) ==
    /\ place[w] = "list"
    /\ ReadFor(w, None, ~Refused(request[w].json), "create")
    /\ UNCHANGED errata

(* The Errata Server does what it is asked for; that it refuses is Fail.   *)
(* With a lost answer the request fails too, after the record has changed. *)
CreateErratum(w) ==
    /\ place[w] = "create"
    /\ errata' = Append(errata, [json |-> request[w].json, discarded |-> FALSE,
                                 checked |-> ~overtaken[w]])
    /\ StoreAndAnswer(w)

Holds(i, j) == errata[i].json = j /\ ~errata[i].discarded

(* put: no check for overlaps. *)
UpdateErratum(w) ==
    /\ place[w] = "update"
    /\ \E i \in 1..Len(errata) :
          /\ Holds(i, request[w].prev)
          /\ errata' = [errata EXCEPT ![i].json = request[w].json,
                                      ![i].checked = FALSE]
    /\ StoreAndAnswer(w)

DiscardErratum(w) ==
    /\ place[w] = "discard"
    /\ \E i \in 1..Len(errata) :
          /\ Holds(i, request[w].json)
          /\ errata' = [errata EXCEPT ![i].discarded = TRUE]
    /\ Answer(w)

SaStep(w) ==
    \/ CheckOverlap(w)
    \/ CreateErratum(w)
    \/ UpdateErratum(w)
    \/ DiscardErratum(w)

SaNext ==
    \E w \in Workers :
        \/ \E j \in Jsons : SaPost(w, j) \/ SaDelete(w, j)
        \/ \E prev, j \in Jsons : SaPut(w, prev, j)
        \/ SaStep(w)
        \/ Fail(w) /\ UNCHANGED errata

SaTypeOK ==
    /\ RequestsTypeOK({"list", "create", "update", "discard"}, SaRequests, {})
    /\ errata \in Seq(Erratum)

-----------------------------------------------------------------------------
(* Errata of one vulnerability that contradict or repeat each other: two   *)
(* advisories for a branch, an advisory and the exclusion of the whole     *)
(* vulnerability, two exclusions of the same thing.                        *)
Contradict(a, b) ==
    \/ a.type = "advisory" /\ b.type = "advisory" /\ a.branches \cap b.branches # {}
    \/ a.type = "advisory" /\ b.type = "exclusion" /\ b.action = "cve"
    \/ a.type = "exclusion" /\ a.action = "cve" /\ b.type = "advisory"
    \/ /\ a.type = "exclusion" /\ b.type = "exclusion" /\ a.action = b.action
       /\ \/ a.action = "cve"
          \/ a.action = "cpe" /\ a.cpe = b.cpe
          \/ a.action = "package" /\ a.pkg = b.pkg

(* What _check_sa_overlap (sa.py:75-146) is for: of active errata for one  *)
(* vulnerability no two contradict each other, if they are as their        *)
(* creates left them and no create was overtaken.  Discarded errata and    *)
(* creates repeated after a lost answer make no difference.                *)
NoContradictionUnlessOvertaken ==
    \A i, k \in 1..Len(errata) :
        (/\ i < k /\ errata[i].checked /\ errata[k].checked
         /\ ~errata[i].discarded /\ ~errata[k].discarded
         /\ errata[i].json.vuln = errata[k].json.vuln)
            => ~Contradict(errata[i].json, errata[k].json)
=============================================================================
