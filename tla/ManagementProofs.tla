-------------------------- MODULE ManagementProofs --------------------------
(***************************************************************************)
(* What the management endpoints promise, for any number of workers and    *)
(* requests and any tables.  Each endpoint has an inductive invariant of   *)
(* its own: what a request has read still holds where it goes on to store, *)
(* unless the request was overtaken.                                       *)
(***************************************************************************)
EXTENDS Management, FiniteSetTheorems, SequenceTheorems, WellFoundedInduction, TLAPS

(* A step of w leaves the requests of the other workers alone, *)
Others(w) ==
    \A u \in Workers \ {w} :
        place'[u] = place[u] /\ request'[u] = request[u] /\ seen'[u] = seen[u]

(* and either does not overtake them or overtakes them all. *)
OvertakesNone(w) == \A u \in Workers \ {w} : overtaken'[u] = overtaken[u]
OvertakesAll(w) == \A u \in Workers \ {w} : overtaken'[u] = (place[u] # "idle")

LEMMA BeginEffect ==
    ASSUME NEW places, NEW requests, NEW readings,
           RequestsTypeOK(places, requests, readings),
           NEW w \in Workers, NEW r \in requests, NEW p \in places, Begin(w, r, p)
    PROVE  /\ RequestsTypeOK(places, requests, readings)'
           /\ Others(w) /\ OvertakesNone(w)
           /\ place[w] = "idle" /\ place'[w] = p /\ request'[w] = r /\ seen'[w] = seen[w]
           /\ overtaken'[w] = overtaken[w]
BY MaxRequestsAssumption DEF Begin, Goto, RequestsTypeOK, Others, OvertakesNone

LEMMA AnswerEffect ==
    ASSUME NEW places, NEW requests, NEW readings,
           RequestsTypeOK(places, requests, readings), NEW w \in Workers, Answer(w)
    PROVE  /\ RequestsTypeOK(places, requests, readings)'
           /\ Others(w) /\ OvertakesNone(w)
           /\ place'[w] = "idle" /\ overtaken'[w] = FALSE
BY DEF Answer, Goto, RequestsTypeOK, Others, OvertakesNone

LEMMA ReadEffect ==
    ASSUME NEW places, NEW requests, NEW readings,
           RequestsTypeOK(places, requests, readings),
           NEW w \in Workers, NEW value \in {None} \cup readings, NEW p \in places,
           ReadAndGo(w, value, p)
    PROVE  /\ RequestsTypeOK(places, requests, readings)'
           /\ Others(w) /\ OvertakesNone(w)
           /\ place'[w] = p /\ request'[w] = request[w] /\ seen'[w] = value
           /\ overtaken'[w] = FALSE
BY DEF ReadAndGo, Goto, RequestsTypeOK, Others, OvertakesNone

LEMMA StoreAndGoEffect ==
    ASSUME NEW places, NEW requests, NEW readings,
           RequestsTypeOK(places, requests, readings),
           NEW w \in Workers, NEW p \in places, StoreAndGo(w, p)
    PROVE  /\ RequestsTypeOK(places, requests, readings)'
           /\ Others(w) /\ OvertakesAll(w)
           /\ place'[w] = p /\ request'[w] = request[w] /\ overtaken'[w] = overtaken[w]
BY DEF StoreAndGo, Overtake, Goto, RequestsTypeOK, Others, OvertakesAll

LEMMA StoreAndAnswerEffect ==
    ASSUME NEW places, NEW requests, NEW readings,
           RequestsTypeOK(places, requests, readings),
           NEW w \in Workers, StoreAndAnswer(w)
    PROVE  /\ RequestsTypeOK(places, requests, readings)'
           /\ Others(w) /\ OvertakesAll(w)
           /\ place'[w] = "idle" /\ overtaken'[w] = FALSE
BY DEF StoreAndAnswer, Overtake, Goto, RequestsTypeOK, Others, OvertakesAll

LEMMA RequestsTypeInit ==
    ASSUME NEW places, NEW requests, NEW readings, RequestsInit
    PROVE  /\ RequestsTypeOK(places, requests, readings)
           /\ \A w \in Workers : place[w] = "idle"
BY MaxRequestsAssumption DEF RequestsInit, RequestsTypeOK

-----------------------------------------------------------------------------
(* Security advisories: a request that goes on to create an erratum and    *)
(* was not overtaken would pass the check again.                           *)
SaHasRequest == \A w \in Workers : place[w] # "idle" => request[w] \in SaRequests

StillAllowed ==
    \A w \in Workers : place[w] = "create" /\ ~overtaken[w] => ~Refused(request[w].json)

SaInv == SaTypeOK /\ SaHasRequest /\ StillAllowed /\ NoContradictionUnlessOvertaken

LEMMA ContradictionOverlaps ==
    ASSUME NEW a, NEW b, Contradict(a, b) PROVE Overlaps(b, a)
BY DEF Contradict, Overlaps

LEMMA SaInvInit == RequestsInit /\ SaInit => SaInv
<1> SUFFICES ASSUME RequestsInit, SaInit PROVE SaInv
    OBVIOUS
<1>1. SaTypeOK /\ \A w \in Workers : place[w] = "idle"
      BY RequestsTypeInit DEF SaTypeOK, SaInit
<1> QED BY <1>1 DEF SaInv, SaInit, SaHasRequest, StillAllowed, NoContradictionUnlessOvertaken

(* Whether a new erratum is refused depends on the errata alone. *)
LEMMA RefusedLess ==
    ASSUME errata \in Seq(Erratum), errata' \in Seq(Erratum), NEW j,
           Len(errata') = Len(errata),
           \A i \in 1..Len(errata) : /\ errata'[i].json = errata[i].json
                                     /\ errata'[i].discarded \/ ~errata[i].discarded
    PROVE  Refused(j)' => Refused(j)
BY DEF Refused, ActiveOn, Erratum

(* A step of w that keeps the errata, and does not go on to a create.      *)
LEMMA SaQuiet ==
    ASSUME SaInv, SaTypeOK', UNCHANGED errata, NEW w \in Workers, Others(w), OvertakesNone(w),
           place'[w] # "idle" => request'[w] \in SaRequests,
           place'[w] = "create" => ~Refused(request'[w].json)
    PROVE  SaInv'
<1>1. SaHasRequest'
      BY DEF SaInv, SaHasRequest, Others
<1>2. \A j : Refused(j)' = Refused(j)
      BY DEF Refused, ActiveOn
<1>3. StillAllowed'
      BY <1>2 DEF SaInv, StillAllowed, Others, OvertakesNone
<1>4. NoContradictionUnlessOvertaken'
      BY DEF SaInv, NoContradictionUnlessOvertaken
<1> QED BY <1>1, <1>3, <1>4 DEF SaInv

LEMMA SaAnswers ==
    ASSUME SaInv, NEW w \in Workers, Answer(w), UNCHANGED errata PROVE SaInv'
<1>1. SaTypeOK' /\ Others(w) /\ OvertakesNone(w) /\ place'[w] = "idle"
      BY AnswerEffect DEF SaInv, SaTypeOK
<1> QED BY <1>1, SaQuiet

LEMMA SaBegins ==
    ASSUME SaInv, UNCHANGED errata, NEW w \in Workers, NEW r \in SaRequests,
           NEW p \in {"list", "update", "discard"}, Begin(w, r, p)
    PROVE  SaInv'
<1>1. /\ SaTypeOK' /\ Others(w) /\ OvertakesNone(w)
      /\ place'[w] = p /\ request'[w] = r
      BY BeginEffect DEF SaInv, SaTypeOK
<1> QED BY <1>1, SaQuiet

LEMMA SaChecks ==
    ASSUME SaInv, NEW w \in Workers, CheckOverlap(w) PROVE SaInv'
<1>1. UNCHANGED errata /\ place[w] = "list"
      BY DEF CheckOverlap
<1>2. CASE Refused(request[w].json)
      BY <1>1, <1>2, SaAnswers DEF CheckOverlap, ReadFor
<1>3. CASE ~Refused(request[w].json)
  <2>1. ReadAndGo(w, None, "create")
        BY <1>3 DEF CheckOverlap, ReadFor
  <2>2. /\ SaTypeOK' /\ Others(w) /\ OvertakesNone(w)
        /\ request'[w] = request[w]
    <3>1. None \in {None} \cup {} /\ "create" \in {"list", "create", "update", "discard"}
          OBVIOUS
    <3>2. RequestsTypeOK({"list", "create", "update", "discard"}, SaRequests, {})
          BY DEF SaInv, SaTypeOK
    <3> QED BY <1>1, <2>1, <3>1, <3>2, ReadEffect DEF SaInv, SaTypeOK
  <2>3. request[w] \in SaRequests
        BY <1>1 DEF SaInv, SaHasRequest
  <2> QED BY <1>1, <1>3, <2>2, <2>3, SaQuiet
<1> QED BY <1>2, <1>3

(* A step that stores errata. *)
LEMMA SaStores ==
    ASSUME SaInv, NEW w \in Workers, StoreAndAnswer(w),
           errata' \in Seq(Erratum), NoContradictionUnlessOvertaken'
    PROVE  SaInv'
<1>1. /\ SaTypeOK' /\ Others(w) /\ OvertakesAll(w)
      /\ place'[w] = "idle" /\ overtaken'[w] = FALSE
      BY StoreAndAnswerEffect DEF SaInv, SaTypeOK
<1>2. SaHasRequest'
      BY <1>1 DEF SaInv, SaHasRequest, Others
<1>3. StillAllowed'
      BY <1>1 DEF StillAllowed, Others, OvertakesAll
<1> QED BY <1>1, <1>2, <1>3 DEF SaInv

LEMMA SaCreates ==
    ASSUME SaInv, NEW w \in Workers, CreateErratum(w) PROVE SaInv'
<1> DEFINE new == [json |-> request[w].json, discarded |-> FALSE, checked |-> ~overtaken[w]]
           n == Len(errata)
<1>1. /\ place[w] = "create" /\ StoreAndAnswer(w) /\ errata' = Append(errata, new)
      /\ errata \in Seq(Erratum) /\ overtaken[w] \in BOOLEAN
      BY DEF CreateErratum, SaInv, SaTypeOK, RequestsTypeOK
<1>2. request[w].json \in Jsons
  <2>1. request[w] \in SaRequests
        BY <1>1 DEF SaInv, SaHasRequest
  <2> QED BY <2>1 DEF SaRequests
<1>3. new \in Erratum
      BY <1>1, <1>2 DEF Erratum
<1>4. /\ errata' \in Seq(Erratum) /\ n \in Nat /\ Len(errata') = n + 1 /\ errata'[n + 1] = new
      /\ \A i \in 1..n : errata'[i] = errata[i]
      BY <1>1, <1>3, AppendProperties, LenProperties
<1>5. ASSUME NEW i \in 1..n, ~overtaken[w], ~errata[i].discarded,
             errata[i].json.vuln = request[w].json.vuln
      PROVE  ~Contradict(errata[i].json, request[w].json)
  <2>1. ~Refused(request[w].json)
        BY <1>1, <1>5 DEF SaInv, StillAllowed
  <2> QED BY <1>5, <2>1, ContradictionOverlaps DEF Refused, ActiveOn
<1>6. NoContradictionUnlessOvertaken'
  <2> SUFFICES ASSUME NEW i \in 1..(n + 1), NEW k \in 1..(n + 1), i < k,
                      errata'[i].checked, errata'[k].checked,
                      ~errata'[i].discarded, ~errata'[k].discarded,
                      errata'[i].json.vuln = errata'[k].json.vuln
               PROVE  ~Contradict(errata'[i].json, errata'[k].json)
      BY <1>4 DEF NoContradictionUnlessOvertaken, Contradict
  <2>1. CASE k = n + 1
    <3>1. i \in 1..n /\ errata'[i] = errata[i] /\ errata'[k] = new
          BY <1>4, <2>1
    <3>2. new.json = request[w].json /\ new.checked = ~overtaken[w]
          OBVIOUS
    <3> QED BY <1>5, <3>1, <3>2
  <2>2. CASE k # n + 1
    <3>1. i \in 1..n /\ k \in 1..n /\ errata'[i] = errata[i] /\ errata'[k] = errata[k]
          BY <1>4, <2>2
    <3> QED BY <3>1 DEF SaInv, NoContradictionUnlessOvertaken
  <2> QED BY <2>1, <2>2
<1> QED BY <1>1, <1>4, <1>6, SaStores

LEMMA SaUpdates ==
    ASSUME SaInv, NEW w \in Workers, UpdateErratum(w) PROVE SaInv'
<1>1. PICK i \in 1..Len(errata) :
         errata' = [errata EXCEPT ![i].json = request[w].json, ![i].checked = FALSE]
      BY DEF UpdateErratum
<1>2. place[w] = "update" /\ StoreAndAnswer(w) /\ errata \in Seq(Erratum)
      BY DEF UpdateErratum, SaInv, SaTypeOK
<1>3. request[w].json \in Jsons
  <2>1. request[w] \in SaRequests
        BY <1>2 DEF SaInv, SaHasRequest
  <2> QED BY <2>1 DEF SaRequests
<1>4. /\ errata' \in Seq(Erratum) /\ Len(errata') = Len(errata)
      /\ ~errata'[i].checked
      /\ \A k \in 1..Len(errata) : k # i => errata'[k] = errata[k]
  <2>1. errata' = [errata EXCEPT ![i] = [@ EXCEPT !.json = request[w].json, !.checked = FALSE]]
        BY <1>1, <1>2
  <2>2. errata[i] \in Erratum
        BY <1>2, ElementOfSeq
  <2>3. [errata[i] EXCEPT !.json = request[w].json, !.checked = FALSE] \in Erratum
        BY <1>3, <2>2 DEF Erratum
  <2> QED BY <1>2, <2>1, <2>2, <2>3, ExceptSeq DEF Erratum
<1>5. NoContradictionUnlessOvertaken'
      BY <1>4 DEF SaInv, NoContradictionUnlessOvertaken, Contradict
<1> QED BY <1>2, <1>4, <1>5, SaStores

LEMMA SaDiscards ==
    ASSUME SaInv, NEW w \in Workers, DiscardErratum(w) PROVE SaInv'
<1>1. PICK i \in 1..Len(errata) : errata' = [errata EXCEPT ![i].discarded = TRUE]
      BY DEF DiscardErratum
<1>2. errata \in Seq(Erratum) /\ Answer(w)
      BY DEF DiscardErratum, SaInv, SaTypeOK
<1>3. /\ errata' \in Seq(Erratum) /\ Len(errata') = Len(errata)
      /\ \A k \in 1..Len(errata) : /\ errata'[k].json = errata[k].json
                                   /\ errata'[k].checked = errata[k].checked
                                   /\ errata'[k].discarded \/ ~errata[k].discarded
  <2>1. errata' = [errata EXCEPT ![i] = [@ EXCEPT !.discarded = TRUE]]
        BY <1>1, <1>2
  <2>2. errata[i] \in Erratum
        BY <1>2, ElementOfSeq
  <2>3. [errata[i] EXCEPT !.discarded = TRUE] \in Erratum
        BY <2>2 DEF Erratum
  <2> QED BY <1>2, <2>1, <2>2, <2>3, ExceptSeq DEF Erratum
<1>4. /\ SaTypeOK' /\ Others(w) /\ OvertakesNone(w) /\ place'[w] = "idle"
      BY <1>2, <1>3, AnswerEffect DEF SaInv, SaTypeOK
<1>5. SaHasRequest'
      BY <1>4 DEF SaInv, SaHasRequest, Others
<1>6. \A j : Refused(j)' => Refused(j)
      BY <1>2, <1>3, RefusedLess
<1>7. StillAllowed'
      BY <1>4, <1>6 DEF SaInv, StillAllowed, Others, OvertakesNone
<1>8. NoContradictionUnlessOvertaken'
      BY <1>3 DEF SaInv, NoContradictionUnlessOvertaken, Contradict, Erratum
<1> QED BY <1>4, <1>5, <1>7, <1>8 DEF SaInv

LEMMA SaInvStep == SaInv /\ SaNext => SaInv'
<1> SUFFICES ASSUME SaInv, SaNext PROVE SaInv'
    OBVIOUS
<1>1. ASSUME NEW w \in Workers, NEW j \in Jsons, SaPost(w, j) PROVE SaInv'
  <2>1. [method |-> "post", json |-> j] \in SaRequests
        BY DEF SaRequests
  <2> QED BY <1>1, <2>1, SaBegins DEF SaPost
<1>2. ASSUME NEW w \in Workers, NEW j \in Jsons, SaDelete(w, j) PROVE SaInv'
  <2>1. [method |-> "delete", json |-> j] \in SaRequests
        BY DEF SaRequests
  <2> QED BY <1>2, <2>1, SaBegins DEF SaDelete
<1>3. ASSUME NEW w \in Workers, NEW prev \in Jsons, NEW j \in Jsons, SaPut(w, prev, j)
      PROVE  SaInv'
  <2>1. [method |-> "put", json |-> j, prev |-> prev] \in SaRequests
        BY DEF SaRequests
  <2> QED BY <1>3, <2>1, SaBegins DEF SaPut
<1>4. ASSUME NEW w \in Workers, SaStep(w) PROVE SaInv'
      BY <1>4, SaChecks, SaCreates, SaUpdates, SaDiscards DEF SaStep
<1>5. ASSUME NEW w \in Workers, Fail(w), UNCHANGED errata PROVE SaInv'
      BY <1>5, SaAnswers DEF Fail
<1> QED BY <1>1, <1>2, <1>3, <1>4, <1>5 DEF SaNext

-----------------------------------------------------------------------------
(* The status of vulnerabilities: a request that goes on to store a row    *)
(* and was not overtaken has read the newest row.                          *)
StatusHasRequest ==
    \A w \in Workers : place[w] # "idle" => request[w] \in StatusRequests

StatusIsRead ==
    \A w \in Workers :
        place[w] = "storeStatus" =>
            /\ request[w].method = "get" => seen[w] = None
            /\ seen[w] # None => ~ReturnsToNew(seen[w], request[w].row)
            /\ ~overtaken[w] => seen[w] = Newest(request[w].vuln)

StatusInv == StatusTypeOK /\ StatusHasRequest /\ StatusIsRead

LEMMA StatusInvInit == RequestsInit /\ StatusInit => StatusInv
<1> SUFFICES ASSUME RequestsInit, StatusInit PROVE StatusInv
    OBVIOUS
<1>1. versions \in [Vulns -> Seq(Rows)]
      BY EmptySeq DEF StatusInit
<1>2. StatusTypeOK /\ \A w \in Workers : place[w] = "idle"
      BY <1>1, RequestsTypeInit DEF StatusTypeOK
<1> QED BY <1>2 DEF StatusInv, StatusHasRequest, StatusIsRead

LEMMA InOrderType ==
    ASSUME NEW s \in Seq(Authors), NEW a \in Authors PROVE InOrder(s, a) \in Seq(Authors)
<1> DEFINE notAfter == {i \in 1..Len(s) : s[i] <= a}
           upTo == Cardinality(notAfter)
<1>1. Len(s) \in Nat
      BY LenProperties
<1>2. IsFiniteSet(1..Len(s)) /\ Cardinality(1..Len(s)) = Len(s)
  <2>1. PICK n \in Nat : n = Len(s)
        BY <1>1
  <2>2. IsFiniteSet(1..n) /\ Cardinality(1..n) = IF 1 > n THEN 0 ELSE n - 1 + 1
        BY FS_Interval
  <2>3. (IF 1 > n THEN 0 ELSE n - 1 + 1) = n
        OBVIOUS
  <2> QED BY <2>1, <2>2, <2>3
<1>3. upTo <= Len(s) /\ upTo \in Nat
      BY <1>2, FS_Subset, FS_CardinalityType
<1> HIDE DEF upTo
<1>4. SubSeq(s, 1, upTo) \in Seq(Authors)
      BY <1>1, <1>3, ElementOfSeq, SubSeqProperties
<1>5. SubSeq(s, upTo + 1, Len(s)) \in Seq(Authors)
      BY <1>1, <1>3, ElementOfSeq, SubSeqProperties
<1>6. <<a>> \in Seq(Authors)
      OBVIOUS
<1>7. SubSeq(s, 1, upTo) \o <<a>> \in Seq(Authors)
      BY <1>4, <1>6, ConcatProperties
<1>8. (SubSeq(s, 1, upTo) \o <<a>>) \o SubSeq(s, upTo + 1, Len(s)) \in Seq(Authors)
      BY <1>5, <1>7, ConcatProperties
<1> QED BY <1>8 DEF InOrder, upTo

LEMMA NewestType ==
    ASSUME StatusTypeOK, NEW v \in Vulns PROVE Newest(v) \in {None} \cup Rows
<1>1. versions[v] \in Seq(Rows)
      BY DEF StatusTypeOK
<1>2. CASE versions[v] # <<>>
  <2>1. Len(versions[v]) \in 1..Len(versions[v])
        BY <1>1, <1>2, LenProperties, EmptySeq
  <2> QED BY <1>1, <2>1, ElementOfSeq DEF Newest
<1> QED BY <1>2 DEF Newest

(* A step of w that keeps the rows, and does not go on to store one.       *)
LEMMA StatusQuiet ==
    ASSUME StatusInv, StatusTypeOK', UNCHANGED versions,
           NEW w \in Workers, Others(w), OvertakesNone(w),
           place'[w] # "idle" => request'[w] \in StatusRequests,
           place'[w] = "storeStatus" =>
               /\ request'[w].method = "get" => seen'[w] = None
               /\ seen'[w] # None => ~ReturnsToNew(seen'[w], request'[w].row)
               /\ seen'[w] = Newest(request'[w].vuln)
    PROVE  StatusInv'
<1>1. StatusHasRequest'
      BY DEF StatusInv, StatusHasRequest, Others
<1>2. \A v : Newest(v)' = Newest(v)
      BY DEF Newest
<1>3. StatusIsRead'
      BY <1>2 DEF StatusInv, StatusIsRead, Others, OvertakesNone, ReturnsToNew
<1> QED BY <1>1, <1>3 DEF StatusInv

LEMMA StatusAnswers ==
    ASSUME StatusInv, NEW w \in Workers, Answer(w), UNCHANGED versions PROVE StatusInv'
<1>1. StatusTypeOK' /\ Others(w) /\ OvertakesNone(w) /\ place'[w] = "idle"
      BY AnswerEffect DEF StatusInv, StatusTypeOK
<1> QED BY <1>1, StatusQuiet

LEMMA StatusBegins ==
    ASSUME StatusInv, UNCHANGED versions, NEW w \in Workers, NEW r \in StatusRequests,
           Begin(w, r, "status")
    PROVE  StatusInv'
<1>1. /\ StatusTypeOK' /\ Others(w) /\ OvertakesNone(w)
      /\ place'[w] = "status" /\ request'[w] = r
      BY MaxRequestsAssumption
      DEF StatusInv, StatusTypeOK, RequestsTypeOK, Begin, Goto, Others, OvertakesNone
<1> QED BY <1>1, StatusQuiet

LEMMA StatusAccepts ==
    ASSUME StatusInv, NEW w \in Workers, AcceptStatus(w) PROVE StatusInv'
<1>1. PICK old : old = Newest(request[w].vuln)
      OBVIOUS
<1>2. /\ place[w] = "status" /\ UNCHANGED versions
      /\ ReadAndGo(w, old, "storeStatus")
      /\ \/ old = None
         \/ old # None /\ request[w].method = "post" /\ ~ReturnsToNew(old, request[w].row)
      BY <1>1 DEF AcceptStatus
<1>3. request[w] \in StatusRequests
      BY <1>2 DEF StatusInv, StatusHasRequest
<1>4. old \in {None} \cup Rows
  <2>1. request[w].vuln \in Vulns
        BY <1>3 DEF StatusRequests
  <2> QED BY <1>1, <2>1, NewestType DEF StatusInv
<1>5. /\ StatusTypeOK' /\ Others(w) /\ OvertakesNone(w)
      /\ request'[w] = request[w] /\ seen'[w] = old
      BY <1>2, <1>4
      DEF StatusInv, StatusTypeOK, RequestsTypeOK, ReadAndGo, Goto, Others, OvertakesNone
<1>6. \A v : Newest(v)' = Newest(v)
      BY <1>2 DEF Newest
<1> QED BY <1>1, <1>2, <1>3, <1>5, <1>6, StatusQuiet

(* The row that is stored, and what it makes of the newest one.            *)
LEMMA StatusStored ==
    ASSUME StatusInv, NEW w \in Workers, StoreStatus(w)
    PROVE  /\ RowFor(w, seen[w]) \in Rows
           /\ request[w].vuln \in Vulns
           /\ \A v \in Vulns : /\ v # request[w].vuln => Newest(v)' = Newest(v)
                               /\ v = request[w].vuln => Newest(v)' = RowFor(w, seen[w])
           /\ seen[w] # None => RowFor(w, seen[w]).status = request[w].row.status
           /\ versions' \in [Vulns -> Seq(Rows)]
<1> DEFINE row == request[w].row
           new == RowFor(w, seen[w])
<1>0. PICK v : v = request[w].vuln
      OBVIOUS
<1>1. place[w] = "storeStatus" /\ versions' = [versions EXCEPT ![v] = Append(@, new)]
      BY <1>0 DEF StoreStatus
<1>2. request[w] \in StatusRequests /\ versions \in [Vulns -> Seq(Rows)]
      BY <1>1 DEF StatusInv, StatusHasRequest, StatusTypeOK
<1>3. /\ v \in Vulns
      /\ \/ request[w].method = "get" /\ row = Defaults
         \/ request[w].method = "post" /\ row \in Payloads
      BY <1>0, <1>2 DEF StatusRequests
<1>4. Payloads \subseteq Rows /\ Defaults \in Rows
      BY VulnStatusAssumption, EmptySeq DEF Payloads, Defaults, Rows, Statuses
<1>5. \A p \in Payloads : p.author \in Authors /\ p.subscribers \in Seq(Authors)
      BY VulnStatusAssumption DEF Payloads
<1>6. ASSUME request[w].method = "get"
      PROVE  new \in Rows /\ (seen[w] # None => new.status = row.status)
  <2>1. seen[w] = None /\ row = Defaults
        BY <1>1, <1>3, <1>6 DEF StatusInv, StatusIsRead
  <2>2. new = Defaults
        BY <2>1 DEF RowFor, Defaults
  <2> QED BY <1>4, <2>1, <2>2
<1>7. ASSUME row \in Payloads
      PROVE  new \in Rows /\ (seen[w] # None => new.status = row.status)
  <2>1. InOrder(row.subscribers, row.author) \in Seq(Authors)
        BY <1>5, <1>7, InOrderType
  <2>2. Append(row.subscribers, row.author) \in Seq(Authors)
        BY <1>5, <1>7, AppendProperties
  <2>3. row \in Rows
        BY <1>4, <1>7
  <2>4. \A s \in Seq(Authors) : [row EXCEPT !.subscribers = s] \in Rows
        BY <2>3 DEF Rows
  <2>5. \A s : [row EXCEPT !.subscribers = s].status = row.status
        BY <2>3 DEF Rows
  <2>6. CASE seen[w] = None /\ row.status = "new"
        BY <2>3, <2>6 DEF RowFor
  <2>7. CASE seen[w] = None /\ row.status # "new"
    <3>1. new = [row EXCEPT !.subscribers = InOrder(row.subscribers, row.author)]
          BY <2>3, <2>7 DEF RowFor, Rows
    <3> QED BY <2>1, <2>4, <2>7, <3>1
  <2>8. CASE seen[w] # None
    <3>1. new = [row EXCEPT !.subscribers = Append(row.subscribers, row.author)]
          BY <2>3, <2>8 DEF RowFor, Rows
    <3> QED BY <2>2, <2>4, <2>5, <3>1
  <2> QED BY <2>6, <2>7, <2>8
<1>8. new \in Rows /\ (seen[w] # None => new.status = row.status)
      BY <1>3, <1>6, <1>7
<1> HIDE DEF new, row
<1>9. versions[v] \in Seq(Rows)
      BY <1>2, <1>3
<1>10. /\ Append(versions[v], new) \in Seq(Rows)
       /\ Len(versions[v]) \in Nat /\ Append(versions[v], new) # <<>>
       /\ Append(versions[v], new)[Len(Append(versions[v], new))] = new
       BY <1>8, <1>9, AppendProperties, LenProperties
<1>11. versions' \in [Vulns -> Seq(Rows)]
       BY <1>1, <1>2, <1>10
<1>12. Newest(v)' = new
  <2>1. versions'[v] = Append(versions[v], new)
        BY <1>1, <1>2, <1>3
  <2> QED BY <1>10, <2>1 DEF Newest
<1>13. \A u \in Vulns : u # v => Newest(u)' = Newest(u)
       BY <1>1, <1>2 DEF Newest
<1> QED BY <1>0, <1>3, <1>8, <1>11, <1>12, <1>13 DEF row, new

LEMMA StatusStores ==
    ASSUME StatusInv, NEW w \in Workers, StoreStatus(w) PROVE StatusInv'
<1>1. StoreAndAnswer(w) /\ versions' \in [Vulns -> Seq(Rows)]
      BY StatusStored DEF StoreStatus
<1>2. /\ StatusTypeOK' /\ Others(w) /\ OvertakesAll(w)
      /\ place'[w] = "idle" /\ overtaken'[w] = FALSE
      BY <1>1, StoreAndAnswerEffect DEF StatusInv, StatusTypeOK
<1>3. StatusHasRequest'
      BY <1>2 DEF StatusInv, StatusHasRequest, Others
<1>4. StatusIsRead'
      BY <1>2 DEF StatusInv, StatusIsRead, Others, OvertakesAll, ReturnsToNew
<1> QED BY <1>2, <1>3, <1>4 DEF StatusInv

LEMMA StatusInvStep == StatusInv /\ StatusNext => StatusInv'
<1> SUFFICES ASSUME StatusInv, StatusNext PROVE StatusInv'
    OBVIOUS
<1>1. ASSUME NEW w \in Workers, NEW v \in Vulns, StatusGet(w, v) PROVE StatusInv'
  <2>1. [method |-> "get", vuln |-> v, row |-> Defaults] \in StatusRequests
        BY DEF StatusRequests
  <2> QED BY <1>1, <2>1, StatusBegins DEF StatusGet
<1>2. ASSUME NEW w \in Workers, NEW v \in Vulns, NEW p \in Payloads, StatusPost(w, v, p)
      PROVE  StatusInv'
  <2>1. [method |-> "post", vuln |-> v, row |-> p] \in StatusRequests
        BY DEF StatusRequests
  <2> QED BY <1>2, <2>1, StatusBegins DEF StatusPost
<1>3. ASSUME NEW w \in Workers, StatusStep(w) PROVE StatusInv'
      BY <1>3, StatusAnswers, StatusAccepts, StatusStores
      DEF StatusStep, AnswerStatus, RefuseStatus
<1>4. ASSUME NEW w \in Workers, Fail(w), UNCHANGED versions PROVE StatusInv'
      BY <1>4, StatusAnswers DEF Fail
<1> QED BY <1>1, <1>2, <1>3, <1>4 DEF StatusNext

(* A request that is done with storing has just stored, or has failed.     *)
LEMMA StatusBackToNew ==
    ASSUME StatusInv, StatusNext, NEW v \in Vulns, NEW w \in Workers,
           Newest(v) # None, Newest(v).status # "new", Newest(v)'.status = "new",
           place[w] = "storeStatus", place'[w] = "idle"
    PROVE  overtaken[w]
<1>1. ASSUME NEW u \in Workers, UNCHANGED versions PROVE FALSE
      BY <1>1 DEF Newest
<1>2. PICK u \in Workers : StoreStatus(u)
      BY <1>1 DEF StatusNext, StatusGet, StatusPost, StatusStep, AnswerStatus, RefuseStatus,
                  AcceptStatus
<1>3. u = w
  <2>1. StoreAndAnswer(u)
        BY <1>2 DEF StoreStatus
  <2>2. Others(u)
        BY <2>1, StoreAndAnswerEffect DEF StatusInv, StatusTypeOK
  <2> QED BY <2>2 DEF Others
<1>4. /\ v = request[w].vuln /\ Newest(v)' = RowFor(w, seen[w])
      /\ seen[w] # None => Newest(v)'.status = request[w].row.status
      BY <1>2, <1>3, StatusStored
<1>5. ASSUME ~overtaken[w] PROVE FALSE
  <2>1. seen[w] = Newest(v) /\ ~ReturnsToNew(seen[w], request[w].row)
        BY <1>4, <1>5 DEF StatusInv, StatusIsRead
  <2> QED BY <1>4, <2>1 DEF ReturnsToNew
<1> QED BY <1>5

-----------------------------------------------------------------------------
(* Default reasons: what a request has looked up still holds where it goes *)
(* on to store, unless it was overtaken.                                   *)
LookedUp(w) ==
    /\ place[w] # "idle" => request[w] \in ReasonRequests
    /\ place[w] \in {"previousReason", "storeBoth"} => request[w].method = "put"
    /\ ~overtaken[w] =>
          /\ place[w] = "previousReason" => seen[w] = reasons[request[w].reason]
          /\ place[w] = "storeReason" =>
                /\ request[w].method = "put" => reasons[request[w].reason] = "inactive"
                /\ request[w].method = "delete" => reasons[request[w].reason] = "active"
          /\ place[w] = "storeBoth" =>
                /\ reasons[request[w].prev] = "active"
                /\ ~Listed(reasons[request[w].reason])

ReasonsInv == ReasonsTypeOK /\ \A w \in Workers : LookedUp(w)

LEMMA ReasonsInvInit == RequestsInit /\ ReasonsInit => ReasonsInv
<1> SUFFICES ASSUME RequestsInit, ReasonsInit PROVE ReasonsInv
    OBVIOUS
<1>1. ReasonsTypeOK /\ \A w \in Workers : place[w] = "idle"
      BY RequestsTypeInit DEF ReasonsTypeOK, ReasonsInit, Flags
<1> QED BY <1>1 DEF ReasonsInv, LookedUp

LEMMA ReasonsQuiet ==
    ASSUME ReasonsInv, ReasonsTypeOK', UNCHANGED reasons,
           NEW w \in Workers, Others(w), OvertakesNone(w), LookedUp(w)'
    PROVE  ReasonsInv'
<1>1. ASSUME NEW u \in Workers, u # w PROVE LookedUp(u)'
      BY <1>1 DEF ReasonsInv, LookedUp, Others, OvertakesNone
<1> QED BY <1>1 DEF ReasonsInv

LEMMA ReasonsAnswers ==
    ASSUME ReasonsInv, NEW w \in Workers, Answer(w), UNCHANGED reasons PROVE ReasonsInv'
<1>1. ReasonsTypeOK' /\ Others(w) /\ OvertakesNone(w) /\ place'[w] = "idle"
      BY DEF ReasonsInv, ReasonsTypeOK, RequestsTypeOK, Answer, Goto, Others, OvertakesNone
<1>2. LookedUp(w)'
      BY <1>1 DEF LookedUp
<1> QED BY <1>1, <1>2, ReasonsQuiet

LEMMA ReasonsBegins ==
    ASSUME ReasonsInv, UNCHANGED reasons, NEW w \in Workers, NEW r \in ReasonRequests,
           Begin(w, r, "reason")
    PROVE  ReasonsInv'
<1>1. /\ ReasonsTypeOK' /\ Others(w) /\ OvertakesNone(w)
      /\ place'[w] = "reason" /\ request'[w] = r
      BY MaxRequestsAssumption
      DEF ReasonsInv, ReasonsTypeOK, RequestsTypeOK, Begin, Goto, Others, OvertakesNone
<1>2. LookedUp(w)'
      BY <1>1 DEF LookedUp
<1> QED BY <1>1, <1>2, ReasonsQuiet

LEMMA LookType ==
    ASSUME ReasonsInv, NEW w \in Workers, place[w] # "idle"
    PROVE  /\ request[w] \in ReasonRequests /\ request[w].reason \in Reasons
           /\ Look(w) \in Flags
           /\ request[w].method = "put" => request[w].prev \in Reasons
<1>1. request[w] \in ReasonRequests
      BY DEF ReasonsInv, LookedUp
<1>2. request[w].reason \in Reasons /\ (request[w].method = "put" => request[w].prev \in Reasons)
      BY <1>1 DEF ReasonRequests
<1> QED BY <1>1, <1>2 DEF Look, ReasonsInv, ReasonsTypeOK

(* The look-ups of the methods. *)
LEMMA ReasonsLooks ==
    ASSUME ReasonsInv, NEW w \in Workers, UNCHANGED reasons, place[w] = "reason",
           NEW p \in {"previousReason", "storeReason"}, ReadAndGo(w, Look(w), p),
           p = "previousReason" => request[w].method = "put",
           p = "storeReason" =>
               /\ request[w].method # "put"
               /\ request[w].method = "delete" => Look(w) = "active"
    PROVE  ReasonsInv'
<1>1. request[w] \in ReasonRequests /\ Look(w) \in Flags
      BY LookType
<1>2. /\ ReasonsTypeOK' /\ Others(w) /\ OvertakesNone(w)
      /\ place'[w] = p /\ request'[w] = request[w] /\ seen'[w] = Look(w)
      BY <1>1
      DEF ReasonsInv, ReasonsTypeOK, RequestsTypeOK, ReadAndGo, Goto, Others, OvertakesNone
<1>3. LookedUp(w)'
      BY <1>1, <1>2 DEF LookedUp, Look
<1> QED BY <1>2, <1>3, ReasonsQuiet

LEMMA ReasonsLooksAgain ==
    ASSUME ReasonsInv, NEW w \in Workers, LookForPrevious(w) PROVE ReasonsInv'
<1>1. PICK prevFlags : prevFlags = reasons[request[w].prev]
      OBVIOUS
<1>2. /\ place[w] = "previousReason" /\ UNCHANGED reasons
      /\ \/ /\ Undiscards(w, prevFlags) \/ Replaces(w, prevFlags)
            /\ Goto(w, IF Replaces(w, prevFlags) THEN "storeBoth" ELSE "storeReason")
            /\ UNCHANGED <<request, seen, overtaken, left>>
         \/ Answer(w)
      BY <1>1 DEF LookForPrevious
<1>3. CASE Answer(w)
      BY <1>2, <1>3, ReasonsAnswers
<1>4. ASSUME Undiscards(w, prevFlags) \/ Replaces(w, prevFlags),
             Goto(w, IF Replaces(w, prevFlags) THEN "storeBoth" ELSE "storeReason"),
             UNCHANGED <<request, seen, overtaken, left>>
      PROVE  ReasonsInv'
  <2>1. /\ ReasonsTypeOK' /\ Others(w) /\ OvertakesNone(w)
        /\ place'[w] = IF Replaces(w, prevFlags) THEN "storeBoth" ELSE "storeReason"
        BY <1>2, <1>4
        DEF ReasonsInv, ReasonsTypeOK, RequestsTypeOK, Goto, Others, OvertakesNone
  <2>2. LookedUp(w)
        BY DEF ReasonsInv
  <2>3. LookedUp(w)'
        BY <1>1, <1>2, <1>4, <2>1, <2>2 DEF LookedUp, Undiscards, Replaces
  <2> QED BY <1>2, <2>1, <2>3, ReasonsQuiet
<1> QED BY <1>2, <1>3, <1>4

LEMMA ReasonsStore ==
    ASSUME ReasonsInv, NEW w \in Workers, StoreAndAnswer(w), reasons' \in [Reasons -> Flags]
    PROVE  ReasonsInv' /\ Others(w)
<1>1. /\ ReasonsTypeOK' /\ Others(w) /\ OvertakesAll(w) /\ place'[w] = "idle"
      BY DEF ReasonsInv, ReasonsTypeOK, RequestsTypeOK, StoreAndAnswer, Overtake, Goto, Others,
             OvertakesAll
<1>2. ASSUME NEW u \in Workers PROVE LookedUp(u)'
  <2>1. CASE u = w
        BY <1>1, <2>1 DEF LookedUp
  <2>2. CASE u # w
    <3>1. /\ place'[u] = place[u] /\ request'[u] = request[u] /\ seen'[u] = seen[u]
          /\ overtaken'[u] = (place[u] # "idle")
          BY <1>1, <2>2 DEF Others, OvertakesAll
    <3>2. LookedUp(u)
          BY DEF ReasonsInv
    <3> QED BY <3>1, <3>2 DEF LookedUp
  <2> QED BY <2>1, <2>2
<1> QED BY <1>1, <1>2 DEF ReasonsInv

LEMMA ReasonsStored ==
    ASSUME ReasonsInv, NEW w \in Workers, StoreReason(w) \/ StoreBoth(w)
    PROVE  ReasonsInv' /\ Others(w)
<1>1. reasons \in [Reasons -> Flags]
      BY DEF ReasonsInv, ReasonsTypeOK
<1>2. reasons' \in [Reasons -> Flags]
      BY <1>1 DEF StoreReason, StoreBoth, Flags
<1> QED BY <1>2, ReasonsStore DEF StoreReason, StoreBoth

LEMMA ReasonsInvStep == ReasonsInv /\ ReasonsNext => ReasonsInv'
<1> SUFFICES ASSUME ReasonsInv, ReasonsNext PROVE ReasonsInv'
    OBVIOUS
<1>1. ASSUME NEW w \in Workers, NEW r \in Reasons, ReasonPost(w, r) \/ ReasonDelete(w, r)
      PROVE  ReasonsInv'
  <2>1. [method |-> "post", reason |-> r] \in ReasonRequests
        BY DEF ReasonRequests
  <2>2. [method |-> "delete", reason |-> r] \in ReasonRequests
        BY DEF ReasonRequests
  <2> QED BY <1>1, <2>1, <2>2, ReasonsBegins DEF ReasonPost, ReasonDelete
<1>2. ASSUME NEW w \in Workers, NEW r \in Reasons, NEW prev \in Reasons, ReasonPut(w, r, prev)
      PROVE  ReasonsInv'
  <2>1. [method |-> "put", reason |-> r, prev |-> prev] \in ReasonRequests
        BY DEF ReasonRequests
  <2> QED BY <1>2, <2>1, ReasonsBegins DEF ReasonPut
<1>3. ASSUME NEW w \in Workers, ReasonStep(w) PROVE ReasonsInv'
  <2>1. CASE LookForPost(w)
        BY <2>1, ReasonsAnswers, ReasonsLooks DEF LookForPost, ReadFor
  <2>2. CASE LookForDelete(w)
        BY <2>2, ReasonsAnswers, ReasonsLooks DEF LookForDelete, ReadFor
  <2>3. CASE LookForPut(w)
        BY <2>3, ReasonsLooks DEF LookForPut
  <2> QED BY <1>3, <2>1, <2>2, <2>3, ReasonsLooksAgain, ReasonsStored DEF ReasonStep
<1>4. ASSUME NEW w \in Workers, Fail(w), UNCHANGED reasons PROVE ReasonsInv'
      BY <1>4, ReasonsAnswers DEF Fail
<1> QED BY <1>1, <1>2, <1>3, <1>4 DEF ReasonsNext

(* Only a request that leaves a storing place changes reasons. *)
LEMMA ReasonsChangedBy ==
    ASSUME ReasonsInv, ReasonsNext, reasons' # reasons, NEW w \in Workers,
           place[w] # "idle", place'[w] = "idle"
    PROVE  StoreReason(w) \/ StoreBoth(w)
<1>1. PICK u \in Workers : StoreReason(u) \/ StoreBoth(u)
      BY DEF ReasonsNext, ReasonPost, ReasonDelete, ReasonPut, ReasonStep, LookForPost,
             LookForDelete, LookForPut, LookForPrevious
<1>2. Others(u)
      BY <1>1, ReasonsStored
<1> QED BY <1>1, <1>2 DEF Others

LEMMA ReasonsKeepLength ==
    ASSUME ReasonsInv, ReasonsNext, reasons' # reasons, NEW w \in Workers,
           place[w] \in {"storeReason", "storeBoth"}, place'[w] = "idle",
           request[w].method = "put", ~overtaken[w]
    PROVE  Cardinality(ListedReasons') = Cardinality(ListedReasons)
<1>1. PICK r, prev : r = request[w].reason /\ prev = request[w].prev
      OBVIOUS
<1>2. r \in Reasons /\ prev \in Reasons /\ reasons \in [Reasons -> Flags]
      BY <1>1, LookType DEF ReasonsInv, ReasonsTypeOK
<1>3. LookedUp(w)
      BY DEF ReasonsInv
<1>4. CASE StoreReason(w)
  <2>1. reasons[r] = "inactive" /\ reasons' = [reasons EXCEPT ![r] = "active"]
        BY <1>1, <1>3, <1>4 DEF LookedUp, StoreReason
  <2>2. ListedReasons' = ListedReasons
        BY <1>2, <2>1 DEF ListedReasons, Listed
  <2> QED BY <2>2
<1>5. CASE StoreBoth(w)
  <2>1. reasons[prev] = "active" /\ ~Listed(reasons[r])
        BY <1>1, <1>3, <1>5 DEF LookedUp, StoreBoth
  <2>2. r # prev
        BY <2>1 DEF Listed
  <2>3. reasons' = [reasons EXCEPT ![prev] = "deleted", ![r] = "active"]
        BY <1>1, <1>5, <2>2 DEF StoreBoth
  <2>4. ListedReasons' = (ListedReasons \ {prev}) \cup {r}
        BY <1>2, <2>2, <2>3 DEF ListedReasons, Listed
  <2>5. prev \in ListedReasons /\ r \notin ListedReasons
        BY <1>2, <2>1 DEF ListedReasons, Listed
  <2>6. IsFiniteSet(ListedReasons)
        BY ReasonsAssumption, FS_Subset DEF ListedReasons
  <2>7. /\ IsFiniteSet(ListedReasons \ {prev})
        /\ Cardinality(ListedReasons \ {prev}) = Cardinality(ListedReasons) - 1
        BY <2>5, <2>6, FS_RemoveElement
  <2>8. Cardinality(ListedReasons') = Cardinality(ListedReasons \ {prev}) + 1
        BY <2>4, <2>5, <2>7, FS_AddElement
  <2>9. Cardinality(ListedReasons) \in Nat
        BY <2>6, FS_CardinalityType
  <2> QED BY <2>7, <2>8, <2>9
<1> QED BY <1>4, <1>5, ReasonsChangedBy

LEMMA ReasonsStayAway ==
    ASSUME ReasonsInv, ReasonsNext, NEW r \in Reasons, NEW w \in Workers,
           reasons[r] = "deleted", Listed(reasons'[r]),
           place[w] = "storeReason", place'[w] = "idle", request[w].method = "delete"
    PROVE  overtaken[w]
<1>1. reasons' # reasons
      BY DEF Listed
<1>2. StoreReason(w)
      BY <1>1, ReasonsChangedBy DEF StoreBoth
<1>3. r = request[w].reason
      BY <1>2 DEF StoreReason, ReasonsInv, ReasonsTypeOK, Listed
<1> QED BY <1>3 DEF ReasonsInv, LookedUp

-----------------------------------------------------------------------------
(* Comments: an id belongs to one comment, stored or about to be; a        *)
(* comment is stored after its parent; a change is recorded after its      *)
(* comment was stored.                                                     *)
Waits(w) == place[w] \in {"lastComment", "storeComment"}

(* The comment n begins a tree or continues one. *)
Grows(n) ==
    \/ Root(n) /\ n.rid = n.id
    \/ \E p \in comments : p.id = n.pid /\ p.entity = n.entity /\ p.rid = n.rid

Pending(w) ==
    LET new == request[w].comment
    IN  /\ place[w] # "idle" => request[w] \in CommentRequests
        /\ Waits(w) => /\ \A c \in comments : c.id # new.id
                       /\ \A u \in Workers \ {w} :
                             Waits(u) => request[u].comment.id # new.id
        /\ place[w] = "lastComment" => Root(new) /\ new.rid = new.id
        /\ place[w] = "storeComment" => Grows(new)
        /\ place[w] = "record" => \E c \in comments : c.id = new.id
        /\ (/\ place[w] = "storeComment" /\ request[w].method = "create"
            /\ ~overtaken[w] /\ OnEntity(new.entity) # {}) => ~Root(new)

CommentsInv ==
    /\ CommentsTypeOK
    /\ \A w \in Workers : Pending(w)
    /\ RepliesFormTrees /\ RecordsHaveComments

LEMMA CommentsInvInit == RequestsInit /\ CommentsInit => CommentsInv
<1> SUFFICES ASSUME RequestsInit, CommentsInit PROVE CommentsInv
    OBVIOUS
<1>1. comments = {} /\ history = <<>> /\ second = 0
      BY DEF CommentsInit
<1>2. CommentsTypeOK /\ \A w \in Workers : place[w] = "idle"
      BY <1>1, CommentsAssumption, RequestsTypeInit, EmptySeq DEF CommentsTypeOK
<1>3. RepliesFormTrees
      BY <1>1 DEF RepliesFormTrees
<1>4. RecordsHaveComments
      BY <1>1 DEF RecordsHaveComments
<1> QED BY <1>2, <1>3, <1>4 DEF CommentsInv, Pending, Waits

(* An entity with comments has a last one. *)
LEMMA LastIsThere ==
    ASSUME comments \subseteq Comment, NEW e, OnEntity(e) # {} PROVE Last(e) \in OnEntity(e)
<1> DEFINE top == (MaxSecond + 1) * LowCount
           gaps == {top - c.id : c \in OnEntity(e)}
<1>1. top \in Nat /\ \A c \in OnEntity(e) : c.id \in 0..(top - 1)
      BY CommentsAssumption DEF OnEntity, Comment, Ids
<1> HIDE DEF top
<1>2. gaps \subseteq Nat /\ gaps # {}
      BY <1>1
<1>3. PICK g \in gaps : \A h \in gaps : ~(<<h, g>> \in OpToRel(<, Nat))
      BY <1>2, NatLessThanWellFounded, WFMin
<1>4. \A h \in gaps : ~(h < g)
      BY <1>2, <1>3 DEF OpToRel
<1>5. PICK c \in OnEntity(e) : g = top - c.id
      BY <1>3
<1>6. ASSUME NEW d \in OnEntity(e) PROVE d.id <= c.id
  <2>1. ~(top - d.id < top - c.id)
        BY <1>4, <1>5
  <2>2. d.id \in Int /\ c.id \in Int /\ top \in Int
        BY <1>1
  <2> QED BY <2>1, <2>2
<1> QED BY <1>6 DEF Last

(* Storing a comment whose id is not used lets the trees grow. *)
LEMMA TreesGrow ==
    ASSUME RepliesFormTrees, NEW n, \A c \in comments : c.id # n.id, Grows(n),
           comments' = comments \cup {n}
    PROVE  RepliesFormTrees'
<1>1. \A c, d \in comments' : c.id = d.id => c = d
      BY DEF RepliesFormTrees
<1>2. ASSUME NEW c \in comments'
      PROVE  /\ \E p \in comments' : p.id = c.pid /\ p.entity = c.entity /\ p.rid = c.rid
             /\ \E r \in comments' : r.id = c.rid /\ Root(r) /\ r.entity = c.entity
  <2>1. CASE c \in comments
        BY <2>1 DEF RepliesFormTrees
  <2>2. CASE c = n
    <3>1. CASE Root(n) /\ n.rid = n.id
          BY <2>2, <3>1 DEF Root
    <3>2. CASE \E p \in comments : p.id = n.pid /\ p.entity = n.entity /\ p.rid = n.rid
          BY <2>2, <3>2 DEF RepliesFormTrees
    <3> QED BY <3>1, <3>2 DEF Grows
  <2> QED BY <2>1, <2>2
<1>3. ASSUME NEW S \in SUBSET comments', S # {}
      PROVE  \E c \in S : Root(c) \/ \A p \in S : p.id # c.pid
  <2>1. CASE S = {n}
    <3>1. Root(n) \/ n.id # n.pid
          BY DEF Root
    <3> QED BY <2>1, <3>1
  <2>2. CASE S # {n}
    <3>1. S \ {n} \in SUBSET comments /\ S \ {n} # {}
          BY <1>3, <2>2
    <3>2. PICK c \in S \ {n} : Root(c) \/ \A p \in S \ {n} : p.id # c.pid
          BY <3>1 DEF RepliesFormTrees
    <3>3. c \in comments
          BY <3>1, <3>2
    <3>4. n.id # c.pid
          BY <3>3 DEF RepliesFormTrees
    <3> QED BY <3>2, <3>4
  <2> QED BY <2>1, <2>2
<1>4. \A c : Root(c)' <=> Root(c)
      BY DEF Root
<1> QED BY <1>1, <1>2, <1>3, <1>4 DEF RepliesFormTrees

(* A step of w that keeps the comments. *)
LEMMA CommentsQuiet ==
    ASSUME CommentsInv, CommentsTypeOK', RecordsHaveComments', UNCHANGED comments,
           NEW w \in Workers, Others(w), OvertakesNone(w) \/ OvertakesAll(w), Pending(w)'
    PROVE  CommentsInv'
<1>1. ASSUME NEW u \in Workers, u # w PROVE Pending(u)'
  <2>1. /\ place'[u] = place[u] /\ request'[u] = request[u]
        /\ overtaken'[u] = overtaken[u] \/ overtaken'[u] = (place[u] # "idle")
        BY <1>1 DEF Others, OvertakesNone, OvertakesAll
  <2>2. Pending(u)
        BY DEF CommentsInv
  <2>3. \A x \in Workers \ {u, w} : Waits(x)' = Waits(x) /\ request'[x] = request[x]
        BY DEF Others, Waits
  <2>4. Waits(u)' /\ Waits(w)' => request'[w].comment.id # request'[u].comment.id
        BY <1>1 DEF Pending
  <2>5. Waits(u)' = Waits(u)
        BY <2>1 DEF Waits
  <2>6. Waits(u)' => \A x \in Workers \ {u} :
                        Waits(x)' => request'[x].comment.id # request'[u].comment.id
        BY <2>1, <2>2, <2>3, <2>4, <2>5 DEF Pending
  <2>7. ~overtaken'[u] /\ place[u] = "storeComment" => ~overtaken[u]
        BY <2>1
  <2> QED BY <2>1, <2>2, <2>5, <2>6, <2>7 DEF Pending, Grows, Root, OnEntity
<1>2. RepliesFormTrees'
      BY DEF CommentsInv, RepliesFormTrees, Root
<1> QED BY <1>1, <1>2 DEF CommentsInv

LEMMA CommentsAnswers ==
    ASSUME CommentsInv, NEW w \in Workers, Answer(w), UNCHANGED commentVars PROVE CommentsInv'
<1>1. /\ CommentsTypeOK' /\ Others(w) /\ OvertakesNone(w) /\ place'[w] = "idle"
      BY DEF CommentsInv, CommentsTypeOK, RequestsTypeOK, Answer, Goto, Others, OvertakesNone,
             commentVars
<1>2. Pending(w)'
      BY <1>1 DEF Pending, Waits
<1>3. RecordsHaveComments' /\ UNCHANGED comments
      BY DEF CommentsInv, RecordsHaveComments, commentVars
<1> QED BY <1>1, <1>2, <1>3, CommentsQuiet

LEMMA CommentsBegin ==
    ASSUME CommentsInv, UNCHANGED <<comments, history>>, second' \in 0..MaxSecond,
           NEW w \in Workers, NEW r \in CommentRequests,
           NEW p \in {"lastComment", "storeComment", "record"}, Begin(w, r, p),
           p = "record" => r.comment \in comments,
           p # "record" =>
              /\ Root(r.comment) /\ r.comment.rid = r.comment.id /\ Fresh(r.comment.id),
           p = "storeComment" => r.method # "create"
    PROVE  CommentsInv'
<1>1. /\ CommentsTypeOK' /\ Others(w) /\ OvertakesNone(w)
      /\ place'[w] = p /\ request'[w] = r
      BY MaxRequestsAssumption
      DEF CommentsInv, CommentsTypeOK, RequestsTypeOK, Begin, Goto, Others, OvertakesNone
<1>2. Pending(w)'
  <2>1. ASSUME NEW u \in Workers \ {w}, Waits(u)', p # "record"
        PROVE  request'[u].comment.id # r.comment.id
        BY <1>1, <2>1 DEF Others, Waits, Fresh
  <2>2. p # "record" => \A c \in comments' : c.id # r.comment.id
        BY DEF Fresh
  <2>3. p # "record" => Grows(r.comment)'
        BY DEF Grows, Root
  <2> QED BY <1>1, <2>1, <2>2, <2>3 DEF Pending, Waits, Root
<1>3. RecordsHaveComments'
      BY DEF CommentsInv, RecordsHaveComments
<1> QED BY <1>1, <1>2, <1>3, CommentsQuiet

LEMMA IdType ==
    ASSUME NEW time \in 0..MaxSecond, NEW low \in 0..(LowCount - 1) PROVE IdAt(time, low) \in Ids
<1>1. PICK more \in Nat : MaxSecond = time + more
      BY CommentsAssumption
<1>2. LowCount \in Nat /\ time * LowCount \in Nat /\ more * LowCount \in Nat
      BY CommentsAssumption
<1>3. (MaxSecond + 1) * LowCount = time * LowCount + more * LowCount + LowCount
      BY <1>1, <1>2
<1>4. time * LowCount + low \in 0..((MaxSecond + 1) * LowCount - 1)
      BY <1>2, <1>3
<1> QED BY <1>4 DEF IdAt, Ids

LEMMA CommentIsNew ==
    ASSUME CommentsInv, NEW w \in Workers, NEW method \in Actions, NEW e \in Entities,
           NEW p \in {"lastComment", "storeComment"}, NewComment(w, method, e, p),
           p = "storeComment" => method # "create"
    PROVE  CommentsInv'
<1>1. PICK time \in second..MaxSecond, low \in 0..(LowCount - 1) :
         LET id == IdAt(time, low)
         IN  /\ Fresh(id)
             /\ Begin(w, [method |-> method, action |-> "create",
                          comment |-> [id |-> id, pid |-> id, rid |-> id, entity |-> e]], p)
             /\ second' = time
             /\ UNCHANGED <<comments, history>>
      BY DEF NewComment
<1>2. second \in 0..MaxSecond
      BY DEF CommentsInv, CommentsTypeOK
<1>3. time \in 0..MaxSecond
      BY <1>2, CommentsAssumption
<1>4. PICK id \in Ids : id = IdAt(time, low)
      BY <1>3, IdType
<1>5. PICK r : r = [method |-> method, action |-> "create",
                    comment |-> [id |-> id, pid |-> id, rid |-> id, entity |-> e]]
      OBVIOUS
<1>6. /\ r \in CommentRequests /\ r.method = method
      /\ Root(r.comment) /\ r.comment.rid = r.comment.id /\ r.comment.id = id
      BY <1>4, <1>5 DEF CommentRequests, Comment, Actions, Root
<1>7. Begin(w, r, p) /\ Fresh(id) /\ second' = time /\ UNCHANGED <<comments, history>>
      BY <1>1, <1>4, <1>5
<1> QED BY <1>3, <1>6, <1>7, CommentsBegin

LEMMA CommentsChange ==
    ASSUME CommentsInv, NEW w \in Workers, NEW m \in Actions, NEW a \in Actions,
           NEW c \in comments, CommentChange(w, m, a, c)
    PROVE  CommentsInv'
<1>1. PICK r : r = [method |-> m, action |-> a, comment |-> c]
      OBVIOUS
<1>2. r \in CommentRequests /\ r.comment = c
  <2>1. c \in Comment
        BY DEF CommentsInv, CommentsTypeOK
  <2> QED BY <1>1, <2>1 DEF CommentRequests
<1>3. Begin(w, r, "record") /\ UNCHANGED <<comments, history>> /\ second' \in 0..MaxSecond
      BY <1>1 DEF CommentChange, commentVars, CommentsInv, CommentsTypeOK
<1> QED BY <1>2, <1>3, CommentsBegin

LEMMA CommentsFindLast ==
    ASSUME CommentsInv, NEW w \in Workers, FindLast(w) PROVE CommentsInv'
<1>1. PICK c : c = request[w].comment
      OBVIOUS
<1>2. /\ place[w] = "lastComment" /\ Goto(w, "storeComment")
      /\ request' = [request EXCEPT ![w].comment = Reply(@)]
      /\ overtaken' = [overtaken EXCEPT ![w] = FALSE]
      /\ UNCHANGED <<comments, history, second, seen, left>>
      BY DEF FindLast, commentVars
<1>3. /\ request[w] \in CommentRequests /\ c \in Comment
      /\ Root(c) /\ c.rid = c.id /\ \A d \in comments : d.id # c.id
      /\ \A u \in Workers \ {w} : Waits(u) => request[u].comment.id # c.id
  <2>1. Pending(w)
        BY DEF CommentsInv
  <2> QED BY <1>1, <1>2, <2>1 DEF Pending, Waits, CommentRequests
<1>4. /\ Reply(c) \in Comment /\ Reply(c).id = c.id /\ Reply(c).entity = c.entity
      /\ Grows(Reply(c))
      /\ OnEntity(c.entity) # {} => ~Root(Reply(c))
  <2>1. CASE OnEntity(c.entity) = {}
        BY <1>3, <2>1 DEF Reply, Grows
  <2>2. CASE OnEntity(c.entity) # {}
    <3>1. comments \subseteq Comment
          BY DEF CommentsInv, CommentsTypeOK
    <3>2. PICK d : d = Last(c.entity) /\ d \in OnEntity(c.entity)
          BY <2>2, <3>1, LastIsThere
    <3>3. d \in comments /\ d.entity = c.entity /\ d \in Comment
          BY <3>1, <3>2 DEF OnEntity
    <3>4. Reply(c) = [c EXCEPT !.pid = d.id, !.rid = d.rid]
          BY <2>2, <3>2 DEF Reply
    <3> QED BY <1>3, <3>3, <3>4 DEF Grows, Root, Comment
  <2> QED BY <2>1, <2>2
<1>5. request' = [request EXCEPT ![w] = [@ EXCEPT !.comment = Reply(c)]]
      BY <1>1, <1>2
<1>6. [request[w] EXCEPT !.comment = Reply(c)] \in CommentRequests
      BY <1>3, <1>4 DEF CommentRequests
<1>7. /\ CommentsTypeOK' /\ Others(w) /\ OvertakesNone(w)
      /\ place'[w] = "storeComment"
      /\ request'[w] \in CommentRequests /\ request'[w].comment = Reply(c)
  <2>1. request \in [Workers -> {None} \cup CommentRequests]
        BY DEF CommentsInv, CommentsTypeOK, RequestsTypeOK
  <2>2. /\ request' \in [Workers -> {None} \cup CommentRequests]
        /\ request'[w] = [request[w] EXCEPT !.comment = Reply(c)]
        /\ \A u \in Workers \ {w} : request'[u] = request[u]
        BY <1>5, <1>6, <2>1
  <2>3. request'[w].comment = Reply(c)
        BY <1>3, <2>2 DEF CommentRequests
  <2> HIDE DEF CommentRequests
  <2> QED BY <1>2, <1>6, <2>2, <2>3
          DEF CommentsInv, CommentsTypeOK, RequestsTypeOK, Goto, Others, OvertakesNone
<1>8. Pending(w)'
  <2>1. \A u \in Workers \ {w} : Waits(u)' => request'[u].comment.id # request'[w].comment.id
        BY <1>3, <1>4, <1>7 DEF Others, Waits
  <2>2. \A d \in comments' : d.id # request'[w].comment.id
        BY <1>2, <1>3, <1>4, <1>7
  <2>3. Grows(request[w].comment)'
        BY <1>2, <1>4, <1>7 DEF Grows, Root
  <2>4. OnEntity(request[w].comment.entity)' # {} => ~Root(request[w].comment)'
        BY <1>2, <1>4, <1>7 DEF OnEntity, Root
  <2> QED BY <1>7, <2>1, <2>2, <2>3, <2>4 DEF Pending
<1>9. RecordsHaveComments'
      BY <1>2 DEF CommentsInv, RecordsHaveComments
<1> QED BY <1>2, <1>7, <1>8, <1>9, CommentsQuiet

LEMMA CommentsStore ==
    ASSUME CommentsInv, NEW w \in Workers, StoreComment(w) PROVE CommentsInv'
<1>1. PICK n : n = request[w].comment
      OBVIOUS
<1>2. /\ place[w] = "storeComment" /\ StoreAndGo(w, "record")
      /\ comments' = comments \cup {n} /\ UNCHANGED <<history, second>>
      BY <1>1 DEF StoreComment
<1>3. /\ request[w] \in CommentRequests /\ n \in Comment
      /\ Grows(n) /\ \A d \in comments : d.id # n.id
      /\ \A u \in Workers \ {w} : Waits(u) => request[u].comment.id # n.id
  <2>1. Pending(w)
        BY DEF CommentsInv
  <2> QED BY <1>1, <1>2, <2>1 DEF Pending, Waits, CommentRequests
<1>4. /\ CommentsTypeOK' /\ Others(w) /\ OvertakesAll(w)
      /\ place'[w] = "record" /\ request'[w] = request[w]
      BY <1>2, <1>3
      DEF CommentsInv, CommentsTypeOK, RequestsTypeOK, StoreAndGo, Overtake, Goto, Others,
          OvertakesAll
<1>5. ASSUME NEW u \in Workers PROVE Pending(u)'
  <2>1. CASE u = w
        BY <1>1, <1>2, <1>3, <1>4, <2>1 DEF Pending, Waits
  <2>2. CASE u # w
    <3>1. /\ place'[u] = place[u] /\ request'[u] = request[u]
          /\ overtaken'[u] = (place[u] # "idle")
          BY <1>4, <2>2 DEF Others, OvertakesAll
    <3>2. Pending(u)
          BY DEF CommentsInv
    <3>3. \A x \in Workers \ {u} : Waits(x)' => Waits(x) /\ request'[x] = request[x]
          BY <1>4 DEF Others, Waits
    <3>4. Waits(u)' = Waits(u)
          BY <3>1 DEF Waits
    <3>5. Waits(u)' => \A c \in comments' : c.id # request'[u].comment.id
          BY <1>2, <1>3, <2>2, <3>1, <3>2, <3>4 DEF Pending
    <3>6. Waits(u)' => \A x \in Workers \ {u} :
                          Waits(x)' => request'[x].comment.id # request'[u].comment.id
          BY <3>1, <3>2, <3>3, <3>4 DEF Pending
    <3>7. Grows(request[u].comment) => Grows(request[u].comment)'
          BY <1>2, <3>1 DEF Grows, Root
    <3> QED BY <1>2, <3>1, <3>2, <3>5, <3>6, <3>7 DEF Pending, Root
  <2> QED BY <2>1, <2>2
<1>6. RepliesFormTrees'
      BY <1>2, <1>3, TreesGrow DEF CommentsInv
<1>7. RecordsHaveComments'
      BY <1>2 DEF CommentsInv, RecordsHaveComments
<1> QED BY <1>4, <1>5, <1>6, <1>7 DEF CommentsInv

LEMMA CommentsRecord ==
    ASSUME CommentsInv, NEW w \in Workers, StoreChange(w) PROVE CommentsInv'
<1>1. PICK row : row = [id |-> request[w].comment.id, action |-> request[w].method]
      OBVIOUS
<1>2. /\ place[w] = "record" /\ StoreAndAnswer(w)
      /\ history' = Append(history, row) /\ UNCHANGED <<comments, second>>
      BY <1>1 DEF StoreChange
<1>3. /\ row \in [id : Ids, action : Actions]
      /\ \E c \in comments : c.id = row.id
  <2>1. Pending(w)
        BY DEF CommentsInv
  <2> QED BY <1>1, <1>2, <2>1 DEF Pending, CommentRequests, Comment
<1>4. /\ history \in Seq([id : Ids, action : Actions])
      /\ history' \in Seq([id : Ids, action : Actions])
      /\ Len(history') = Len(history) + 1 /\ history'[Len(history) + 1] = row
      /\ \A i \in 1..Len(history) : history'[i] = history[i]
  <2>1. history \in Seq([id : Ids, action : Actions])
        BY DEF CommentsInv, CommentsTypeOK
  <2> QED BY <1>2, <1>3, <2>1, AppendProperties
<1>5. /\ CommentsTypeOK' /\ Others(w) /\ OvertakesAll(w) /\ place'[w] = "idle"
      BY <1>2, <1>4
      DEF CommentsInv, CommentsTypeOK, RequestsTypeOK, StoreAndAnswer, Overtake, Goto, Others,
          OvertakesAll
<1>6. Pending(w)'
      BY <1>5 DEF Pending, Waits
<1>7. RecordsHaveComments'
  <2>1. ASSUME NEW i \in 1..Len(history')
        PROVE  \E c \in comments' : c.id = history'[i].id
    <3>1. Len(history) \in Nat
          BY <1>4, LenProperties
    <3>2. CASE i = Len(history) + 1
          BY <1>2, <1>3, <1>4, <3>2
    <3>3. CASE i # Len(history) + 1
      <4>1. i \in 1..Len(history)
            BY <1>4, <3>1, <3>3
      <4> QED BY <1>2, <1>4, <4>1 DEF CommentsInv, RecordsHaveComments
    <3> QED BY <3>2, <3>3
  <2> QED BY <2>1 DEF RecordsHaveComments
<1> QED BY <1>2, <1>5, <1>6, <1>7, CommentsQuiet

LEMMA CommentsInvStep == CommentsInv /\ CommentsNext => CommentsInv'
<1> SUFFICES ASSUME CommentsInv, CommentsNext PROVE CommentsInv'
    OBVIOUS
<1>1. ASSUME NEW w \in Workers, NEW e \in Entities, CommentPost(w, e) PROVE CommentsInv'
  <2>1. "create" \in Actions
        BY DEF Actions
  <2> QED BY <1>1, <2>1, CommentIsNew DEF CommentPost
<1>2. ASSUME NEW w \in Workers, NEW m \in Actions, NEW e \in Entities,
             CommentChangeCreates(w, m, e)
      PROVE  CommentsInv'
      BY <1>2, CommentIsNew DEF CommentChangeCreates
<1>3. ASSUME NEW w \in Workers, CommentStep(w) PROVE CommentsInv'
      BY <1>3, CommentsFindLast, CommentsStore, CommentsRecord DEF CommentStep
<1>4. ASSUME NEW w \in Workers, Fail(w), UNCHANGED commentVars PROVE CommentsInv'
      BY <1>4, CommentsAnswers DEF Fail
<1> QED BY <1>1, <1>2, <1>3, <1>4, CommentsChange DEF CommentsNext

-----------------------------------------------------------------------------
(* All endpoints: the tables of the others stay as they were.              *)
ManagementInv ==
    /\ endpoint \in {"vuln_status", "default_reasons", "comments", "sa"}
    /\ endpoint = "vuln_status" => StatusInv
    /\ endpoint = "default_reasons" => ReasonsInv
    /\ endpoint = "comments" => CommentsInv
    /\ endpoint = "sa" => SaInv
    /\ endpoint # "comments" => comments = {} /\ history = <<>>
    /\ endpoint # "sa" => errata = <<>>

LEMMA NothingHappens ==
    ASSUME UNCHANGED managementVars
    PROVE  /\ StatusInv => StatusInv'
           /\ ReasonsInv => ReasonsInv'
           /\ CommentsInv => CommentsInv'
           /\ SaInv => SaInv'
<1>1. StatusInv => StatusInv'
      BY DEF managementVars, StatusInv, StatusTypeOK, RequestsTypeOK, StatusHasRequest,
             StatusIsRead, Newest, ReturnsToNew
<1>2. ReasonsInv => ReasonsInv'
      BY DEF managementVars, ReasonsInv, ReasonsTypeOK, RequestsTypeOK, LookedUp
<1>3. CommentsInv => CommentsInv'
  <2>1. CommentsTypeOK => CommentsTypeOK'
        BY DEF managementVars, CommentsTypeOK, RequestsTypeOK
  <2>2. ASSUME NEW w \in Workers, Pending(w) PROVE Pending(w)'
        BY <2>2 DEF managementVars, Pending, Waits, Grows, Root, OnEntity
  <2>3. RepliesFormTrees => RepliesFormTrees'
        BY DEF managementVars, RepliesFormTrees, Root
  <2>4. RecordsHaveComments => RecordsHaveComments'
        BY DEF managementVars, RecordsHaveComments
  <2> QED BY <2>1, <2>2, <2>3, <2>4 DEF CommentsInv
<1>4. SaInv => SaInv'
      BY DEF managementVars, SaInv, SaTypeOK, RequestsTypeOK, SaHasRequest, StillAllowed,
             Refused, ActiveOn, NoContradictionUnlessOvertaken
<1> QED BY <1>1, <1>2, <1>3, <1>4

LEMMA ManagementInvInit == ManagementInit => ManagementInv
BY EndpointsAssumption, StatusInvInit, ReasonsInvInit, CommentsInvInit, SaInvInit
DEF ManagementInit, ManagementInv, CommentsInit, SaInit

LEMMA ManagementInvStep == ManagementInv /\ [ManagementNext]_managementVars => ManagementInv'
<1> SUFFICES ASSUME ManagementInv, [ManagementNext]_managementVars PROVE ManagementInv'
    OBVIOUS
<1>1. CASE UNCHANGED managementVars
  <2>1. UNCHANGED <<endpoint, comments, history, errata>>
        BY <1>1 DEF managementVars
  <2> QED BY <1>1, <2>1, NothingHappens DEF ManagementInv
<1>2. CASE ManagementNext
  <2>1. CASE endpoint = "vuln_status"
        BY <1>2, <2>1, StatusInvStep DEF ManagementNext, ManagementInv, commentVars
  <2>2. CASE endpoint = "default_reasons"
        BY <1>2, <2>2, ReasonsInvStep DEF ManagementNext, ManagementInv, commentVars
  <2>3. CASE endpoint = "comments"
        BY <1>2, <2>3, CommentsInvStep DEF ManagementNext, ManagementInv
  <2>4. CASE endpoint = "sa"
        BY <1>2, <2>4, SaInvStep DEF ManagementNext, ManagementInv, commentVars
  <2> QED BY <2>1, <2>2, <2>3, <2>4 DEF ManagementInv
<1> QED BY <1>1, <1>2

LEMMA ManagementInvariant == ManagementSpec => []ManagementInv
BY ManagementInvInit, ManagementInvStep, PTL DEF ManagementSpec

(* The variables of the endpoints keep their types.                        *)
THEOREM ManagementTypeCorrect == ManagementSpec => []ManagementTypeOK
<1>1. ManagementInv => ManagementTypeOK
      BY DEF ManagementInv, ManagementTypeOK, StatusInv, ReasonsInv, CommentsInv, SaInv
<1> QED BY <1>1, ManagementInvariant, PTL

(* Replies and their parents form trees, whatever creates comments at the  *)
(* same time.                                                              *)
THEOREM CommentsFormTrees == ManagementSpec => []RepliesFormTrees
<1>1. ManagementInv => RepliesFormTrees
      BY DEF ManagementInv, CommentsInv, RepliesFormTrees
<1> QED BY <1>1, ManagementInvariant, PTL

(* A change is recorded only of a comment that is there.                   *)
THEOREM ChangesHaveComments == ManagementSpec => []RecordsHaveComments
<1>1. ASSUME ManagementInv PROVE RecordsHaveComments
  <2>1. CASE endpoint = "comments"
        BY <1>1, <2>1 DEF ManagementInv, CommentsInv
  <2>2. CASE endpoint # "comments"
    <3>1. Len(history) = 0
          BY <1>1, <2>2 DEF ManagementInv
    <3> QED BY <3>1 DEF RecordsHaveComments
  <2> QED BY <2>1, <2>2
<1> QED BY <1>1, ManagementInvariant, PTL

(* Errata as their creates left them contradict each other only if a       *)
(* create was overtaken by another one.                                    *)
THEOREM ErrataAreConsistent == ManagementSpec => []NoContradictionUnlessOvertaken
<1>1. ASSUME ManagementInv PROVE NoContradictionUnlessOvertaken
  <2>1. CASE endpoint = "sa"
        BY <1>1, <2>1 DEF ManagementInv, SaInv
  <2>2. CASE endpoint # "sa"
    <3>1. Len(errata) = 0
          BY <1>1, <2>2 DEF ManagementInv
    <3> QED BY <3>1 DEF NoContradictionUnlessOvertaken
  <2> QED BY <2>1, <2>2
<1> QED BY <1>1, ManagementInvariant, PTL

-----------------------------------------------------------------------------
(* What steps may do. *)

(* A status goes back to new only by a request that was overtaken between  *)
(* its check and its insert.                                               *)
THEOREM StatusStaysKnown == ManagementSpec => BackToNewOnlyIfOvertaken
<1>1. ASSUME ManagementInv, [ManagementNext]_managementVars,
             NEW v \in Vulns, NEW w \in Workers,
             Newest(v) # None, Newest(v).status # "new", Newest(v)'.status = "new",
             place[w] = "storeStatus", place'[w] = "idle"
      PROVE  overtaken[w]
  <2>1. versions' # versions
        BY <1>1 DEF Newest
  <2>2. endpoint = "vuln_status" /\ StatusNext
        BY <1>1, <2>1 DEF ManagementNext, managementVars
  <2> QED BY <1>1, <2>2, StatusBackToNew DEF ManagementInv
<1>2. ManagementInv /\ [ManagementNext]_managementVars
         => [\A v \in Vulns, w \in Workers :
                (/\ Newest(v) # None /\ Newest(v).status # "new"
                 /\ Newest(v)'.status = "new"
                 /\ place[w] = "storeStatus" /\ place'[w] = "idle")
                    => overtaken[w]]_<<versions, requestVars>>
      BY <1>1
<1> QED BY <1>2, ManagementInvariant, PTL DEF ManagementSpec, BackToNewOnlyIfOvertaken

(* A put that was not overtaken leaves the list of reasons as long as it   *)
(* was.                                                                    *)
THEOREM PutsKeepLength == ManagementSpec => PutKeepsLength
<1>1. ASSUME ManagementInv, [ManagementNext]_managementVars, NEW w \in Workers,
             place[w] \in {"storeReason", "storeBoth"}, place'[w] = "idle",
             reasons' # reasons, request[w].method = "put", ~overtaken[w]
      PROVE  Cardinality(ListedReasons') = Cardinality(ListedReasons)
  <2>1. endpoint = "default_reasons" /\ ReasonsNext
        BY <1>1 DEF ManagementNext, managementVars
  <2> QED BY <1>1, <2>1, ReasonsKeepLength DEF ManagementInv
<1>2. ManagementInv /\ [ManagementNext]_managementVars
         => [\A w \in Workers :
                (/\ place[w] \in {"storeReason", "storeBoth"} /\ place'[w] = "idle"
                 /\ reasons' # reasons
                 /\ request[w].method = "put" /\ ~overtaken[w])
                    => Cardinality(ListedReasons') = Cardinality(ListedReasons)
            ]_<<reasons, requestVars>>
      BY <1>1
<1> QED BY <1>2, ManagementInvariant, PTL DEF ManagementSpec, PutKeepsLength

(* Disabling a reason brings one that was replaced back to the list only   *)
(* if it was overtaken.                                                    *)
THEOREM ReplacedReasonsStayAway == ManagementSpec => ReplacedStaysAway
<1>1. ASSUME ManagementInv, [ManagementNext]_managementVars,
             NEW r \in Reasons, NEW w \in Workers,
             reasons[r] = "deleted", Listed(reasons'[r]),
             place[w] = "storeReason", place'[w] = "idle"
      PROVE  request[w].method # "delete" \/ overtaken[w]
  <2>1. reasons' # reasons
        BY <1>1 DEF Listed
  <2>2. endpoint = "default_reasons" /\ ReasonsNext
        BY <1>1, <2>1 DEF ManagementNext, managementVars
  <2> QED BY <1>1, <2>2, ReasonsStayAway DEF ManagementInv
<1>2. ManagementInv /\ [ManagementNext]_managementVars
         => [\A r \in Reasons, w \in Workers :
                (/\ reasons[r] = "deleted" /\ Listed(reasons'[r])
                 /\ place[w] = "storeReason" /\ place'[w] = "idle")
                    => request[w].method # "delete" \/ overtaken[w]
            ]_<<reasons, requestVars>>
      BY <1>1
<1> QED BY <1>2, ManagementInvariant, PTL DEF ManagementSpec, ReplacedStaysAway

(* A comment begins another tree on its entity only if it was overtaken.   *)
THEOREM OneTreeOnEachEntity == ManagementSpec => OneTreeUnlessOvertaken
<1>1. ASSUME ManagementInv, NEW w \in Workers,
             place[w] = "storeComment", request[w].method = "create", ~overtaken[w],
             OnEntity(request[w].comment.entity) # {}
      PROVE  ~Root(request[w].comment)
  <2>1. endpoint = "comments"
        BY <1>1 DEF ManagementInv, StatusInv, ReasonsInv, SaInv, StatusTypeOK, ReasonsTypeOK,
                    SaTypeOK, RequestsTypeOK
  <2>2. Pending(w)
        BY <1>1, <2>1 DEF ManagementInv, CommentsInv
  <2> QED BY <1>1, <2>2 DEF Pending
<1>2. ManagementInv
         => [\A w \in Workers :
                (/\ place[w] = "storeComment" /\ place'[w] = "record"
                 /\ request[w].method = "create" /\ ~overtaken[w]
                 /\ OnEntity(request[w].comment.entity) # {})
                    => ~Root(request[w].comment)]_<<commentVars, requestVars>>
      BY <1>1
<1> QED BY <1>2, ManagementInvariant, PTL DEF OneTreeUnlessOvertaken
=============================================================================
