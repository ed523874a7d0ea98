---------------------------- MODULE QueriesProofs ----------------------------
(***************************************************************************)
(* What the requests of Queries promise holds for any tables and any       *)
(* questions.  The functions from a question to its answer are looked at   *)
(* one by one; the state machines keep their invariants when they run in   *)
(* one program, since none of them writes what another one has.            *)
(***************************************************************************)
EXTENDS Queries, TaskRepoProofs, LevelsProofs

-----------------------------------------------------------------------------
(* Vulnerability fixes: each record is one the errata of the package's own *)
(* branch have made, or one that another erratum has put in its place.     *)
LEMMA FixesAreRecords == ASSUME NEW c \in Case PROVE Fixes(c) \subseteq Record
<1>1. c.erratas \subseteq Errata
      BY DEF Case
<1>2. Kept(c) \subseteq Errata
      BY <1>1 DEF Kept
<1>3. \A v \in Vulns : OwnRecord(c, v) \in Record
  <2>1. \A v : OwnErratas(c, v) \subseteq Errata
        BY <1>2 DEF OwnErratas
  <2>2. \A v : Affected(c, v) \in BOOLEAN /\ OwnFixed(c, v) \in BOOLEAN
        BY DEF Affected, OwnFixed
  <2> QED BY <2>1, <2>2 DEF OwnRecord, Record
<1>4. OwnRecords(c) \subseteq Record
      BY <1>3 DEF OwnRecords
<1>5. StillVulnerable(c) \subseteq Vulns
      BY <1>4 DEF StillVulnerable, Record
<1>6. \A e \in Errata, v \in Vulns : HistoryRecord(c, e, v) \in Record
      BY DEF HistoryRecord, Record, Done
<1>7. HistoryRecords(c) \subseteq Record
      BY <1>2, <1>5, <1>6 DEF HistoryRecords
<1> QED BY <1>4, <1>7 DEF Fixes

(* A record of either kind, with what it was made of. *)
LEMMA OwnOrHistory ==
    ASSUME NEW c \in Case, NEW r \in Fixes(c)
    PROVE  \/ \E v \in Vulns : r = OwnRecord(c, v)
           \/ \E e \in Kept(c), v \in Vulns : v \in e.vulns /\ r = HistoryRecord(c, e, v)
<1>1. CASE r \in OwnRecords(c)
      BY <1>1 DEF OwnRecords
<1>2. CASE r \in HistoryRecords(c)
  <2>1. PICK p \in (Kept(c) \ Known(c)) \X StillVulnerable(c) :
            p[2] \in p[1].vulns /\ r = HistoryRecord(c, p[1], p[2])
        BY <1>2 DEF HistoryRecords
  <2>2. p[1] \in Kept(c) /\ p[2] \in StillVulnerable(c)
        BY <2>1
  <2>3. \A s \in OwnRecords(c) : s.vuln \in Vulns
        BY DEF OwnRecords, OwnRecord
  <2>4. p[2] \in Vulns
        BY <2>2, <2>3 DEF StillVulnerable
  <2> QED BY <2>1, <2>2, <2>4
<1> QED BY <1>1, <1>2 DEF Fixes

LEMMA FixesAreJustified == ASSUME NEW c \in Case PROVE FixedIsJustified(c, Fixes(c))
<1> SUFFICES ASSUME NEW r \in Fixes(c), r.fixed
             PROVE  /\ ~r.vulnerable
                    /\ \E e \in r.fixedIn :
                          /\ r.vuln \in e.vulns
                          /\ Done(c, e)
                          /\ e.branch = Own \/ e.version <= c.version
    BY DEF FixedIsJustified
<1>1. ASSUME NEW v \in Vulns, r = OwnRecord(c, v)
      PROVE  /\ ~r.vulnerable
             /\ \E e \in r.fixedIn :
                   r.vuln \in e.vulns /\ Done(c, e) /\ e.branch = Own
  <2>1. r.vuln = v /\ r.fixedIn = OwnErratas(c, v) /\ OwnFixed(c, v) /\ ~r.vulnerable
        BY <1>1 DEF OwnRecord
  <2>2. \A e \in OwnErratas(c, v) : v \in e.vulns /\ e.branch = Own
        BY DEF OwnErratas
  <2>3. \E e \in OwnErratas(c, v) : Done(c, e)
        BY <2>1, <2>2 DEF OwnFixed, Done
  <2> QED BY <2>1, <2>2, <2>3
<1>2. ASSUME NEW e \in Kept(c), NEW v \in Vulns, v \in e.vulns, r = HistoryRecord(c, e, v)
      PROVE  /\ ~r.vulnerable
             /\ e \in r.fixedIn /\ r.vuln \in e.vulns /\ Done(c, e) /\ e.version <= c.version
  <2>1. e.version \in Nat /\ c.version \in Nat
        BY VersionsAssumption DEF Case, Kept, Errata
  <2>2. /\ r.vuln = v /\ r.fixedIn = {e} /\ (r.vulnerable <=> c.version < e.version)
        /\ c.version >= e.version /\ Done(c, e)
        BY <1>2 DEF HistoryRecord
  <2>3. e.version <= c.version /\ ~(c.version < e.version)
        BY <2>1, <2>2
  <2> QED BY <1>2, <2>2, <2>3
<1> QED BY <1>1, <1>2, OwnOrHistory

LEMMA FixesAnswerAll == ASSUME NEW c \in Case PROVE AffectedIsAnswered(c, Fixes(c))
<1> SUFFICES ASSUME NEW v \in Vulns, Related(c, v) # {}
             PROVE  \E r \in Fixes(c) :
                        /\ r.vuln = v
                        /\ Affected(c, v) /\ ~r.vulnerable =>
                              \E e \in r.fixedIn : e \in Kept(c) /\ v \in e.vulns
    BY DEF AffectedIsAnswered
<1> DEFINE own == OwnRecord(c, v)
<1>1. /\ own \in OwnRecords(c) /\ own.vuln = v /\ own.fixedIn = OwnErratas(c, v)
      /\ own.vulnerable = (Affected(c, v) /\ ~OwnFixed(c, v))
      BY DEF OwnRecords, OwnRecord
<1>2. CASE own \in Fixes(c)
  <2>1. Affected(c, v) /\ ~own.vulnerable => \E e \in OwnErratas(c, v) : TRUE
        BY <1>1 DEF OwnFixed
  <2>2. \A e \in OwnErratas(c, v) : e \in Kept(c) /\ v \in e.vulns
        BY DEF OwnErratas
  <2> QED BY <1>1, <1>2, <2>1, <2>2
<1>3. CASE own \notin Fixes(c)
  <2>1. PICK h \in HistoryRecords(c) : h.vuln = v
        BY <1>1, <1>3 DEF Fixes
  <2>2. PICK p \in (Kept(c) \ Known(c)) \X StillVulnerable(c) :
            p[2] \in p[1].vulns /\ h = HistoryRecord(c, p[1], p[2])
        BY <2>1 DEF HistoryRecords
  <2>3. p[2] = v /\ h.fixedIn = {p[1]} /\ p[1] \in Kept(c)
        BY <2>1, <2>2 DEF HistoryRecord
  <2>4. h \in Fixes(c)
        BY <2>1 DEF Fixes
  <2> QED BY <2>1, <2>2, <2>3, <2>4
<1> QED BY <1>2, <1>3

-----------------------------------------------------------------------------
(* Pages. *)
LEMMA Quotient ==
    ASSUME NEW a \in Nat, NEW m \in Nat \ {0}
    PROVE  /\ a \div m \in Nat
           /\ m * (a \div m) <= a
           /\ a < m * (a \div m) + m
OBVIOUS

LEMMA Product ==
    ASSUME NEW a \in Nat, NEW b \in Nat, NEW m \in Nat, a <= b
    PROVE  a * m \in Nat /\ b * m \in Nat /\ a * m <= b * m
<1>1. PICK d \in Nat : b = a + d
      <2> WITNESS b - a \in Nat
      <2> QED OBVIOUS
<1>2. b * m = a * m + d * m
      BY <1>1
<1> QED BY <1>2

(* The last page begins within the list, and ends it. *)
LEMMA PagesInAll ==
    ASSUME NEW S, NEW list \in Seq(S), Len(list) > 0, NEW limit \in Int
    PROVE  LET m == Limit(list, limit)
               N == NumPages(list, limit)
           IN  /\ m \in Nat \ {0} /\ N \in Nat /\ 1 <= N /\ N <= Len(list)
               /\ (N - 1) * m < Len(list) /\ Len(list) <= N * m
<1> DEFINE L == Len(list)
           m == Limit(list, limit)
           N == NumPages(list, limit)
<1>1. L \in Nat \ {0} /\ m \in Nat \ {0}
      BY DEF Limit
<1>2. N = (L + m - 1) \div m
      BY <1>1 DEF NumPages
<1> HIDE DEF L, m, N
<1>3. PICK a \in Nat : a = L + m - 1
      BY <1>1
<1>4. N \in Nat /\ m * N <= a /\ a < m * N + m
      BY <1>1, <1>2, <1>3, Quotient
<1>5. m * N = N * m /\ (N - 1) * m = N * m - m
      BY <1>1, <1>4
<1>6. 1 <= N
  <2>1. N # 0
        BY <1>1, <1>3, <1>4
  <2> QED BY <1>4, <2>1
<1>7. (N - 1) * m < L /\ L <= N * m
      BY <1>1, <1>3, <1>4, <1>5
<1>8. N <= L
  <2>1. (N - 1) * 1 <= (N - 1) * m
        BY <1>1, <1>4, <1>6
  <2> QED BY <1>1, <1>4, <1>7, <2>1
<1> QED BY <1>1, <1>4, <1>6, <1>7, <1>8 DEF L, m, N

LEMMA PartOfList ==
    ASSUME NEW S, NEW list \in Seq(S), NEW b \in Nat, NEW e \in Nat, b <= e, e <= Len(list)
    PROVE  /\ SubSeq(list, b + 1, e) \in Seq(S)
           /\ Len(SubSeq(list, b + 1, e)) = e - b
           /\ \A k \in 1..Len(SubSeq(list, b + 1, e)) : SubSeq(list, b + 1, e)[k] = list[b + k]
<1> DEFINE part == SubSeq(list, b + 1, e)
<1>1. part \in Seq(S)
      OBVIOUS
<1>2. Len(part) = e - b
      OBVIOUS
<1>3. \A k \in 1..(e - b) : part[k] = list[b + k]
      OBVIOUS
<1> QED BY <1>1, <1>2, <1>3

LEMMA NextMultiple ==
    ASSUME NEW n \in Nat \ {0}, NEW m \in Nat
    PROVE  (n - 1) * m \in Nat /\ n * m = (n - 1) * m + m
<1>1. PICK a \in Nat : n = a + 1
      <2> WITNESS n - 1 \in Nat
      <2> QED OBVIOUS
<1>2. a * m \in Nat /\ (a + 1) * m = a * m + m
      OBVIOUS
<1> QED BY <1>1, <1>2

(* A page is the part of the list its number says. *)
LEMMA PageIsPart ==
    ASSUME NEW S, NEW list \in Seq(S), Len(list) > 0, NEW limit \in Int,
           NEW m, m = Limit(list, limit), NEW n \in 1..NumPages(list, limit)
    PROVE  LET page == GetPage(list, limit, n)
               begin == (n - 1) * m
           IN  /\ page \in Seq(S)
               /\ Len(page) = IF n = NumPages(list, limit) THEN Len(list) - begin ELSE m
               /\ \A k \in 1..Len(page) : page[k] = list[begin + k]
<1> DEFINE L == Len(list)
           N == NumPages(list, limit)
<1>1. /\ m \in Nat \ {0} /\ N \in Nat /\ 1 <= N /\ N <= L /\ L \in Nat
      /\ (N - 1) * m < L /\ L <= N * m
      BY PagesInAll
<1>2. n \in Nat /\ 1 <= n /\ n <= N
      BY <1>1
<1>3. (n - 1) * m \in Nat /\ n * m = (n - 1) * m + m
  <2>1. n \in Nat \ {0}
        BY <1>2
  <2> QED BY <1>1, <2>1, NextMultiple
<1>4. PICK begin \in Nat : begin = (n - 1) * m
      BY <1>3
<1> HIDE DEF L, N
<1>0. m \in Nat /\ N \in Nat /\ L \in Nat
      BY <1>1
<1>5. n # N => begin + m < L
  <2>1. n # N => n * m <= (N - 1) * m /\ n * m \in Nat /\ (N - 1) * m \in Nat
    <3>1. N - 1 \in Nat /\ (n # N => n <= N - 1)
          BY <1>1, <1>2
    <3> QED BY <1>1, <1>2, <3>1, Product
  <2>2. n * m = begin + m
        BY <1>3, <1>4
  <2>3. PICK below \in Nat : below = (N - 1) * m
        BY <1>1
  <2>4. below < L /\ (n # N => begin + m <= below)
        BY <1>1, <2>1, <2>2, <2>3
  <2> QED BY <1>0, <2>4
<1>6. n = N => begin < L /\ L <= begin + m
  <2>1. n = N => begin < L
        BY <1>1, <1>4
  <2>2. n = N => L <= begin + m
        BY <1>1, <1>3, <1>4
  <2> QED BY <2>1, <2>2
<1>7. PICK end \in Nat : end = IF n = N THEN L ELSE begin + m
  <2>1. (IF n = N THEN L ELSE begin + m) \in Nat
        BY <1>0
  <2> QED BY <2>1
<1>8. /\ begin <= end /\ end <= L
      /\ begin + m >= L => end = L
      /\ ~(begin + m >= L) => end = begin + m
  <2>1. begin <= end
        BY <1>0, <1>6, <1>7
  <2>2. end <= L
        BY <1>0, <1>5, <1>7
  <2>3. begin + m >= L => end = L
        BY <1>0, <1>5, <1>7
  <2>4. ~(begin + m >= L) => end = begin + m
        BY <1>0, <1>6, <1>7
  <2> QED BY <2>1, <2>2, <2>3, <2>4, Zenon
<1>9. GetPage(list, limit, n) = SubSeq(list, begin + 1, end)
  <2>1. ValidNumber(list, limit, n) = n
        BY <1>1, <1>2 DEF ValidNumber, N
  <2>2. PICK bottom \in Nat : bottom = begin
        OBVIOUS
  <2>3. (ValidNumber(list, limit, n) - 1) * Limit(list, limit) = bottom
        BY <1>4, <2>1, <2>2
  <2>4. GetPage(list, limit, n) =
            IF bottom < 0 THEN <<>>
            ELSE SubSeq(list, bottom + 1, IF bottom + m >= Len(list) THEN Len(list) ELSE bottom + m)
        BY <2>3, Zenon DEF GetPage
  <2> QED BY <1>8, <2>2, <2>4 DEF L
<1> DEFINE page == SubSeq(list, begin + 1, end)
<1>10. /\ page \in Seq(S) /\ Len(page) = end - begin
       /\ \A k \in 1..Len(page) : page[k] = list[begin + k]
  <2>1. begin <= end /\ end <= Len(list)
        BY <1>8 DEF L
  <2> QED BY <2>1, PartOfList
<1>11. end - begin = IF n = N THEN L - begin ELSE m
  <2>1. n # N => end - begin = m
        BY <1>0, <1>7
  <2> QED BY <1>7, <2>1
<1> QED BY <1>4, <1>9, <1>10, <1>11 DEF L, N

LEMMA PagesShowTheList ==
    ASSUME NEW S, NEW list \in Seq(S), NEW limit \in Int
    PROVE  /\ PagesAreTheList(list, Pages(list, limit))
           /\ Pages(list, limit) \in Seq(Seq(S))
<1> DEFINE L == Len(list)
           m == Limit(list, limit)
           N == NumPages(list, limit)
           pages == Pages(list, limit)
           Page(n) == GetPage(list, limit, n)
<1>1. pages = [n \in 1..(L + 1) |-> Page(n)] /\ L \in Nat
      BY DEF Pages
<1>2. CASE L = 0
  <2>1. m \in Nat /\ m >= 0
        BY <1>2 DEF Limit
  <2>2. ValidNumber(list, limit, 1) = 1
        BY DEF ValidNumber
  <2>3. Page(1) = SubSeq(list, 1, 0)
        BY <1>2, <2>1, <2>2 DEF GetPage
  <2>4. Page(1) = <<>>
        BY <1>2, <2>3
  <2>5. pages = [n \in 1..1 |-> <<>>]
    <3>1. \A n \in 1..1 : Page(n) = <<>>
          BY <2>4
    <3> HIDE DEF Page
    <3> QED BY <1>1, <1>2, <3>1
  <2>6. pages \in Seq(Seq(S))
    <3>1. [n \in 1..1 |-> <<>>] \in Seq(Seq(S))
          OBVIOUS
    <3> QED BY <2>5, <3>1
  <2>7. PagesAreTheList(list, pages)
    <3>1. DOMAIN pages = 1..1 /\ pages[1] = <<>> /\ Len(pages[1]) = 0
          BY <2>5
    <3> HIDE DEF pages, Page, m, N
    <3>2. \A n \in 1..1 : n = 1
          OBVIOUS
    <3>3. 1 \in DOMAIN pages
          BY <3>1
    <3> QED BY <1>2, <3>1, <3>2, <3>3 DEF PagesAreTheList
  <2> QED BY <2>6, <2>7
<1>3. CASE L > 0
  <2>1. /\ m \in Nat \ {0} /\ N \in Nat /\ 1 <= N /\ N <= L
        BY <1>3, PagesInAll
  <2>2. \A n \in 1..N :
           /\ Page(n) \in Seq(S)
           /\ Len(Page(n)) = IF n = N THEN L - (n - 1) * m ELSE m
           /\ \A k \in 1..Len(Page(n)) : Page(n)[k] = list[(n - 1) * m + k]
        BY <1>3, PageIsPart
  <2>3. ASSUME NEW n \in Nat, n > N
        PROVE  Page(n) = Page(N)
    <3>1. ValidNumber(list, limit, n) = N /\ ValidNumber(list, limit, N) = N
          BY <2>1, <2>3 DEF ValidNumber
    <3> QED BY <3>1 DEF GetPage
  <2>4. \A n \in 1..(L + 1) : Page(n) \in Seq(S)
    <3>1. ASSUME NEW n \in 1..(L + 1)
          PROVE  n \in 1..N \/ (n \in Nat /\ n > N)
          BY <1>1, <2>1
    <3>2. N \in 1..N
          BY <2>1
    <3> HIDE DEF Page
    <3> QED BY <2>2, <2>3, <3>1, <3>2
  <2> HIDE DEF Page, m, N, pages, L
  <2>5. pages \in Seq(Seq(S))
        BY <1>1, <2>4
  <2>6. /\ \A n \in 1..N : n \in DOMAIN pages /\ pages[n] = Page(n)
        /\ \A n \in DOMAIN pages : n \in Nat /\ (n > N => pages[n] = pages[N])
    <3>1. \A n \in 1..N : n \in 1..(L + 1)
          BY <1>1, <2>1
    <3>2. N \in 1..(L + 1)
          BY <1>1, <2>1
    <3> QED BY <1>1, <2>3, <3>1, <3>2
  <2>7. /\ N \in DOMAIN pages
        /\ Len(pages[N]) = L - (N - 1) * m
        /\ \A n \in 1..(N - 1) : Len(pages[n]) = m
        /\ \A n \in 1..N : \A k \in 1..Len(pages[n]) : pages[n][k] = list[(n - 1) * m + k]
    <3>1. N \in 1..N /\ \A n \in 1..(N - 1) : n \in 1..N /\ n # N
          BY <2>1
    <3> QED BY <2>2, <2>6, <3>1
  <2>8. \A n \in 1..N : (n - 1) * Len(pages[1]) = (n - 1) * m
    <3>1. N > 1 => Len(pages[1]) = m
          BY <2>1, <2>7
    <3>2. N = 1 => Len(pages[1]) = L
      <4>1. (1 - 1) * m = 0
            BY <2>1
      <4> QED BY <1>1, <2>7, <4>1
    <3>3. 0 * m = 0 /\ 0 * L = 0
          BY <1>1, <2>1
    <3>4. ASSUME NEW n \in 1..N
          PROVE  (n - 1) * Len(pages[1]) = (n - 1) * m
      <4>1. CASE N = 1
        <5>1. n - 1 = 0
              BY <4>1
        <5>2. Len(pages[1]) = L
              BY <3>2, <4>1
        <5> QED BY <3>3, <5>1, <5>2
      <4>2. CASE N > 1
            BY <3>1, <4>2
      <4>3. N = 1 \/ N > 1
            BY <2>1
      <4> QED BY <4>1, <4>2, <4>3
    <3> QED BY <3>4
  <2>9. (N - 1) * Len(pages[1]) + Len(pages[N]) = L
    <3>1. N \in 1..N
          BY <2>1
    <3>2. PICK d : d = (N - 1) * m
          OBVIOUS
    <3>3. d \in Int
          BY <2>1, <3>2
    <3>4. (N - 1) * Len(pages[1]) = d
          BY <2>8, <3>1, <3>2
    <3>5. Len(pages[N]) = L - d
          BY <2>7, <3>2
    <3>6. d + (L - d) = L
          BY <1>1, <3>3
    <3> QED BY <3>4, <3>5, <3>6
  <2>10. \A n \in 1..(N - 1) : Len(pages[n]) = Len(pages[1])
    <3>1. \A n \in 1..(N - 1) : 1 \in 1..(N - 1)
          BY <2>1
    <3> QED BY <2>7, <3>1
  <2>11. PagesAreTheList(list, pages)
    <3>1. \A n \in 1..N : \A k \in 1..Len(pages[n]) :
              pages[n][k] = list[(n - 1) * Len(pages[1]) + k]
          BY <2>7, <2>8
    <3> QED BY <2>6, <2>7, <2>9, <2>10, <3>1 DEF PagesAreTheList, L
  <2> QED BY <2>5, <2>11 DEF pages
<1> QED BY <1>1, <1>2, <1>3

-----------------------------------------------------------------------------
(* The order of the build.  The vertices whose calls go on form a path in  *)
(* the graph: each is required by the one that was called before it.  Thus *)
(* when a call ends, what requires its vertex is on the stack already, or  *)
(* its call is still going on, and then the vertex comes to need it.       *)
LEMMA PrependOne ==
    ASSUME NEW S, NEW s \in Seq(S), NEW v \in S, NEW t, t = <<v>> \o s
    PROVE  /\ t \in Seq(S) /\ Len(t) = Len(s) + 1 /\ t[1] = v
           /\ \A i \in 1..Len(s) : t[i + 1] = s[i]
           /\ \A i \in 1..Len(t) : i = 1 \/ (i - 1 \in 1..Len(s) /\ t[i] = s[i - 1])
<1>1. t \in Seq(S) /\ Len(t) = Len(s) + 1 /\ t[1] = v
      OBVIOUS
<1>2. \A i \in 2..(Len(s) + 1) : t[i] = s[i - 1]
      OBVIOUS
<1> QED BY <1>1, <1>2

LEMMA HeadAndTail ==
    ASSUME NEW S, NEW s \in Seq(S), s # <<>>, NEW t, t = Tail(s)
    PROVE  /\ Head(s) \in S /\ Head(s) = s[1] /\ 1 \in 1..Len(s)
           /\ t \in Seq(S) /\ Len(t) = Len(s) - 1
           /\ \A i \in 1..Len(t) : t[i] = s[i + 1] /\ i + 1 \in 1..Len(s)
           /\ \A i \in 1..Len(s) : i = 1 \/ (i - 1 \in 1..Len(t) /\ s[i] = t[i - 1])
<1>1. Len(s) \in Nat /\ Len(s) > 0
      OBVIOUS
<1>2. Head(s) \in S /\ Head(s) = s[1] /\ t \in Seq(S) /\ Len(t) = Len(s) - 1
      BY <1>1
<1>3. \A i \in 1..(Len(s) - 1) : t[i] = s[i + 1]
      BY <1>1
<1> QED BY <1>1, <1>2, <1>3

LEMMA NeedsRequired ==
    ASSUME NEW reqs \in [Packages -> SUBSET Packages], NEW p \in Packages, NEW q \in reqs[p]
    PROVE  q \in Needs(reqs, p)
BY DEF Needs

LEMMA NeedsOfRequired ==
    ASSUME NEW reqs \in [Packages -> SUBSET Packages],
           NEW p \in Packages, NEW r \in reqs[p], NEW q \in Needs(reqs, r)
    PROVE  q \in Needs(reqs, p)
<1>1. q \in Packages
      BY DEF Needs
<1>2. ASSUME NEW S \in SUBSET Packages, reqs[p] \subseteq S, \A x \in S : reqs[x] \subseteq S
      PROVE  q \in S
  <2>1. reqs[r] \subseteq S
        BY <1>2
  <2> QED BY <1>2, <2>1 DEF Needs
<1> QED BY <1>1, <1>2 DEF Needs

LEMMA RequiredOfNeeds ==
    ASSUME NEW reqs \in [Packages -> SUBSET Packages],
           NEW p \in Packages, NEW q \in Needs(reqs, p), NEW r \in reqs[q]
    PROVE  r \in Needs(reqs, p)
<1>1. q \in Packages /\ r \in Packages
      BY DEF Needs
<1>2. ASSUME NEW S \in SUBSET Packages, reqs[p] \subseteq S, \A x \in S : reqs[x] \subseteq S
      PROVE  r \in S
  <2>1. q \in S
        BY <1>2 DEF Needs
  <2> QED BY <1>2, <2>1
<1> QED BY <1>1, <1>2 DEF Needs

OnceEach ==
    /\ \A i, k \in DOMAIN calls : calls[i] = calls[k] => i = k
    /\ \A i, k \in DOMAIN stack : stack[i] = stack[k] => i = k
    /\ \A i \in DOMAIN calls : \A k \in DOMAIN stack : calls[i] # stack[k]

VisitedAreBoth ==
    /\ \A i \in DOMAIN calls : calls[i] \in visited
    /\ \A i \in DOMAIN stack : stack[i] \in visited
    /\ \A v \in visited : \/ \E i \in DOMAIN calls : calls[i] = v
                          \/ \E i \in DOMAIN stack : stack[i] = v

CallsArePath ==
    \A i, k \in DOMAIN calls : i < k => calls[k] \in Needs(packageReqs, calls[i])

StackIsOrdered ==
    \A i \in DOMAIN stack : \A p \in RequiredBy(stack[i]) :
        \/ p \in Needs(packageReqs, stack[i])
        \/ \E k \in DOMAIN stack : k > i /\ stack[k] = p

SortInv == SortTypeOK /\ OnceEach /\ VisitedAreBoth /\ CallsArePath /\ StackIsOrdered

LEMMA SortInvInit == packageReqs \in Requirements /\ SortIdle => SortInv
<1> SUFFICES ASSUME packageReqs \in Requirements, SortIdle
             PROVE  SortInv
    OBVIOUS
<1>1. calls = <<>> /\ stack = <<>> /\ visited = {}
      BY DEF SortIdle
<1>2. DOMAIN calls = {} /\ DOMAIN stack = {}
      BY <1>1
<1>3. SortTypeOK
      BY <1>1 DEF SortTypeOK
<1> QED BY <1>1, <1>2, <1>3 DEF SortInv, OnceEach, VisitedAreBoth, CallsArePath, StackIsOrdered

LEMMA RequiredByKept ==
    ASSUME UNCHANGED packageReqs, NEW d
    PROVE  RequiredBy(d)' = RequiredBy(d)
BY DEF RequiredBy, WithoutCircles, Circular

LEMMA RequiredByRequires ==
    ASSUME packageReqs \in Requirements, NEW d, NEW p \in RequiredBy(d)
    PROVE  p \in Packages /\ d \in packageReqs[p] /\ d \in Packages /\ p # d
BY DEF RequiredBy, WithoutCircles, Requirements

(* A vertex is called that is required by the one called last, if any is. *)
LEMMA VisitKeepsInv ==
    ASSUME SortInv, NEW v \in Packages \ visited, Visit(v),
           calls # <<>> => v \in RequiredBy(Head(calls))
    PROVE  SortInv'
<1>1. /\ packageReqs \in Requirements /\ calls \in Seq(Packages) /\ stack \in Seq(Packages)
      /\ visited \subseteq Packages
      BY DEF SortInv, SortTypeOK
<1>2. /\ visited' = visited \cup {v} /\ calls' = <<v>> \o calls
      /\ packageReqs' = packageReqs /\ stack' = stack
      BY DEF Visit
<1>3. /\ calls' \in Seq(Packages) /\ Len(calls') = Len(calls) + 1 /\ calls'[1] = v
      /\ \A i \in 1..Len(calls) : calls'[i + 1] = calls[i]
      /\ \A i \in 1..Len(calls') : i = 1 \/ (i - 1 \in 1..Len(calls) /\ calls'[i] = calls[i - 1])
      BY <1>1, <1>2, PrependOne
<1>4. DOMAIN calls = 1..Len(calls) /\ DOMAIN calls' = 1..Len(calls') /\ Len(calls) \in Nat
      BY <1>1, <1>3
<1>5. SortTypeOK'
      BY <1>1, <1>2, <1>3 DEF SortTypeOK
<1>6. OnceEach'
  <2>1. \A i \in 1..Len(calls) : calls[i] # v
        BY <1>4 DEF SortInv, VisitedAreBoth
  <2>2. \A i \in DOMAIN stack : stack[i] # v
        BY DEF SortInv, VisitedAreBoth
  <2>3. \A i, k \in DOMAIN calls' : calls'[i] = calls'[k] => i = k
    <3> SUFFICES ASSUME NEW i \in DOMAIN calls', NEW k \in DOMAIN calls', calls'[i] = calls'[k]
                 PROVE  i = k
        OBVIOUS
    <3>1. i \in Nat /\ k \in Nat
          BY <1>4
    <3>2. CASE i = 1
          BY <1>3, <1>4, <2>1, <3>2
    <3>3. CASE k = 1
          BY <1>3, <1>4, <2>1, <3>3
    <3>4. CASE i # 1 /\ k # 1
      <4>1. /\ i - 1 \in DOMAIN calls /\ k - 1 \in DOMAIN calls /\ calls[i - 1] = calls[k - 1]
            BY <1>3, <1>4, <3>4
      <4>2. i - 1 = k - 1
            BY <4>1 DEF SortInv, OnceEach
      <4> QED BY <3>1, <4>2
    <3> QED BY <3>2, <3>3, <3>4
  <2>4. \A i \in DOMAIN calls' : \A k \in DOMAIN stack : calls'[i] # stack[k]
        BY <1>3, <1>4, <2>2 DEF SortInv, OnceEach
  <2> QED BY <1>2, <2>3, <2>4 DEF SortInv, OnceEach
<1>7. VisitedAreBoth'
  <2>1. \A i \in DOMAIN calls' : calls'[i] \in visited'
        BY <1>2, <1>3, <1>4 DEF SortInv, VisitedAreBoth
  <2>2. \A i \in DOMAIN stack' : stack'[i] \in visited'
        BY <1>2 DEF SortInv, VisitedAreBoth
  <2>3. \A i \in 1..Len(calls) : i + 1 \in 1..Len(calls')
        BY <1>3, <1>4
  <2>4. 1 \in DOMAIN calls'
        BY <1>3, <1>4
  <2>5. \A u \in visited : \/ \E i \in DOMAIN calls' : calls'[i] = u
                           \/ \E i \in DOMAIN stack : stack[i] = u
        BY <1>3, <1>4, <2>3 DEF SortInv, VisitedAreBoth
  <2> QED BY <1>2, <1>3, <2>1, <2>2, <2>4, <2>5 DEF VisitedAreBoth
<1>8. CallsArePath'
  <2>1. ASSUME NEW k \in 1..Len(calls)
        PROVE  calls[k] \in Needs(packageReqs, v)
    <3>1. calls # <<>> /\ Head(calls) = calls[1] /\ 1 \in DOMAIN calls /\ calls[1] \in Packages
      <4>1. calls # <<>>
            BY <1>1, <2>1
      <4> QED BY <1>1, <1>4, <4>1, HeadAndTail
    <3>2. calls[1] \in packageReqs[v] /\ packageReqs \in [Packages -> SUBSET Packages]
          BY <1>1, <3>1, RequiredByRequires DEF Requirements
    <3>3. CASE k = 1
          BY <3>2, <3>3, NeedsRequired
    <3>4. CASE k # 1
      <4>1. calls[k] \in Needs(packageReqs, calls[1])
        <5>1. 1 < k /\ k \in DOMAIN calls
              BY <1>4, <3>4
        <5> QED BY <3>1, <5>1 DEF SortInv, CallsArePath
      <4> QED BY <3>2, <4>1, NeedsOfRequired
    <3> QED BY <3>3, <3>4
  <2>2. ASSUME NEW i \in DOMAIN calls', NEW k \in DOMAIN calls', i < k
        PROVE  calls'[k] \in Needs(packageReqs, calls'[i])
    <3>1. i \in Nat /\ k \in Nat /\ k # 1 /\ k - 1 \in 1..Len(calls) /\ calls'[k] = calls[k - 1]
          BY <1>3, <1>4, <2>2
    <3>2. CASE i = 1
          BY <1>3, <2>1, <3>1, <3>2
    <3>3. CASE i # 1
      <4>1. i - 1 \in DOMAIN calls /\ calls'[i] = calls[i - 1] /\ i - 1 < k - 1 /\ k - 1 \in DOMAIN calls
            BY <1>3, <1>4, <2>2, <3>1, <3>3
      <4> QED BY <3>1, <4>1 DEF SortInv, CallsArePath
    <3> QED BY <3>2, <3>3
  <2> QED BY <1>2, <2>2 DEF CallsArePath
<1>9. StackIsOrdered'
      BY <1>2, RequiredByKept DEF SortInv, StackIsOrdered
<1> QED BY <1>5, <1>6, <1>7, <1>8, <1>9 DEF SortInv

(* What requires the vertex was visited, and its call either has ended, or *)
(* goes on: then the path leads from the vertex to it.                     *)
LEMMA EndVisitKeepsInv == ASSUME SortInv, EndVisit PROVE SortInv'
<1>1. /\ packageReqs \in Requirements /\ calls \in Seq(Packages) /\ stack \in Seq(Packages)
      /\ visited \subseteq Packages
      BY DEF SortInv, SortTypeOK
<1>2. /\ calls # <<>> /\ RequiredBy(Head(calls)) \subseteq visited
      /\ stack' = <<Head(calls)>> \o stack /\ calls' = Tail(calls)
      /\ visited' = visited /\ packageReqs' = packageReqs
      BY DEF EndVisit
<1>3. PICK v \in Packages : v = Head(calls)
      BY <1>1, <1>2, HeadAndTail
<1>4. /\ v = calls[1] /\ 1 \in 1..Len(calls)
      /\ calls' \in Seq(Packages) /\ Len(calls') = Len(calls) - 1
      /\ \A i \in 1..Len(calls') : calls'[i] = calls[i + 1] /\ i + 1 \in 1..Len(calls)
      /\ \A i \in 1..Len(calls) : i = 1 \/ (i - 1 \in 1..Len(calls') /\ calls[i] = calls'[i - 1])
      BY <1>1, <1>2, <1>3, HeadAndTail
<1>5. /\ stack' \in Seq(Packages) /\ Len(stack') = Len(stack) + 1 /\ stack'[1] = v
      /\ \A i \in 1..Len(stack) : stack'[i + 1] = stack[i]
      /\ \A i \in 1..Len(stack') : i = 1 \/ (i - 1 \in 1..Len(stack) /\ stack'[i] = stack[i - 1])
      BY <1>1, <1>2, <1>3, PrependOne
<1>6. /\ DOMAIN calls = 1..Len(calls) /\ DOMAIN calls' = 1..Len(calls') /\ Len(calls) \in Nat
      /\ DOMAIN stack = 1..Len(stack) /\ DOMAIN stack' = 1..Len(stack') /\ Len(stack) \in Nat
      BY <1>1, <1>4, <1>5
<1>7. SortTypeOK'
      BY <1>1, <1>2, <1>4, <1>5 DEF SortTypeOK
<1>8. OnceEach'
  <2>1. \A i \in 1..Len(stack) : stack[i] # v
        BY <1>4, <1>6 DEF SortInv, OnceEach
  <2>2. \A i, k \in DOMAIN stack' : stack'[i] = stack'[k] => i = k
    <3> SUFFICES ASSUME NEW i \in DOMAIN stack', NEW k \in DOMAIN stack', stack'[i] = stack'[k]
                 PROVE  i = k
        OBVIOUS
    <3>1. i \in Nat /\ k \in Nat
          BY <1>6
    <3>2. CASE i = 1
          BY <1>5, <1>6, <2>1, <3>2
    <3>3. CASE k = 1
          BY <1>5, <1>6, <2>1, <3>3
    <3>4. CASE i # 1 /\ k # 1
      <4>1. /\ i - 1 \in DOMAIN stack /\ k - 1 \in DOMAIN stack /\ stack[i - 1] = stack[k - 1]
            BY <1>5, <1>6, <3>4
      <4>2. i - 1 = k - 1
            BY <4>1 DEF SortInv, OnceEach
      <4> QED BY <3>1, <4>2
    <3> QED BY <3>2, <3>3, <3>4
  <2>3. \A i, k \in DOMAIN calls' : calls'[i] = calls'[k] => i = k
    <3> SUFFICES ASSUME NEW i \in DOMAIN calls', NEW k \in DOMAIN calls', calls'[i] = calls'[k]
                 PROVE  i = k
        OBVIOUS
    <3>1. i + 1 \in DOMAIN calls /\ k + 1 \in DOMAIN calls /\ calls[i + 1] = calls[k + 1]
          BY <1>4, <1>6
    <3>2. i + 1 = k + 1
          BY <3>1 DEF SortInv, OnceEach
    <3> QED BY <1>6, <3>2
  <2>4. \A i \in DOMAIN calls' : calls'[i] # v
    <3>1. \A i \in DOMAIN calls' : i + 1 \in DOMAIN calls /\ i + 1 # 1 /\ 1 \in DOMAIN calls
          BY <1>4, <1>6
    <3> QED BY <1>4, <1>6, <3>1 DEF SortInv, OnceEach
  <2>5. ASSUME NEW i \in DOMAIN calls', NEW k \in DOMAIN stack'
        PROVE  calls'[i] # stack'[k]
    <3>1. CASE k = 1
          BY <1>5, <2>4, <3>1
    <3>2. CASE k # 1
      <4>1. k - 1 \in DOMAIN stack /\ stack'[k] = stack[k - 1]
            BY <1>5, <1>6, <3>2
      <4>2. i + 1 \in DOMAIN calls /\ calls'[i] = calls[i + 1]
            BY <1>4, <1>6
      <4> QED BY <4>1, <4>2 DEF SortInv, OnceEach
    <3> QED BY <3>1, <3>2
  <2> QED BY <2>2, <2>3, <2>5 DEF OnceEach
<1>9. VisitedAreBoth'
  <2>1. \A i \in DOMAIN calls' : calls'[i] \in visited
        BY <1>4, <1>6 DEF SortInv, VisitedAreBoth
  <2>2. v \in visited
        BY <1>4, <1>6 DEF SortInv, VisitedAreBoth
  <2>3. \A i \in DOMAIN stack' : stack'[i] \in visited
        BY <1>5, <1>6, <2>2 DEF SortInv, VisitedAreBoth
  <2>4. 1 \in DOMAIN stack' /\ \A i \in DOMAIN stack : i + 1 \in DOMAIN stack'
        BY <1>5, <1>6
  <2>5. ASSUME NEW u \in visited
        PROVE  \/ \E i \in DOMAIN calls' : calls'[i] = u
               \/ \E i \in DOMAIN stack' : stack'[i] = u
    <3>1. CASE \E i \in DOMAIN stack : stack[i] = u
          BY <1>5, <1>6, <2>4, <3>1
    <3>2. CASE \E i \in DOMAIN calls : calls[i] = u
      <4>1. PICK i \in DOMAIN calls : calls[i] = u
            BY <3>2
      <4>2. CASE i = 1
            BY <1>4, <1>5, <2>4, <4>1, <4>2
      <4>3. CASE i # 1
        <5>1. i - 1 \in DOMAIN calls' /\ calls'[i - 1] = u
              BY <1>4, <1>6, <4>1, <4>3
        <5> QED BY <5>1
      <4> QED BY <4>2, <4>3
    <3> QED BY <3>1, <3>2 DEF SortInv, VisitedAreBoth
  <2> QED BY <1>2, <2>1, <2>3, <2>5 DEF VisitedAreBoth
<1>10. CallsArePath'
  <2>1. ASSUME NEW i \in DOMAIN calls', NEW k \in DOMAIN calls', i < k
        PROVE  calls'[k] \in Needs(packageReqs, calls'[i])
    <3>1. i + 1 \in DOMAIN calls /\ k + 1 \in DOMAIN calls /\ i + 1 < k + 1
          BY <1>4, <1>6, <2>1
    <3>2. calls[k + 1] \in Needs(packageReqs, calls[i + 1])
          BY <3>1 DEF SortInv, CallsArePath
    <3> QED BY <1>4, <1>6, <3>2
  <2> QED BY <1>2, <2>1 DEF CallsArePath
<1>11. StackIsOrdered'
  <2>1. ASSUME NEW p \in RequiredBy(v)
        PROVE  \/ p \in Needs(packageReqs, v)
               \/ \E k \in DOMAIN stack' : k > 1 /\ stack'[k] = p
    <3>1. p \in visited /\ p # v
          BY <1>1, <1>2, <1>3, RequiredByRequires
    <3>2. CASE \E i \in DOMAIN calls : calls[i] = p
      <4>1. PICK i \in DOMAIN calls : calls[i] = p
            BY <3>2
      <4>2. 1 \in DOMAIN calls /\ 1 < i
            BY <1>4, <1>6, <3>1, <4>1
      <4> QED BY <1>4, <4>1, <4>2 DEF SortInv, CallsArePath
    <3>3. CASE \E i \in DOMAIN stack : stack[i] = p
      <4>1. PICK i \in DOMAIN stack : stack[i] = p
            BY <3>3
      <4>2. i + 1 \in DOMAIN stack' /\ i + 1 > 1 /\ stack'[i + 1] = p
            BY <1>5, <1>6, <4>1
      <4> QED BY <4>2
    <3> QED BY <3>1, <3>2, <3>3 DEF SortInv, VisitedAreBoth
  <2>2. ASSUME NEW i \in DOMAIN stack, NEW p \in RequiredBy(stack[i])
        PROVE  \/ p \in Needs(packageReqs, stack[i])
               \/ \E k \in DOMAIN stack' : k > i + 1 /\ stack'[k] = p
    <3>1. CASE p \in Needs(packageReqs, stack[i])
          BY <3>1
    <3>2. CASE \E k \in DOMAIN stack : k > i /\ stack[k] = p
      <4>1. PICK k \in DOMAIN stack : k > i /\ stack[k] = p
            BY <3>2
      <4>2. k + 1 \in DOMAIN stack' /\ k + 1 > i + 1 /\ stack'[k + 1] = p
            BY <1>5, <1>6, <4>1
      <4> QED BY <4>2
    <3> QED BY <3>1, <3>2 DEF SortInv, StackIsOrdered
  <2>3. ASSUME NEW i \in DOMAIN stack', NEW p \in RequiredBy(stack'[i])
        PROVE  \/ p \in Needs(packageReqs, stack'[i])
               \/ \E k \in DOMAIN stack' : k > i /\ stack'[k] = p
    <3>1. CASE i = 1
          BY <1>5, <2>1, <2>3, <3>1
    <3>2. CASE i # 1
      <4>1. PICK k \in DOMAIN stack : k = i - 1 /\ stack'[i] = stack[k]
            BY <1>5, <1>6, <3>2
      <4>2. k + 1 = i
            BY <1>6, <4>1
      <4> QED BY <2>2, <2>3, <4>1, <4>2
    <3> QED BY <3>1, <3>2
  <2>4. \A d : RequiredBy(d)' = RequiredBy(d)
        BY <1>2, RequiredByKept
  <2> QED BY <1>2, <2>3, <2>4 DEF StackIsOrdered
<1> QED BY <1>7, <1>8, <1>9, <1>10, <1>11 DEF SortInv

LEMMA SortInvStep == ASSUME SortInv, [SortNext]_sortVars PROVE SortInv'
<1>1. ASSUME VisitVertex PROVE SortInv'
  <2>1. calls = <<>> /\ \E v \in Packages \ visited : Visit(v)
        BY <1>1 DEF VisitVertex, First
  <2> QED BY <2>1, VisitKeepsInv
<1>2. ASSUME VisitNeighbour PROVE SortInv'
  <2>1. PICK v \in RequiredBy(Head(calls)) \ visited : Visit(v)
        BY <1>2 DEF VisitNeighbour, First
  <2>2. v \in Packages \ visited
        BY <2>1 DEF RequiredBy
  <2> QED BY <2>1, <2>2, VisitKeepsInv
<1>3. ASSUME EndVisit PROVE SortInv'
      BY <1>3, EndVisitKeepsInv
<1>4. ASSUME UNCHANGED sortVars PROVE SortInv'
  <2>1. UNCHANGED packageReqs /\ calls' = calls /\ stack' = stack /\ visited' = visited
        BY <1>4 DEF sortVars
  <2>2. \A d : RequiredBy(d)' = RequiredBy(d)
        BY <2>1, RequiredByKept
  <2> QED BY <2>1, <2>2
      DEF SortInv, SortTypeOK, OnceEach, VisitedAreBoth, CallsArePath, StackIsOrdered
<1> QED BY <1>1, <1>2, <1>3, <1>4 DEF SortNext

LEMMA PositionOf ==
    ASSUME NEW list, NEW i \in DOMAIN list,
           \A k \in DOMAIN list : list[k] = list[i] => k = i
    PROVE  Position(list, list[i]) = i
BY DEF Position

(* A requirement left in the graph is below what requires it; one that was *)
(* taken out is needed in turn.                                            *)
LEMMA InvOrdered ==
    ASSUME SortInv, SortEnded, NEW i \in DOMAIN stack, NEW d \in packageReqs[stack[i]]
    PROVE  \/ stack[i] \in Needs(packageReqs, d)
           \/ /\ d \in WithoutCircles[stack[i]]
              /\ \E k \in DOMAIN stack : k < i /\ stack[k] = d
<1>1. /\ packageReqs \in [Packages -> SUBSET Packages] /\ stack \in Seq(Packages)
      /\ calls = <<>> /\ Packages \subseteq visited
      BY DEF SortInv, SortTypeOK, Requirements, SortEnded
<1>2. stack[i] \in Packages /\ d \in Packages /\ i \in Nat
      BY <1>1
<1>3. CASE d \notin WithoutCircles[stack[i]]
  <2>1. stack[i] \in packageReqs[d]
        BY <1>2, <1>3 DEF WithoutCircles, Circular
  <2> QED BY <1>1, <1>2, <2>1, NeedsRequired
<1>4. CASE d \in WithoutCircles[stack[i]]
  <2>1. stack[i] \in RequiredBy(d)
        BY <1>2, <1>4 DEF RequiredBy
  <2>2. PICK k \in DOMAIN stack : stack[k] = d
        BY <1>1, <1>2 DEF SortInv, VisitedAreBoth
  <2>3. CASE \E j \in DOMAIN stack : j > k /\ stack[j] = stack[i]
    <3>1. PICK j \in DOMAIN stack : j > k /\ stack[j] = stack[i]
          BY <2>3
    <3>2. j = i
          BY <3>1 DEF SortInv, OnceEach
    <3>3. k < i
          BY <1>1, <3>1, <3>2
    <3> QED BY <1>4, <2>2, <3>3
  <2> QED BY <2>1, <2>2, <2>3 DEF SortInv, StackIsOrdered
<1> QED BY <1>3, <1>4

LEMMA InvRequiredComesFirst == SortInv => RequiredComesFirst
<1> SUFFICES ASSUME SortInv, SortEnded
             PROVE  /\ IsInjective(stack) /\ Range(stack) = Packages
                    /\ \A p \in Packages : InOrder(stack, p)
    BY DEF RequiredComesFirst
<1>1. IsInjective(stack)
      BY DEF SortInv, OnceEach, IsInjective
<1>2. Range(stack) = Packages
  <2>1. stack \in Seq(Packages) /\ calls = <<>> /\ Packages \subseteq visited
        BY DEF SortInv, SortTypeOK, SortEnded
  <2>2. \A v \in Packages : \E i \in DOMAIN stack : stack[i] = v
        BY <2>1 DEF SortInv, VisitedAreBoth
  <2>3. \A i \in DOMAIN stack : stack[i] \in Packages
        BY <2>1
  <2> QED BY <2>2, <2>3 DEF Range
<1>3. ASSUME NEW p \in Packages, NEW d \in packageReqs[p], p \notin Needs(packageReqs, d)
      PROVE  d \in Range(stack) /\ Position(stack, d) < Position(stack, p)
  <2>1. PICK i \in DOMAIN stack : stack[i] = p
        BY <1>2 DEF Range
  <2>2. PICK k \in DOMAIN stack : k < i /\ stack[k] = d
        BY <1>3, <2>1, InvOrdered
  <2>3. Position(stack, stack[i]) = i /\ Position(stack, stack[k]) = k
        BY PositionOf DEF SortInv, OnceEach
  <2> QED BY <2>1, <2>2, <2>3 DEF Range
<1> QED BY <1>1, <1>2, <1>3 DEF InOrder

LEMMA InvLeafIsComplete == SortInv => LeafIsComplete
<1> SUFFICES ASSUME SortInv, SortEnded, NEW leaf \in Packages
             PROVE  /\ leaf \in Range(ForLeaf(leaf))
                    /\ \A p \in Range(ForLeaf(leaf)) : InOrder(ForLeaf(leaf), p)
    BY DEF LeafIsComplete
<1> DEFINE list == ForLeaf(leaf)
<1>1. /\ DOMAIN list = {i \in DOMAIN stack : stack[i] \in LeafFilter(leaf)}
      /\ \A i \in DOMAIN list : list[i] = stack[i]
      BY DEF ForLeaf, Restrict
<1>2. \A i \in DOMAIN list : i \in DOMAIN stack /\ stack[i] \in LeafFilter(leaf)
      BY <1>1
<1>3. \A i, k \in DOMAIN list : list[k] = list[i] => k = i
      BY <1>1, <1>2 DEF SortInv, OnceEach
<1>4. WithoutCircles \in [Packages -> SUBSET Packages]
      BY DEF SortInv, SortTypeOK, Requirements, WithoutCircles
<1>5. \A i \in DOMAIN stack : stack[i] \in Packages
      BY DEF SortInv, SortTypeOK
<1> HIDE DEF list
<1>6. leaf \in Range(list)
  <2>1. PICK i \in DOMAIN stack : stack[i] = leaf
        BY InvRequiredComesFirst DEF RequiredComesFirst, Range
  <2>2. i \in DOMAIN list
        BY <1>1, <2>1 DEF LeafFilter
  <2> QED BY <1>1, <2>1, <2>2 DEF Range
<1>7. ASSUME NEW i \in DOMAIN list, NEW d \in packageReqs[list[i]],
             list[i] \notin Needs(packageReqs, d)
      PROVE  d \in Range(list) /\ Position(list, d) < Position(list, list[i])
  <2>1. i \in DOMAIN stack /\ list[i] = stack[i]
        BY <1>1, <1>2
  <2>2. d \in WithoutCircles[stack[i]] /\ \E k \in DOMAIN stack : k < i /\ stack[k] = d
        BY <1>7, <2>1, InvOrdered
  <2>3. PICK k \in DOMAIN stack : k < i /\ stack[k] = d
        BY <2>2
  <2>4. d \in LeafFilter(leaf)
    <3>1. CASE stack[i] = leaf
          BY <1>4, <2>2, <3>1, NeedsRequired DEF LeafFilter
    <3>2. CASE stack[i] \in Needs(WithoutCircles, leaf)
          BY <1>4, <2>2, <3>2, RequiredOfNeeds DEF LeafFilter
    <3> QED BY <1>2, <3>1, <3>2 DEF LeafFilter
  <2>5. k \in DOMAIN list /\ list[k] = d
        BY <1>1, <2>3, <2>4
  <2>6. Position(list, list[i]) = i /\ Position(list, list[k]) = k
        BY <1>3, <2>5, PositionOf
  <2> QED BY <2>3, <2>5, <2>6 DEF Range
<1>8. \A p \in Range(list) : InOrder(list, p)
      BY <1>7 DEF InOrder, Range
<1> QED BY <1>6, <1>8 DEF list

-----------------------------------------------------------------------------
(* Numbers up to a bound have a greatest and a least one. *)
LEMMA MaxOfBounded ==
    ASSUME NEW n \in Nat, NEW S \in SUBSET (0..n), S # {}
    PROVE  Max(S) \in S /\ \A y \in S : y <= Max(S)
<1>1. IsFiniteSet(S)
  <2>1. IsFiniteSet(0..n)
        BY FS_Interval
  <2> QED BY <2>1, FS_Subset
<1>2. S \in SUBSET Nat
      OBVIOUS
<1> QED BY <1>1, <1>2, MaxIsMember

LEMMA MinOfBounded ==
    ASSUME NEW n \in Nat, NEW S \in SUBSET (0..n), S # {}
    PROVE  Min(S) \in S /\ \A y \in S : Min(S) <= y
<1> DEFINE T == {n - x : x \in S}
<1>1. T \in SUBSET (0..n) /\ T # {}
  <2>1. \A x \in S : x \in 0..n /\ n - x \in 0..n
    <3>1. \A x \in S : x \in 0..n
          OBVIOUS
    <3>2. \A x \in 0..n : n - x \in 0..n
          OBVIOUS
    <3> QED BY <3>1, <3>2
  <2> QED BY <2>1
<1>2. Max(T) \in T /\ \A y \in T : y <= Max(T)
  <2> HIDE DEF T
  <2> QED BY <1>1, MaxOfBounded
<1>3. PICK x \in S : Max(T) = n - x
      BY <1>2
<1>4. \A y \in S : n - y \in T
      OBVIOUS
<1> HIDE DEF T
<1>5. ASSUME NEW y \in S PROVE x <= y
  <2>1. n - y <= n - x
        BY <1>2, <1>3, <1>4
  <2>2. x \in Nat /\ y \in Nat
        OBVIOUS
  <2> QED BY <2>1, <2>2
<1>6. \E z \in S : \A y \in S : z =< y
      BY <1>5
<1> QED BY <1>6 DEF Min

-----------------------------------------------------------------------------
(* File conflicts.  The tuples are the rows without equal files, followed  *)
(* by those made anew of rows with some.                                   *)
LEMMA TuplesAreRows ==
    ASSUME NEW t \in Tables
    PROVE  /\ DOMAIN t.rows = 1..Len(t.rows) /\ Len(t.rows) \in Nat
           /\ \A i \in DOMAIN t.rows : t.rows[i] \in Row
           /\ \A i \in Unequal(t) :
                 i \in DOMAIN FilterEqual(t) /\ FilterEqual(t)[i] = AsFound(t, t.rows[i])
           /\ \A j \in Partly(t) :
                 \E i \in DOMAIN FilterEqual(t) : FilterEqual(t)[i] = Filtered(t, t.rows[j])
           /\ \A i \in DOMAIN FilterEqual(t) :
                 \/ i \in Unequal(t)
                 \/ \E j \in Partly(t) : FilterEqual(t)[i] = Filtered(t, t.rows[j])
<1>1. t.rows \in Seq(Row)
      BY DEF Tables
<1>2. DOMAIN t.rows = 1..Len(t.rows) /\ Len(t.rows) \in Nat /\ \A i \in DOMAIN t.rows : t.rows[i] \in Row
      BY <1>1
<1>3. Unequal(t) \subseteq DOMAIN t.rows /\ Partly(t) \subseteq DOMAIN t.rows
      BY DEF Unequal, Partly
<1>4. DOMAIN FilterEqual(t) = Unequal(t) \cup {Len(t.rows) + j : j \in Partly(t)}
      BY DEF FilterEqual
<1>5. \A i \in Unequal(t) : FilterEqual(t)[i] = AsFound(t, t.rows[i])
      BY DEF FilterEqual
<1>6. ASSUME NEW j \in Partly(t)
      PROVE  FilterEqual(t)[Len(t.rows) + j] = Filtered(t, t.rows[j])
  <2>1. /\ Len(t.rows) + j \notin Unequal(t) /\ (Len(t.rows) + j) - Len(t.rows) = j
        BY <1>2, <1>3
  <2> QED BY <1>4, <2>1 DEF FilterEqual
<1> QED BY <1>2, <1>4, <1>5, <1>6

LEMMA RowFields ==
    ASSUME NEW t \in Tables, NEW r \in Row
    PROVE  /\ r.input \in Hashes /\ r.other \in Hashes /\ r.files \in SUBSET Files /\ r.files # {}
           /\ Equal(t, r) \subseteq r.files
<1>1. r.input \in Hashes /\ r.other \in Hashes /\ r.files \in SUBSET Files /\ r.files # {}
      BY DEF Row
<1> QED BY <1>1 DEF Equal

(* Where no row was made anew a tuple names its packages as the tables do. *)
LEMMA NamesOfTuples ==
    ASSUME NEW t \in Tables, Partly(t) = {}, NEW k \in DOMAIN FilterEqual(t),
           NEW h \in {FilterEqual(t)[k].input, FilterEqual(t)[k].other}
    PROVE  NameOf(FilterEqual(t), h) = t.name[h]
<1> DEFINE tuples == FilterEqual(t)
           S == {i \in DOMAIN tuples : h \in {tuples[i].input, tuples[i].other}}
<1>1. DOMAIN tuples = Unequal(t) /\ \A i \in Unequal(t) : tuples[i] = AsFound(t, t.rows[i])
      BY TuplesAreRows
<1>2. Unequal(t) \subseteq 0..Len(t.rows) /\ Len(t.rows) \in Nat
      BY TuplesAreRows DEF Unequal
<1>3. S \in SUBSET (0..Len(t.rows)) /\ S # {}
      BY <1>1, <1>2
<1>4. \A i \in DOMAIN tuples :
         /\ tuples[i].inputName = t.name[tuples[i].input]
         /\ tuples[i].otherName = t.name[tuples[i].other]
      BY <1>1 DEF AsFound
<1> HIDE DEF tuples
<1>5. PICK last \in S : \A i \in S : i <= last
  <2> HIDE DEF S
  <2> QED BY <1>2, <1>3, MaxOfBounded
<1>6. last \in DOMAIN tuples /\ h \in {tuples[last].input, tuples[last].other}
      BY <1>5
<1>7. \A j \in DOMAIN tuples : h \in {tuples[j].input, tuples[j].other} => j <= last
      BY <1>5
<1> DEFINE chosen == CHOOSE i \in DOMAIN tuples :
                        /\ h \in {tuples[i].input, tuples[i].other}
                        /\ \A j \in DOMAIN tuples :
                              h \in {tuples[j].input, tuples[j].other} => j <= i
<1>8. chosen \in DOMAIN tuples /\ h \in {tuples[chosen].input, tuples[chosen].other}
      BY <1>6, <1>7
<1>9. NameOf(tuples, h) =
        IF tuples[chosen].input = h THEN tuples[chosen].inputName ELSE tuples[chosen].otherName
      BY DEF NameOf
<1> HIDE DEF chosen
<1>10. NameOf(tuples, h) = t.name[h]
      BY <1>4, <1>8, <1>9
<1> QED BY <1>10 DEF tuples

LEMMA DeclaredAreRows ==
    ASSUME NEW t \in Tables, AsksAboutInputs(t), Partly(t) = {}, NEW pair
    PROVE  pair \in DeclaredNames(t, FilterEqual(t)) <=> NamesDeclared(t, pair)
<1> DEFINE tuples == FilterEqual(t)
<1>1. DOMAIN tuples = Unequal(t) /\ \A i \in Unequal(t) : tuples[i] = AsFound(t, t.rows[i])
      BY TuplesAreRows
<1>2. \A i \in Unequal(t) :
         /\ i \in DOMAIN t.rows /\ t.rows[i] \in Row
         /\ tuples[i].input = t.rows[i].input /\ tuples[i].other = t.rows[i].other
  <2>1. \A i \in Unequal(t) : i \in DOMAIN t.rows
        BY DEF Unequal
  <2>2. \A i \in DOMAIN t.rows : t.rows[i] \in Row
        BY TuplesAreRows
  <2>3. \A r : AsFound(t, r).input = r.input /\ AsFound(t, r).other = r.other
        BY DEF AsFound
  <2> HIDE DEF tuples
  <2> QED BY <1>1, <2>1, <2>2, <2>3
<1>3. \A i \in Unequal(t) : tuples[i].input \in t.inputs /\ tuples[i].other \notin t.inputs
      BY <1>2 DEF AsksAboutInputs, Range
<1>4. \A i \in Unequal(t) :
         /\ NameOf(tuples, tuples[i].input) = t.name[tuples[i].input]
         /\ NameOf(tuples, tuples[i].other) = t.name[tuples[i].other]
      BY <1>1, NamesOfTuples
<1>5. \A i \in DOMAIN t.rows : i \in Unequal(t) <=> t.rows[i].files # Equal(t, t.rows[i])
  <2> SUFFICES ASSUME NEW i \in DOMAIN t.rows
               PROVE  i \in Unequal(t) <=> t.rows[i].files # Equal(t, t.rows[i])
      OBVIOUS
  <2>1. t.rows[i].files # {}
        BY TuplesAreRows, RowFields
  <2>2. Equal(t, t.rows[i]) \in {{}, t.rows[i].files}
        BY DEF Partly
  <2> QED BY <2>1, <2>2 DEF Unequal
<1> HIDE DEF tuples
<1>6. ASSUME NEW p \in Detected(t, tuples)
      PROVE  \E i \in Unequal(t) :
                /\ InputFirst(t, p) = <<tuples[i].input, tuples[i].other>>
                /\ \/ <<tuples[i].input, tuples[i].other>> \in t.declared
                   \/ <<tuples[i].other, tuples[i].input>> \in t.declared
  <2>1. PICK i \in Unequal(t) :
            p \in {<<tuples[i].other, tuples[i].input>>, <<tuples[i].input, tuples[i].other>>} \cap t.declared
        BY <1>1, <1>6 DEF Detected, Range
  <2> QED BY <1>3, <2>1 DEF InputFirst
<1>7. ASSUME NEW i \in Unequal(t),
             \/ <<tuples[i].input, tuples[i].other>> \in t.declared
             \/ <<tuples[i].other, tuples[i].input>> \in t.declared
      PROVE  \E p \in Detected(t, tuples) : InputFirst(t, p) = <<tuples[i].input, tuples[i].other>>
  <2>1. PICK p \in {<<tuples[i].other, tuples[i].input>>, <<tuples[i].input, tuples[i].other>>} :
            p \in t.declared
        BY <1>7
  <2>2. p \in Detected(t, tuples)
        BY <1>1, <2>1 DEF Detected, Range
  <2>3. InputFirst(t, p) = <<tuples[i].input, tuples[i].other>>
        BY <1>3, <2>1 DEF InputFirst
  <2> QED BY <2>2, <2>3
<1>8. pair \in DeclaredNames(t, tuples) <=>
        \E p \in Detected(t, tuples) :
            pair = <<NameOf(tuples, InputFirst(t, p)[1]), NameOf(tuples, InputFirst(t, p)[2])>>
      BY DEF DeclaredNames
<1>9. pair \in DeclaredNames(t, tuples) <=>
        \E i \in Unequal(t) :
            /\ pair = <<t.name[tuples[i].input], t.name[tuples[i].other]>>
            /\ \/ <<tuples[i].input, tuples[i].other>> \in t.declared
               \/ <<tuples[i].other, tuples[i].input>> \in t.declared
  <2>1. ASSUME NEW i \in Unequal(t), NEW p, InputFirst(t, p) = <<tuples[i].input, tuples[i].other>>
        PROVE  /\ NameOf(tuples, InputFirst(t, p)[1]) = t.name[tuples[i].input]
               /\ NameOf(tuples, InputFirst(t, p)[2]) = t.name[tuples[i].other]
        BY <1>4, <2>1
  <2>2. ASSUME pair \in DeclaredNames(t, tuples)
        PROVE  \E i \in Unequal(t) :
                  /\ pair = <<t.name[tuples[i].input], t.name[tuples[i].other]>>
                  /\ \/ <<tuples[i].input, tuples[i].other>> \in t.declared
                     \/ <<tuples[i].other, tuples[i].input>> \in t.declared
    <3>1. PICK p \in Detected(t, tuples) :
            pair = <<NameOf(tuples, InputFirst(t, p)[1]), NameOf(tuples, InputFirst(t, p)[2])>>
          BY <1>8, <2>2
    <3>2. PICK i \in Unequal(t) :
                /\ InputFirst(t, p) = <<tuples[i].input, tuples[i].other>>
                /\ \/ <<tuples[i].input, tuples[i].other>> \in t.declared
                   \/ <<tuples[i].other, tuples[i].input>> \in t.declared
          BY <1>6
    <3> QED BY <2>1, <3>1, <3>2
  <2>3. ASSUME NEW i \in Unequal(t),
               pair = <<t.name[tuples[i].input], t.name[tuples[i].other]>>,
               \/ <<tuples[i].input, tuples[i].other>> \in t.declared
               \/ <<tuples[i].other, tuples[i].input>> \in t.declared
        PROVE  pair \in DeclaredNames(t, tuples)
    <3>1. PICK p \in Detected(t, tuples) : InputFirst(t, p) = <<tuples[i].input, tuples[i].other>>
          BY <1>7, <2>3
    <3> QED BY <1>8, <2>1, <2>3, <3>1
  <2> QED BY <2>2, <2>3
<1>10. NamesDeclared(t, pair) <=>
        \E i \in Unequal(t) :
            /\ pair = <<t.name[tuples[i].input], t.name[tuples[i].other]>>
            /\ \/ <<tuples[i].input, tuples[i].other>> \in t.declared
               \/ <<tuples[i].other, tuples[i].input>> \in t.declared
      BY <1>2, <1>5 DEF NamesDeclared, Range
<1> QED BY <1>9, <1>10 DEF tuples

LEMMA ReportsAreRight ==
    ASSUME NEW t \in Tables, AsksAboutInputs(t)
    PROVE  DifferencesReported(t, Report(t))
<1> DEFINE tuples == FilterEqual(t)
           declared == DeclaredNames(t, tuples)
<1>1. \A pair, f : Reported(Report(t), pair, f) <=>
         \E i \in DOMAIN tuples :
             /\ pair = <<tuples[i].inputName, tuples[i].otherName>>
             /\ f \in tuples[i].files
             /\ pair \notin declared
  <2> DEFINE kept == {d \in Range(tuples) : <<d.inputName, d.otherName>> \notin declared}
             Entry(c) == [pair |-> <<c.inputName, c.otherName>>, files |-> c.files]
  <2>1. Report(t) = {Entry(c) : c \in kept}
        BY DEF Report
  <2>2. \A c : Entry(c).pair = <<c.inputName, c.otherName>> /\ Entry(c).files = c.files
        OBVIOUS
  <2> HIDE DEF tuples, declared, Entry
  <2>3. \A c : c \in kept <=>
           \E i \in DOMAIN tuples : c = tuples[i] /\ <<c.inputName, c.otherName>> \notin declared
        BY DEF Range
  <2> HIDE DEF kept
  <2>4. ASSUME NEW pair, NEW f
        PROVE  Reported(Report(t), pair, f) <=> \E c \in kept : Entry(c).pair = pair /\ f \in Entry(c).files
        BY <2>1 DEF Reported
  <2>5. ASSUME NEW pair, NEW f
        PROVE  (\E c \in kept : Entry(c).pair = pair /\ f \in Entry(c).files) <=>
               \E i \in DOMAIN tuples :
                  /\ pair = <<tuples[i].inputName, tuples[i].otherName>>
                  /\ f \in tuples[i].files
                  /\ pair \notin declared
    <3>1. ASSUME NEW c \in kept, Entry(c).pair = pair, f \in Entry(c).files
          PROVE  \E i \in DOMAIN tuples :
                    /\ pair = <<tuples[i].inputName, tuples[i].otherName>>
                    /\ f \in tuples[i].files
                    /\ pair \notin declared
      <4>1. PICK i \in DOMAIN tuples : c = tuples[i]
            BY <2>3
      <4>2. pair = <<c.inputName, c.otherName>> /\ f \in c.files /\ pair \notin declared
            BY <2>2, <2>3, <3>1
      <4> QED BY <4>1, <4>2
    <3>2. ASSUME NEW i \in DOMAIN tuples, pair = <<tuples[i].inputName, tuples[i].otherName>>,
                 f \in tuples[i].files, pair \notin declared
          PROVE  \E c \in kept : Entry(c).pair = pair /\ f \in Entry(c).files
      <4>1. tuples[i] \in kept
            BY <2>3, <3>2
      <4> QED BY <2>2, <3>2, <4>1
    <3> QED BY <3>1, <3>2
  <2> QED BY <2>4, <2>5
<1>2. \A pair, f : Differs(t, pair, f) <=>
         \E j \in DOMAIN t.rows :
             /\ f \in t.rows[j].files \ Equal(t, t.rows[j])
             /\ pair = <<t.name[t.rows[j].input], t.name[t.rows[j].other]>>
      BY DEF Differs, Range
<1>3. \A i \in Unequal(t) :
         /\ i \in DOMAIN tuples /\ i \in DOMAIN t.rows
         /\ tuples[i].inputName = t.name[t.rows[i].input]
         /\ tuples[i].otherName = t.name[t.rows[i].other]
         /\ tuples[i].files = t.rows[i].files \ Equal(t, t.rows[i])
  <2>1. \A i \in Unequal(t) :
           i \in DOMAIN tuples /\ i \in DOMAIN t.rows /\ tuples[i] = AsFound(t, t.rows[i])
        BY TuplesAreRows DEF Unequal
  <2>2. \A r : /\ AsFound(t, r).inputName = t.name[r.input]
               /\ AsFound(t, r).otherName = t.name[r.other]
               /\ AsFound(t, r).files = r.files
        BY DEF AsFound
  <2>3. \A i \in Unequal(t) : t.rows[i].files = t.rows[i].files \ Equal(t, t.rows[i])
        BY DEF Unequal
  <2> HIDE DEF tuples
  <2> QED BY <2>1, <2>2, <2>3
<1>4. \A j \in Partly(t) : j \in DOMAIN t.rows
      BY DEF Partly
<1>5. \A r : /\ Filtered(t, r).inputName = t.name[r.other]
              /\ Filtered(t, r).otherName = t.name[r.input]
              /\ Filtered(t, r).files = r.files \ Equal(t, r)
      BY DEF Filtered
<1>6. \A j \in Partly(t) : \E i \in DOMAIN tuples :
         /\ j \in DOMAIN t.rows
         /\ tuples[i].inputName = t.name[t.rows[j].other]
         /\ tuples[i].otherName = t.name[t.rows[j].input]
         /\ tuples[i].files = t.rows[j].files \ Equal(t, t.rows[j])
      BY TuplesAreRows, <1>4, <1>5
<1>7. \A i \in DOMAIN tuples :
         \/ i \in Unequal(t)
         \/ \E j \in Partly(t) :
               /\ j \in DOMAIN t.rows
               /\ tuples[i].inputName = t.name[t.rows[j].other]
               /\ tuples[i].otherName = t.name[t.rows[j].input]
               /\ tuples[i].files = t.rows[j].files \ Equal(t, t.rows[j])
      BY TuplesAreRows, <1>4, <1>5
<1>8. \A j \in DOMAIN t.rows : \A f :
         f \in t.rows[j].files \ Equal(t, t.rows[j]) => j \in Unequal(t) \/ j \in Partly(t)
      BY DEF Unequal, Partly
<1>9. Partly(t) = {} => \A pair : pair \in declared <=> NamesDeclared(t, pair)
      BY DeclaredAreRows
<1>10. t.declared = {} => declared = {}
      BY DEF DeclaredNames, Detected
<1> HIDE DEF tuples, declared
<1> SUFFICES ASSUME NEW m, NEW n, NEW f
             PROVE  /\ Reported(Report(t), <<m, n>>, f) =>
                          Differs(t, <<m, n>>, f) \/ (PartlyEqual(t) /\ Differs(t, <<n, m>>, f))
                    /\ ~PartlyEqual(t) /\ Differs(t, <<m, n>>, f) =>
                          (Reported(Report(t), <<m, n>>, f) <=> ~NamesDeclared(t, <<m, n>>))
                    /\ t.declared = {} /\ Differs(t, <<m, n>>, f) =>
                          Reported(Report(t), <<m, n>>, f) \/ Reported(Report(t), <<n, m>>, f)
    BY DEF DifferencesReported
<1>11. ASSUME Reported(Report(t), <<m, n>>, f)
      PROVE  Differs(t, <<m, n>>, f) \/ (PartlyEqual(t) /\ Differs(t, <<n, m>>, f))
  <2>1. PICK i \in DOMAIN tuples :
            <<m, n>> = <<tuples[i].inputName, tuples[i].otherName>> /\ f \in tuples[i].files
        BY <1>1, <1>11
  <2>2. CASE i \in Unequal(t)
        BY <1>2, <1>3, <2>1, <2>2
  <2>3. CASE i \notin Unequal(t)
    <3>1. PICK j \in Partly(t) :
               /\ j \in DOMAIN t.rows
               /\ tuples[i].inputName = t.name[t.rows[j].other]
               /\ tuples[i].otherName = t.name[t.rows[j].input]
               /\ tuples[i].files = t.rows[j].files \ Equal(t, t.rows[j])
          BY <1>7, <2>3
    <3> QED BY <1>2, <2>1, <3>1 DEF PartlyEqual
  <2> QED BY <2>2, <2>3
<1>12. ASSUME Partly(t) = {}, Differs(t, <<m, n>>, f)
       PROVE  Reported(Report(t), <<m, n>>, f) <=> ~NamesDeclared(t, <<m, n>>)
  <2>1. PICK j \in Unequal(t) :
            /\ f \in t.rows[j].files \ Equal(t, t.rows[j])
            /\ <<m, n>> = <<t.name[t.rows[j].input], t.name[t.rows[j].other]>>
        BY <1>2, <1>8, <1>12
  <2> QED BY <1>1, <1>3, <1>9, <1>12, <2>1
<1>13. ASSUME t.declared = {}, Differs(t, <<m, n>>, f)
       PROVE  Reported(Report(t), <<m, n>>, f) \/ Reported(Report(t), <<n, m>>, f)
  <2>1. PICK j \in DOMAIN t.rows :
            /\ f \in t.rows[j].files \ Equal(t, t.rows[j])
            /\ <<m, n>> = <<t.name[t.rows[j].input], t.name[t.rows[j].other]>>
        BY <1>2, <1>13
  <2>2. CASE j \in Unequal(t)
        BY <1>1, <1>3, <1>10, <1>13, <2>1, <2>2
  <2>3. CASE j \in Partly(t)
    <3>1. PICK i \in DOMAIN tuples :
             /\ tuples[i].inputName = t.name[t.rows[j].other]
             /\ tuples[i].otherName = t.name[t.rows[j].input]
             /\ tuples[i].files = t.rows[j].files \ Equal(t, t.rows[j])
          BY <1>6, <2>3
    <3>2. <<n, m>> = <<tuples[i].inputName, tuples[i].otherName>> /\ f \in tuples[i].files
          BY <2>1, <3>1
    <3> QED BY <1>1, <1>10, <1>13, <3>2
  <2> QED BY <1>8, <2>1, <2>2, <2>3
<1> QED BY <1>11, <1>12, <1>13 DEF PartlyEqual

-----------------------------------------------------------------------------
(* Task history.  The branches one inherits from are told apart by how     *)
(* many they inherit from in turn.                                         *)
Family(b) == {b} \cup Inherited(b)

LEMMA Lineage ==
    ASSUME NEW b \in DOMAIN Lineages
    PROVE  /\ Lineages[b] \in Seq(DOMAIN Lineages) /\ Len(Lineages[b]) \in Nat
           /\ DOMAIN Lineages[b] = 1..Len(Lineages[b])
           /\ \A i \in 1..Len(Lineages[b]) : Lineages[b][i] \in DOMAIN Lineages
<1>1. Lineages[b] \in Seq(DOMAIN Lineages)
      BY LineagesAssumption
<1> QED BY <1>1

LEMMA Nested ==
    ASSUME NEW b \in DOMAIN Lineages, NEW i \in 1..Len(Lineages[b]), NEW c, c = Lineages[b][i]
    PROVE  /\ c \in DOMAIN Lineages
           /\ Len(Lineages[c]) = Len(Lineages[b]) - i
           /\ \A k \in 1..Len(Lineages[c]) : i + k \in 1..Len(Lineages[b]) /\ Lineages[c][k] = Lineages[b][i + k]
<1>1. PICK list \in Seq(DOMAIN Lineages) : list = Lineages[b]
      BY Lineage
<1>2. c \in DOMAIN Lineages /\ i \in DOMAIN Lineages[b]
      BY Lineage
<1>3. Lineages[c] = SubSeq(list, i + 1, Len(list))
      BY <1>1, <1>2, LineagesAssumption
<1>4. i \in Nat /\ Len(list) \in Nat /\ i <= Len(list)
      BY <1>1
<1>5. /\ Len(Lineages[c]) = Len(list) - i
      /\ \A k \in 1..Len(Lineages[c]) : Lineages[c][k] = list[i + k]
      BY <1>3, <1>4, PartOfList
<1>6. \A k \in 1..(Len(list) - i) : i + k \in 1..Len(list)
      BY <1>4
<1> QED BY <1>1, <1>2, <1>5, <1>6

LEMMA PlacesDiffer ==
    ASSUME NEW b \in DOMAIN Lineages
    PROVE  /\ b \notin Inherited(b)
           /\ \A j, k \in 1..Len(Lineages[b]) : Lineages[b][j] = Lineages[b][k] => j = k
<1>1. ASSUME NEW j \in 1..Len(Lineages[b])
      PROVE  Lineages[b][j] # b
  <2>1. Len(Lineages[Lineages[b][j]]) = Len(Lineages[b]) - j
        BY Nested
  <2>2. Len(Lineages[b]) \in Nat /\ j \in Nat /\ j > 0
        BY Lineage
  <2> QED BY <2>1, <2>2
<1>2. ASSUME NEW j \in 1..Len(Lineages[b]), NEW k \in 1..Len(Lineages[b]), Lineages[b][j] = Lineages[b][k]
      PROVE  j = k
  <2>1. /\ Len(Lineages[Lineages[b][j]]) = Len(Lineages[b]) - j
        /\ Len(Lineages[Lineages[b][k]]) = Len(Lineages[b]) - k
        BY Nested
  <2>2. Len(Lineages[b]) \in Nat /\ j \in Nat /\ k \in Nat
        BY Lineage
  <2> QED BY <1>2, <2>1, <2>2
<1>3. b \notin Inherited(b)
      BY <1>1, Lineage DEF Inherited
<1> QED BY <1>2, <1>3

LEMMA FamilyFromPlace ==
    ASSUME NEW b \in DOMAIN Lineages, NEW i \in 1..Len(Lineages[b]), NEW c, c = Lineages[b][i]
    PROVE  \A k \in 1..Len(Lineages[b]) : Lineages[b][k] \in Family(c) <=> k >= i
<1>1. /\ c \in DOMAIN Lineages /\ Len(Lineages[c]) = Len(Lineages[b]) - i
      /\ \A k \in 1..Len(Lineages[c]) : i + k \in 1..Len(Lineages[b]) /\ Lineages[c][k] = Lineages[b][i + k]
      BY Nested
<1>2. i \in Nat /\ Len(Lineages[b]) \in Nat /\ Len(Lineages[c]) \in Nat
      BY <1>1, Lineage
<1> SUFFICES ASSUME NEW k \in 1..Len(Lineages[b])
             PROVE  Lineages[b][k] \in Family(c) <=> k >= i
    OBVIOUS
<1>3. k \in Nat /\ k <= Len(Lineages[b])
      BY <1>2
<1>4. ASSUME k >= i PROVE Lineages[b][k] \in Family(c)
  <2>1. CASE k = i
        BY <2>1 DEF Family
  <2>2. CASE k > i
    <3>1. k - i \in 1..Len(Lineages[c]) /\ i + (k - i) = k
          BY <1>1, <1>2, <1>3, <2>2
    <3>2. Lineages[c][k - i] = Lineages[b][k]
          BY <1>1, <3>1
    <3>3. k - i \in DOMAIN Lineages[c]
          BY <1>1, <3>1, Lineage
    <3> QED BY <3>2, <3>3 DEF Family, Inherited
  <2> QED BY <1>2, <1>3, <1>4, <2>1, <2>2
<1>5. ASSUME Lineages[b][k] \in Family(c) PROVE k >= i
  <2>1. CASE Lineages[b][k] = c
        BY <1>2, <2>1, PlacesDiffer
  <2>2. CASE Lineages[b][k] \in Inherited(c)
    <3>1. PICK j \in 1..Len(Lineages[c]) : Lineages[b][k] = Lineages[c][j]
          BY <1>1, <2>2, Lineage DEF Inherited
    <3>2. i + j \in 1..Len(Lineages[b]) /\ Lineages[b][k] = Lineages[b][i + j]
          BY <1>1, <3>1
    <3>3. k = i + j /\ j \in Nat
          BY <1>2, <3>1, <3>2, PlacesDiffer
    <3> QED BY <1>2, <3>3
  <2> QED BY <1>5, <2>1, <2>2 DEF Family
<1> QED BY <1>4, <1>5

LEMMA FamiliesNest ==
    ASSUME NEW b \in DOMAIN Lineages, NEW c \in Family(b)
    PROVE  /\ c \in DOMAIN Lineages
           /\ Family(c) \subseteq Family(b)
           /\ Lineages[c] # <<>> => Lineages[c][1] \in Inherited(c)
<1>1. \A i \in DOMAIN Lineages[b] : i \in 1..Len(Lineages[b])
      BY Lineage
<1>2. c \in DOMAIN Lineages
      BY <1>1, Lineage DEF Family, Inherited
<1>3. Family(c) \subseteq Family(b)
  <2>1. CASE c = b
        BY <2>1
  <2>2. CASE c \in Inherited(b)
    <3>1. PICK i \in 1..Len(Lineages[b]) : c = Lineages[b][i]
          BY <1>1, <2>2 DEF Inherited
    <3>2. \A k \in 1..Len(Lineages[c]) : i + k \in 1..Len(Lineages[b]) /\ Lineages[c][k] = Lineages[b][i + k]
          BY <3>1, Nested
    <3>3. DOMAIN Lineages[c] = 1..Len(Lineages[c]) /\ DOMAIN Lineages[b] = 1..Len(Lineages[b])
          BY <1>2, Lineage
    <3>4. \A x \in Inherited(c) : x \in Inherited(b)
          BY <3>2, <3>3 DEF Inherited
    <3> QED BY <2>2, <3>4 DEF Family
  <2> QED BY <2>1, <2>2 DEF Family
<1>4. Lineages[c] # <<>> => Lineages[c][1] \in Inherited(c)
  <2>1. Lineages[c] # <<>> => 1 \in DOMAIN Lineages[c]
    <3>1. PICK list \in Seq(DOMAIN Lineages) : list = Lineages[c]
          BY <1>2, Lineage
    <3> QED BY <3>1
  <2> QED BY <2>1 DEF Inherited
<1> QED BY <1>2, <1>3, <1>4

-----------------------------------------------------------------------------
(* The walk has its first task and the known one before each of its own,   *)
(* and is in each set that has them.                                       *)
LEMMA WalkWithin ==
    ASSUME NEW h, NEW known, NEW t, NEW S \in SUBSET known,
           t \in known => t \in S,
           \A v \in S : h.prev[v] \in known => h.prev[v] \in S
    PROVE  Walk(h, known, t) \subseteq S
BY DEF Walk

LEMMA WalkBegins == ASSUME NEW h, NEW known, NEW t \in known PROVE t \in Walk(h, known, t)
BY DEF Walk

LEMMA WalkGoesOn ==
    ASSUME NEW h, NEW known, NEW t, NEW v \in Walk(h, known, t), h.prev[v] \in known
    PROVE  h.prev[v] \in Walk(h, known, t)
BY DEF Walk

(* The task before one is older; it is of the same branch, or it is where  *)
(* the branch was forked from the nearest one, and there is none before.   *)
LEMMA TaskBefore ==
    ASSUME NEW h \in History, IsHistory(h), NEW t \in 1..MaxHistory, h.prev[t] # 0
    PROVE  LET u == h.prev[t]
           IN  /\ u \in 1..MaxHistory /\ u < t
               /\ \/ u \in Earlier(h, t) /\ \A v \in Earlier(h, t) : v <= u
                  \/ /\ Earlier(h, t) = {} /\ Lineages[h.branch[t]] # <<>>
                     /\ h.branch[u] = Lineages[h.branch[t]][1]
<1>1. MaxHistory \in Nat /\ t \in Nat /\ t <= MaxHistory
      BY LineagesAssumption
<1>2. CASE Earlier(h, t) # {}
  <2>1. Earlier(h, t) \in SUBSET (0..MaxHistory)
        BY <1>1 DEF Earlier
  <2>2. /\ Max(Earlier(h, t)) \in Earlier(h, t)
        /\ \A v \in Earlier(h, t) : v <= Max(Earlier(h, t))
        BY <1>1, <1>2, <2>1, MaxOfBounded
  <2>3. h.prev[t] = Max(Earlier(h, t))
        BY <1>2 DEF IsHistory
  <2>4. Earlier(h, t) \subseteq 1..(t - 1)
        BY DEF Earlier
  <2>5. h.prev[t] \in 1..(t - 1)
        BY <2>2, <2>3, <2>4
  <2> QED BY <1>1, <2>2, <2>3, <2>5
<1>3. CASE Earlier(h, t) = {}
  <2>1. /\ Lineages[h.branch[t]] # <<>> /\ h.prev[t] \in 1..(t - 1)
        /\ h.branch[h.prev[t]] = Lineages[h.branch[t]][1]
        BY <1>3 DEF IsHistory
  <2> QED BY <1>1, <1>3, <2>1
<1> QED BY <1>2, <1>3

LEMMA BranchOfTaskBefore ==
    ASSUME NEW h \in History, IsHistory(h), NEW b \in DOMAIN Lineages,
           NEW t \in TasksOf(h, Family(b)), h.prev[t] # 0
    PROVE  h.prev[t] \in TasksOf(h, Family(b))
<1>1. t \in 1..MaxHistory /\ h.branch[t] \in Family(b)
      BY DEF TasksOf
<1>2. /\ h.prev[t] \in 1..MaxHistory
      /\ \/ h.branch[h.prev[t]] = h.branch[t]
         \/ Lineages[h.branch[t]] # <<>> /\ h.branch[h.prev[t]] = Lineages[h.branch[t]][1]
      BY <1>1, TaskBefore DEF Earlier
<1>3. h.branch[h.prev[t]] \in Family(b)
      BY <1>1, <1>2, FamiliesNest DEF Family
<1> QED BY <1>2, <1>3 DEF TasksOf

LEMMA PrevIsTask ==
    ASSUME NEW h \in History, NEW t \in 1..MaxHistory
    PROVE  h.prev[t] \in 1..MaxHistory <=> h.prev[t] # 0
<1>1. h.prev[t] \in 0..MaxHistory /\ MaxHistory \in Nat
      BY LineagesAssumption DEF History
<1> QED BY <1>1

(* The export's walk is closed: the tasks it does not know are of branches *)
(* that the ones before them never come to.                                *)
LEMMA ExportHasAll ==
    ASSUME NEW h \in History, IsHistory(h), NEW b \in DOMAIN Lineages, h.branch[h.stored] = b,
           NEW t \in Walk(h, 1..MaxHistory, h.stored)
    PROVE  t \in OvalHistory(h, b) \/ h.prev[t] = 0
<1> DEFINE known == TasksOf(h, Family(b))
           S == Walk(h, known, h.stored)
<1>1. h.stored \in known
      BY DEF History, TasksOf, Family
<1>2. S \in SUBSET (1..MaxHistory) /\ S \subseteq known
      BY DEF Walk, TasksOf
<1>3. h.stored \in S
      BY <1>1, WalkBegins
<1>4. ASSUME NEW v \in S, h.prev[v] \in 1..MaxHistory
      PROVE  h.prev[v] \in S
  <2>1. h.prev[v] \in known
        BY <1>2, <1>4, PrevIsTask, BranchOfTaskBefore
  <2> QED BY <2>1, WalkGoesOn
<1> HIDE DEF S, known
<1>5. t \in S
      BY <1>2, <1>3, <1>4, WalkWithin
<1> QED BY <1>5 DEF S, known, OvalHistory, Family

(* The walk along the tasks of a branch meets all of them. *)
LEMMA WalkMeetsBranch ==
    ASSUME NEW h \in History, IsHistory(h), NEW c, NEW known,
           TasksOf(h, {c}) \subseteq known, NEW W,
           W = Walk(h, known, Max(TasksOf(h, {c})))
    PROVE  TasksOf(h, {c}) \subseteq W
<1> DEFINE T == TasksOf(h, {c})
           missing == T \ W
<1>1. T \in SUBSET (0..MaxHistory) /\ MaxHistory \in Nat /\ T \subseteq 1..MaxHistory
      BY LineagesAssumption DEF TasksOf
<1>2. \A v : v \in T <=> v \in 1..MaxHistory /\ h.branch[v] = c
      BY DEF TasksOf
<1> HIDE DEF T
<1> SUFFICES ASSUME missing # {} PROVE FALSE
    BY DEF T
<1>3. PICK m : m \in missing /\ \A v \in missing : v <= m
  <2>1. missing \in SUBSET (0..MaxHistory)
        BY <1>1
  <2> HIDE DEF missing
  <2> QED BY <1>1, <2>1, MaxOfBounded
<1>4. m \in T /\ m \in 1..MaxHistory /\ m \notin W
      BY <1>1, <1>3
<1>5. Max(T) \in T /\ \A v \in T : v <= Max(T)
      BY <1>1, <1>4, MaxOfBounded
<1>6. Max(T) \in W
      BY <1>5, WalkBegins DEF T
<1> DEFINE later == {v \in T : m < v}
<1>7. later \in SUBSET (0..MaxHistory) /\ Max(T) \in later
  <2>1. m # Max(T)
        BY <1>4, <1>6
  <2>2. m <= Max(T)
        BY <1>4, <1>5
  <2>3. m \in Nat /\ Max(T) \in Nat
    <3>1. m \in 1..MaxHistory /\ Max(T) \in 1..MaxHistory
          BY <1>1, <1>4, <1>5
    <3> QED BY <3>1
  <2>4. m < Max(T)
        BY <2>1, <2>2, <2>3
  <2> QED BY <1>1, <1>5, <2>4
<1>8. PICK n : n \in later /\ \A v \in later : n <= v
  <2> HIDE DEF later
  <2> QED BY <1>1, <1>7, MinOfBounded
<1>9. n \in T /\ m < n /\ n \in 1..MaxHistory /\ n \in Nat /\ m \in Nat
      BY <1>1, <1>4, <1>8
<1>10. n \in W
  <2>1. n \notin missing
    <3> HIDE DEF missing
    <3>1. n \in missing => n <= m
          BY <1>3
    <3> QED BY <1>9, <3>1
  <2> QED BY <1>9, <2>1
<1>11. m \in Earlier(h, n)
      BY <1>2, <1>4, <1>9 DEF Earlier
<1>12. h.prev[n] = Max(Earlier(h, n)) /\ Earlier(h, n) \in SUBSET (0..MaxHistory)
      BY <1>1, <1>9, <1>11 DEF IsHistory, Earlier
<1>13. /\ h.prev[n] \in Earlier(h, n) /\ \A v \in Earlier(h, n) : v <= h.prev[n]
      BY <1>1, <1>11, <1>12, MaxOfBounded
<1>14. h.prev[n] \in T /\ h.prev[n] < n /\ m <= h.prev[n] /\ h.prev[n] \in Nat
      BY <1>1, <1>2, <1>9, <1>11, <1>13 DEF Earlier
<1>15. h.prev[n] = m
  <2>1. h.prev[n] \notin later
    <3> HIDE DEF later
    <3>1. h.prev[n] \in later => n <= h.prev[n]
          BY <1>8
    <3> QED BY <1>9, <1>14, <3>1
  <2>2. ~(m < h.prev[n])
        BY <1>14, <2>1
  <2> QED BY <1>9, <1>14, <2>2
<1>16. m \in known
      BY <1>4 DEF T
<1> QED BY <1>4, <1>10, <1>15, <1>16, WalkGoesOn DEF T

(* Where the last task of b has come from is of b and those it inherits    *)
(* from, and what is not its own is older than all its own.                *)
LEMMA AncestorsAreOlder ==
    ASSUME NEW h \in History, IsHistory(h), NEW b \in DOMAIN Lineages, NEW top \in TasksOf(h, {b}),
           NEW t \in Walk(h, 1..MaxHistory, top)
    PROVE  /\ t \in TasksOf(h, Family(b))
           /\ t \in TasksOf(h, {b}) \/ \A u \in TasksOf(h, {b}) : t < u
<1> DEFINE own == TasksOf(h, {b})
           S == {v \in TasksOf(h, Family(b)) : v \in own \/ \A u \in own : v < u}
<1>1. own \subseteq 1..MaxHistory /\ TasksOf(h, Family(b)) \subseteq 1..MaxHistory
      BY DEF TasksOf
<1>2. own \subseteq TasksOf(h, Family(b)) /\ \A v : v \in own <=> v \in 1..MaxHistory /\ h.branch[v] = b
      BY DEF TasksOf, Family
<1> HIDE DEF own
<1>3. top \in S /\ top \in 1..MaxHistory
      BY <1>1, <1>2 DEF own
<1>4. ASSUME NEW v \in S, h.prev[v] \in 1..MaxHistory
      PROVE  h.prev[v] \in S
  <2>1. v \in TasksOf(h, Family(b)) /\ v \in 1..MaxHistory /\ (v \in own \/ \A u \in own : v < u)
        BY <1>1, <1>4
  <2>2. h.prev[v] # 0
        BY <1>4, <2>1, PrevIsTask
  <2>3. h.prev[v] \in TasksOf(h, Family(b))
        BY <2>1, <2>2, BranchOfTaskBefore
  <2>4. /\ h.prev[v] < v /\ h.prev[v] \in Nat /\ v \in Nat
        /\ h.prev[v] \in Earlier(h, v) \/ Earlier(h, v) = {}
        BY <1>4, <2>1, <2>2, TaskBefore
  <2>5. h.prev[v] \in own \/ \A u \in own : h.prev[v] < u
    <3>1. CASE v \in own /\ h.prev[v] \in Earlier(h, v)
          BY <1>2, <1>4, <3>1 DEF Earlier
    <3>2. CASE v \in own /\ Earlier(h, v) = {}
      <4>1. ASSUME NEW u \in own PROVE h.prev[v] < u
        <5>1. u \in Nat /\ u \notin Earlier(h, v) /\ h.branch[u] = h.branch[v] /\ 1 <= u
              BY <1>1, <1>2, <3>2
        <5>2. ~(u < v)
              BY <2>4, <5>1 DEF Earlier
        <5> QED BY <2>4, <5>1, <5>2
      <4> QED BY <4>1
    <3>3. CASE \A u \in own : v < u
      <4>1. \A u \in own : u \in Nat
            BY <1>1
      <4> QED BY <2>4, <3>3, <4>1
    <3> QED BY <2>1, <2>4, <3>1, <3>2, <3>3
  <2> QED BY <2>3, <2>5
<1>5. S \in SUBSET (1..MaxHistory)
      BY <1>1
<1>6. t \in S
  <2> HIDE DEF S
  <2> QED BY <1>3, <1>4, <1>5, WalkWithin
<1> QED BY <1>6 DEF own

(* The walk along the branch that decides has all it has in common with    *)
(* that from the last task of b: this one enters the branch, if it comes   *)
(* past it, at one of its tasks.                                           *)
LEMMA DecidingWalkHasAll ==
    ASSUME NEW h \in History, IsHistory(h), NEW b \in DOMAIN Lineages, NEW top \in TasksOf(h, {b}),
           NEW i \in 1..Len(Lineages[b]), NEW c, c = Lineages[b][i],
           NEW known, TasksOf(h, Family(c)) \subseteq known,
           NEW W, W = Walk(h, known, Max(TasksOf(h, {c}))),
           NEW t \in Walk(h, 1..MaxHistory, top), h.branch[t] \in Family(c)
    PROVE  t \in W
<1> DEFINE S == {v \in TasksOf(h, Family(b)) : h.branch[v] \in Family(c) => v \in W}
<1>1. TasksOf(h, {c}) \subseteq W
  <2>1. TasksOf(h, {c}) \subseteq known
        BY DEF TasksOf, Family
  <2> QED BY <2>1, WalkMeetsBranch
<1>2. Len(Lineages[b]) \in Nat /\ DOMAIN Lineages[b] = 1..Len(Lineages[b])
      BY Lineage
<1>3. c \in Inherited(b) /\ c \in Family(b)
      BY <1>2 DEF Inherited, Family
<1>4. \A k \in 1..Len(Lineages[b]) : Lineages[b][k] \in Family(c) <=> k >= i
      BY FamilyFromPlace
<1>5. b \notin Family(c)
  <2>1. Inherited(c) \subseteq Inherited(b)
    <3>1. PICK j \in 1..Len(Lineages[b]) : j = i
          OBVIOUS
    <3>2. /\ c \in DOMAIN Lineages
          /\ \A k \in 1..Len(Lineages[c]) : i + k \in 1..Len(Lineages[b]) /\ Lineages[c][k] = Lineages[b][i + k]
          BY Nested
    <3>3. DOMAIN Lineages[c] = 1..Len(Lineages[c])
          BY <3>2, Lineage
    <3> QED BY <1>2, <3>2, <3>3 DEF Inherited
  <2> QED BY <1>3, <2>1, PlacesDiffer DEF Family
<1>6. top \in S /\ top \in 1..MaxHistory
      BY <1>5 DEF TasksOf, Family
<1>7. ASSUME NEW v \in S, h.prev[v] \in 1..MaxHistory
      PROVE  h.prev[v] \in S
  <2>1. v \in TasksOf(h, Family(b)) /\ v \in 1..MaxHistory /\ h.branch[v] \in Family(b)
        BY DEF TasksOf
  <2>2. h.prev[v] # 0
        BY <1>7, <2>1, PrevIsTask
  <2>3. h.prev[v] \in TasksOf(h, Family(b))
        BY <2>1, <2>2, BranchOfTaskBefore
  <2>4. ASSUME h.branch[h.prev[v]] \in Family(c)
        PROVE  h.prev[v] \in W
    <3>1. h.prev[v] \in TasksOf(h, Family(c))
          BY <1>7, <2>4 DEF TasksOf
    <3>2. CASE h.branch[v] \in Family(c)
      <4>1. v \in W
            BY <3>2
      <4> QED BY <3>1, <4>1, WalkGoesOn
    <3>3. CASE h.branch[v] \notin Family(c)
      <4>1. h.branch[h.prev[v]] # h.branch[v]
            BY <2>4, <3>3
      <4>2. Lineages[h.branch[v]] # <<>> /\ h.branch[h.prev[v]] = Lineages[h.branch[v]][1]
            BY <2>1, <2>2, <4>1, TaskBefore DEF Earlier
      <4>3. PICK k \in 1..Len(Lineages[b]) :
                /\ h.branch[h.prev[v]] = Lineages[b][k]
                /\ k = 1 \/ (k - 1 \in 1..Len(Lineages[b]) /\ h.branch[v] = Lineages[b][k - 1])
        <5>1. CASE h.branch[v] = b
          <6>1. 1 \in 1..Len(Lineages[b])
                BY <1>2
          <6> QED BY <4>2, <5>1, <6>1
        <5>2. CASE h.branch[v] \in Inherited(b)
          <6>1. PICK j \in 1..Len(Lineages[b]) : h.branch[v] = Lineages[b][j]
                BY <1>2, <5>2 DEF Inherited
          <6>2. PICK d : d = h.branch[v]
                OBVIOUS
          <6>3. /\ d \in DOMAIN Lineages
                /\ \A k \in 1..Len(Lineages[d]) : j + k \in 1..Len(Lineages[b]) /\ Lineages[d][k] = Lineages[b][j + k]
                BY <6>1, <6>2, Nested
          <6>4. 1 \in 1..Len(Lineages[d])
            <7>1. PICK list \in Seq(DOMAIN Lineages) : list = Lineages[d]
                  BY <6>3, Lineage
            <7> QED BY <4>2, <6>2, <7>1
          <6>5. j + 1 \in 1..Len(Lineages[b]) /\ h.branch[h.prev[v]] = Lineages[b][j + 1]
                BY <4>2, <6>2, <6>3, <6>4
          <6>6. (j + 1) - 1 = j
                BY <1>2
          <6> QED BY <6>1, <6>5, <6>6
        <5> QED BY <2>1, <5>1, <5>2 DEF Family
      <4>4. k >= i
            BY <1>4, <2>4, <4>3
      <4>5. k = 1 \/ ~(k - 1 >= i)
            BY <1>4, <3>3, <4>3
      <4>6. k = i
            BY <1>2, <4>4, <4>5
      <4>7. h.prev[v] \in TasksOf(h, {c})
            BY <1>7, <4>3, <4>6 DEF TasksOf
      <4> QED BY <1>1, <4>7
    <3> QED BY <3>2, <3>3
  <2> QED BY <2>3, <2>4
<1>8. S \in SUBSET (1..MaxHistory)
      BY DEF TasksOf
<1>9. t \in S
  <2> HIDE DEF S
  <2> QED BY <1>6, <1>7, <1>8, WalkWithin
<1> QED BY <1>9

LEMMA CandidatesAreTasks ==
    ASSUME NEW h, NEW b
    PROVE  /\ Candidates(h, b) \subseteq TasksOf(h, Family(b))
           /\ Candidates(h, b) \in SUBSET (0..MaxHistory)
           /\ UntilFirstOwn(h, b) \subseteq Candidates(h, b)
           /\ PackageHistory(h, b) \subseteq UntilFirstOwn(h, b)
           /\ h.built \cap TasksOf(h, {b}) \subseteq Candidates(h, b)
<1>1. Candidates(h, b) \subseteq TasksOf(h, Family(b))
      BY DEF Candidates, Family
<1>2. \A B : TasksOf(h, B) \subseteq 0..MaxHistory
      BY LineagesAssumption DEF TasksOf
<1>3. UntilFirstOwn(h, b) \subseteq Candidates(h, b)
      BY DEF UntilFirstOwn
<1>4. PackageHistory(h, b) \subseteq UntilFirstOwn(h, b)
      BY DEF PackageHistory
<1>5. h.built \cap TasksOf(h, {b}) \subseteq Candidates(h, b)
      BY DEF Candidates, TasksOf
<1> QED BY <1>1, <1>2, <1>3, <1>4, <1>5

LEMMA NothingLaterIsTaken ==
    ASSUME NEW h, NEW b, NEW t \in PackageHistory(h, b), NEW u \in h.built \cap TasksOf(h, {b})
    PROVE  t <= u
<1> DEFINE ownBuilt == Candidates(h, b) \cap TasksOf(h, {b})
<1>1. t \in UntilFirstOwn(h, b) /\ u \in ownBuilt
      BY CandidatesAreTasks
<1>2. t <= FirstOwn(h, b) /\ t \in Candidates(h, b)
      BY <1>1 DEF UntilFirstOwn
<1>3. ownBuilt \in SUBSET (0..MaxHistory) /\ MaxHistory \in Nat /\ FirstOwn(h, b) = Min(ownBuilt)
      BY CandidatesAreTasks, LineagesAssumption DEF FirstOwn
<1> HIDE DEF ownBuilt
<1>4. FirstOwn(h, b) \in ownBuilt /\ FirstOwn(h, b) <= u
  <2>1. ownBuilt # {}
        BY <1>1
  <2>2. Min(ownBuilt) \in ownBuilt /\ \A y \in ownBuilt : Min(ownBuilt) <= y
        BY <1>3, <2>1, MinOfBounded
  <2> QED BY <1>1, <1>3, <2>2
<1>5. t \in Nat /\ u \in Nat /\ FirstOwn(h, b) \in Nat
  <2>1. Candidates(h, b) \in SUBSET (0..MaxHistory)
        BY CandidatesAreTasks
  <2>2. t \in 0..MaxHistory
        BY <1>2, <2>1
  <2>3. u \in 0..MaxHistory /\ FirstOwn(h, b) \in 0..MaxHistory
        BY <1>1, <1>3, <1>4
  <2>4. 0..MaxHistory \subseteq Nat
        BY <1>3
  <2> QED BY <2>2, <2>3, <2>4
<1> QED BY <1>2, <1>4, <1>5

LEMMA AncestorsAreTaken ==
    ASSUME NEW h \in History, IsHistory(h), NEW b \in DOMAIN Lineages, NEW top \in TasksOf(h, {b}),
           NEW t \in Walk(h, 1..MaxHistory, top), t \in h.built, t \notin TasksOf(h, {b})
    PROVE  t \in PackageHistory(h, b)
<1>1. t \in TasksOf(h, Family(b)) /\ \A u \in TasksOf(h, {b}) : t < u
      BY AncestorsAreOlder
<1>2. t \in Candidates(h, b) /\ t \in 1..MaxHistory
      BY <1>1 DEF Candidates, Family, TasksOf
<1>3. t \in UntilFirstOwn(h, b)
  <2> DEFINE ownBuilt == Candidates(h, b) \cap TasksOf(h, {b})
  <2>1. CASE ownBuilt = {}
        BY <1>2, <2>1 DEF UntilFirstOwn
  <2>2. CASE ownBuilt # {}
    <3>1. ownBuilt \in SUBSET (0..MaxHistory) /\ MaxHistory \in Nat /\ FirstOwn(h, b) = Min(ownBuilt)
          BY CandidatesAreTasks, LineagesAssumption DEF FirstOwn
    <3>2. FirstOwn(h, b) \in ownBuilt
      <4> HIDE DEF ownBuilt
      <4> QED BY <2>2, <3>1, MinOfBounded
    <3>3. t < FirstOwn(h, b)
          BY <1>1, <3>2
    <3>4. t \in Nat /\ FirstOwn(h, b) \in Nat
      <4>1. t \in 1..MaxHistory /\ FirstOwn(h, b) \in 0..MaxHistory
            BY <1>2, <3>1, <3>2
      <4> QED BY <4>1
    <3>5. t <= FirstOwn(h, b)
          BY <3>3, <3>4
    <3> QED BY <1>2, <2>2, <3>5 DEF UntilFirstOwn
  <2> QED BY <2>1, <2>2
<1>4. CASE WithTasks(h, b) = {}
      BY <1>3, <1>4 DEF PackageHistory
<1>5. CASE WithTasks(h, b) # {}
  <2>1. Len(Lineages[b]) \in Nat /\ DOMAIN Lineages[b] = 1..Len(Lineages[b])
        BY Lineage
  <2>2. WithTasks(h, b) \in SUBSET (0..Len(Lineages[b]))
        BY <2>1 DEF WithTasks
  <2>3. PICK i : /\ i = Min(WithTasks(h, b)) /\ i \in WithTasks(h, b)
                 /\ \A k \in WithTasks(h, b) : i <= k
        BY <1>5, <2>1, <2>2, MinOfBounded
  <2>4. i \in 1..Len(Lineages[b])
        BY <2>1, <2>3 DEF WithTasks
  <2>5. PICK c : c = Lineages[b][i]
        OBVIOUS
  <2>6. h.branch[t] \in Family(c)
    <3>1. PICK k \in 1..Len(Lineages[b]) : h.branch[t] = Lineages[b][k]
      <4>1. h.branch[t] \in Inherited(b)
            BY <1>1 DEF TasksOf, Family
      <4> QED BY <2>1, <4>1 DEF Inherited
    <3>2. t \in UntilFirstOwn(h, b) \cap TasksOf(h, {Lineages[b][k]})
          BY <1>2, <1>3, <3>1 DEF TasksOf
    <3>3. k \in WithTasks(h, b)
          BY <2>1, <3>2 DEF WithTasks
    <3>4. k >= i
          BY <2>3, <2>4, <3>1, <3>3
    <3> QED BY <2>4, <2>5, <3>1, <3>4, FamilyFromPlace
  <2>7. Family(c) \subseteq HistoryBranches(h, b)
    <3>1. PICK u \in UntilFirstOwn(h, b) : u \in TasksOf(h, {c})
          BY <2>3, <2>5 DEF WithTasks
    <3>2. c \in {h.branch[v] : v \in Candidates(h, b)}
          BY <3>1, CandidatesAreTasks DEF TasksOf
    <3> QED BY <3>2 DEF HistoryBranches, Family
  <2>8. TasksOf(h, Family(c)) \subseteq TasksOf(h, HistoryBranches(h, b))
        BY <2>7 DEF TasksOf
  <2>9. t \in BranchHistory(h, b, c)
        BY <2>4, <2>5, <2>6, <2>8, DecidingWalkHasAll DEF BranchHistory
  <2> QED BY <1>2, <1>3, <1>5, <2>3, <2>5, <2>9 DEF PackageHistory
<1> QED BY <1>4, <1>5

LEMMA AllAncestorsCount ==
    ASSUME NEW h \in History, IsHistory(h)
    PROVE  AncestorsCount(h, BranchHistories(h))
<1> DEFINE histories == BranchHistories(h)
<1> SUFFICES ASSUME NEW b \in DOMAIN Lineages
             PROVE  LET own == TasksOf(h, {b})
                        ancestors == IF own = {} THEN {} ELSE Walk(h, 1..MaxHistory, Max(own))
                    IN  /\ (h.built \cap ancestors) \ own \subseteq histories[b].package
                        /\ \A t \in histories[b].package, u \in h.built \cap own : t <= u
                        /\ h.branch[h.stored] = b =>
                              \A t \in Walk(h, 1..MaxHistory, h.stored) :
                                  t \in histories[b].oval \/ h.prev[t] = 0
    BY DEF AncestorsCount
<1>1. /\ histories[b].package = PackageHistory(h, b)
      /\ h.branch[h.stored] = b => histories[b].oval = OvalHistory(h, b)
      BY DEF BranchHistories
<1> HIDE DEF histories
<1> DEFINE own == TasksOf(h, {b})
<1>2. ASSUME own # {}, NEW t \in h.built, t \in Walk(h, 1..MaxHistory, Max(own)), t \notin own
      PROVE  t \in PackageHistory(h, b)
  <2>1. own \in SUBSET (0..MaxHistory) /\ MaxHistory \in Nat
        BY LineagesAssumption DEF TasksOf
  <2>2. Max(own) \in own
    <3> HIDE DEF own
    <3> QED BY <1>2, <2>1, MaxOfBounded
  <2> QED BY <1>2, <2>2, AncestorsAreTaken
<1>3. \A t \in PackageHistory(h, b), u \in h.built \cap own : t <= u
      BY NothingLaterIsTaken
<1>4. h.branch[h.stored] = b =>
         \A t \in Walk(h, 1..MaxHistory, h.stored) : t \in OvalHistory(h, b) \/ h.prev[t] = 0
      BY ExportHasAll
<1> HIDE DEF own
<1> QED BY <1>1, <1>2, <1>3, <1>4 DEF own

-----------------------------------------------------------------------------
(* The requests in one program.  A request that replies gives the answer   *)
(* to its question, once; the state machines take only steps of their own, *)
(* or none.                                                                *)
QuestionIsOfKind ==
    /\ kind = "task_history" => question \in Histories
    /\ kind = "vuln_fixes" => question \in Cases
    /\ kind = "misconflict" => question \in TableSets
    /\ kind = "pagination" => question \in Pagings

AnswerIsOfKind ==
    /\ Answered("task_history") => answer = <<BranchHistories(question)>>
    /\ Answered("vuln_fixes") => answer = <<Fixes(question)>>
    /\ Answered("misconflict") => answer = <<Report(question)>>
    /\ Answered("pagination") => answer = <<Pages(question.list, question.limit)>>

QueriesInv ==
    /\ QuestionIsOfKind /\ AnswerIsOfKind
    /\ TaskRepoInv
    /\ DependenciesInv /\ NothingUnrelated
    /\ IF kind = "backport" THEN BackportInv ELSE answered = FALSE
    /\ SortInv

LEMMA QueriesInvInit == QueriesInit => QueriesInv
<1> SUFFICES ASSUME QueriesInit PROVE QueriesInv
    OBVIOUS
<1>1. question \in Questions /\ answer = NotAsked
      BY DEF QueriesInit
<1>2. QuestionIsOfKind
      BY <1>1 DEF Questions, QuestionIsOfKind
<1>3. AnswerIsOfKind
      BY <1>1 DEF AnswerIsOfKind, Answered
<1>4. TaskRepoInv
  <2>1. kind # "task_repo" => BranchInit
    <3>1. ASSUME NoBranch PROVE BranchInit
      <4>1. [k \in 0..MaxTasks |-> IF k = 0 THEN {} ELSE {}] = [k \in 0..MaxTasks |-> {}]
            OBVIOUS
      <4>2. contents = [k \in 0..MaxTasks |-> IF k = 0 THEN {} ELSE {}] /\ {} \in SUBSET Pkgs
            BY <3>1, <4>1 DEF NoBranch
      <4>3. contents \in {[k \in 0..MaxTasks |-> IF k = 0 THEN pkgs ELSE {}] : pkgs \in SUBSET Pkgs}
            BY <4>2
      <4> QED BY <3>1, <4>3 DEF NoBranch, BranchInit
    <3> QED BY <3>1 DEF QueriesInit
  <2>2. BranchInit /\ BuildIdle
        BY <2>1 DEF QueriesInit
  <2> QED BY <2>2, TaskRepoInvInit DEF TaskRepoInit
<1>5. DependenciesInv /\ NothingUnrelated
  <2>1. NoCatalog => catalog \in Catalog
        BY DEF NoCatalog, Catalog
  <2>2. catalog \in Catalog /\ DependenciesIdle
        BY <2>1, PackagesAssumption DEF QueriesInit
  <2> QED BY <2>2, DependenciesInvInit, UnrelatedInit
<1>6. IF kind = "backport" THEN BackportInv ELSE answered = FALSE
  <2>1. BackportIdle /\ (kind = "backport" => backport \in Backports)
        BY DEF QueriesInit
  <2>2. kind = "backport" => BackportInv
        BY <2>1, BackportInvInit DEF BackportInit
  <2>3. answered = FALSE
        BY <2>1 DEF BackportIdle
  <2> QED BY <2>2, <2>3
<1>7. SortInv
  <2>1. NoSort => packageReqs \in Requirements
        BY DEF NoSort, Requirements
  <2>2. packageReqs \in Requirements /\ SortIdle
        BY <2>1 DEF QueriesInit
  <2> QED BY <2>2, SortInvInit
<1> QED BY <1>2, <1>3, <1>4, <1>5, <1>6, <1>7 DEF QueriesInv

LEMMA QueriesStep ==
    ASSUME [QueriesNext]_allVars
    PROVE  /\ [TaskRepoNext]_taskRepoVars
           /\ [DependenciesNext]_dependencyVars
           /\ [SortNext]_sortVars
           /\ IF kind = "backport" THEN [BackportNext]_backportVars ELSE UNCHANGED backportVars
           /\ kind' = kind /\ question' = question
           /\ \/ answer' = answer
              \/ kind = "task_history" /\ answer' = <<BranchHistories(question)>>
              \/ kind = "vuln_fixes" /\ answer' = <<Fixes(question)>>
              \/ kind = "misconflict" /\ answer' = <<Report(question)>>
              \/ kind = "pagination" /\ answer' = <<Pages(question.list, question.limit)>>
<1>1. CASE UNCHANGED allVars
      BY <1>1 DEF allVars, queriesVars
<1>2. CASE /\ kind = "task_repo" /\ TaskRepoNext
           /\ UNCHANGED <<queriesVars, dependencyVars, backportVars, sortVars>>
      BY <1>2 DEF queriesVars
<1>3. CASE /\ kind = "build_dependency_set" /\ DependenciesNext
           /\ UNCHANGED <<queriesVars, taskRepoVars, backportVars, sortVars>>
      BY <1>3 DEF queriesVars
<1>4. CASE /\ kind = "backport" /\ BackportNext
           /\ UNCHANGED <<queriesVars, taskRepoVars, dependencyVars, sortVars>>
      BY <1>4 DEF queriesVars
<1>5. CASE /\ kind = "dependency_sort" /\ SortNext
           /\ UNCHANGED <<queriesVars, taskRepoVars, dependencyVars, backportVars>>
      BY <1>5 DEF queriesVars
<1>6. CASE kind = "task_history" /\ Reply(BranchHistories(question))
      BY <1>6 DEF Reply
<1>7. CASE kind = "vuln_fixes" /\ Reply(Fixes(question))
      BY <1>7 DEF Reply
<1>8. CASE kind = "misconflict" /\ Reply(Report(question))
      BY <1>8 DEF Reply
<1>9. CASE kind = "pagination" /\ Reply(Pages(question.list, question.limit))
      BY <1>9 DEF Reply
<1> QED BY <1>1, <1>2, <1>3, <1>4, <1>5, <1>6, <1>7, <1>8, <1>9 DEF QueriesNext

LEMMA QueriesInvStep == ASSUME QueriesInv, [QueriesNext]_allVars PROVE QueriesInv'
<1>1. kind' = kind /\ question' = question
      BY QueriesStep
<1>2. QuestionIsOfKind'
      BY <1>1 DEF QueriesInv, QuestionIsOfKind
<1>3. AnswerIsOfKind'
  <2>1. PICK histories, fixes, report, pages :
            /\ histories = BranchHistories(question) /\ fixes = Fixes(question)
            /\ report = Report(question) /\ pages = Pages(question.list, question.limit)
        OBVIOUS
  <2>2. /\ BranchHistories(question)' = histories /\ Fixes(question)' = fixes
        /\ Report(question)' = report /\ Pages(question.list, question.limit)' = pages
        BY <1>1, <2>1
  <2>3. \/ answer' = answer
        \/ kind = "task_history" /\ answer' = <<histories>>
        \/ kind = "vuln_fixes" /\ answer' = <<fixes>>
        \/ kind = "misconflict" /\ answer' = <<report>>
        \/ kind = "pagination" /\ answer' = <<pages>>
        BY <2>1, QueriesStep
  <2>4. /\ kind = "task_history" /\ answer # NotAsked => answer = <<histories>>
        /\ kind = "vuln_fixes" /\ answer # NotAsked => answer = <<fixes>>
        /\ kind = "misconflict" /\ answer # NotAsked => answer = <<report>>
        /\ kind = "pagination" /\ answer # NotAsked => answer = <<pages>>
        BY <2>1 DEF QueriesInv, AnswerIsOfKind, Answered
  <2>5. /\ kind = "task_history" /\ answer' # NotAsked => answer' = <<histories>>
        /\ kind = "vuln_fixes" /\ answer' # NotAsked => answer' = <<fixes>>
        /\ kind = "misconflict" /\ answer' # NotAsked => answer' = <<report>>
        /\ kind = "pagination" /\ answer' # NotAsked => answer' = <<pages>>
        BY <2>3, <2>4
  <2> QED BY <1>1, <2>2, <2>5 DEF AnswerIsOfKind, Answered, NotAsked
<1>4. TaskRepoInv'
      BY QueriesStep, TaskRepoInvStep DEF QueriesInv
<1>5. DependenciesInv' /\ NothingUnrelated'
      BY QueriesStep, DependenciesInvStep, UnrelatedStep DEF QueriesInv
<1>6. (IF kind = "backport" THEN BackportInv ELSE answered = FALSE)'
  <2>1. CASE kind = "backport"
        BY <1>1, <2>1, QueriesStep, BackportInvStep DEF QueriesInv
  <2>2. CASE kind # "backport"
        BY <1>1, <2>2, QueriesStep DEF QueriesInv, backportVars
  <2> QED BY <2>1, <2>2
<1>7. SortInv'
      BY QueriesStep, SortInvStep DEF QueriesInv
<1> QED BY <1>2, <1>3, <1>4, <1>5, <1>6, <1>7 DEF QueriesInv

(* What the requests keep is an invariant of all of them in one program.   *)
THEOREM QueriesInvariant == QueriesSpec => []QueriesInv
<1> QED BY QueriesInvInit, QueriesInvStep, PTL DEF QueriesSpec

(* No answer and no step of a request leaves what it is made of. *)
THEOREM QueriesTypeCorrect == QueriesSpec => []QueriesTypeOK
<1>1. ASSUME QueriesInv PROVE QueriesTypeOK
  <2>1. Answered("vuln_fixes") => answer[1] \subseteq Record
    <3>1. ASSUME Answered("vuln_fixes") PROVE answer[1] \subseteq Record
      <4>1. question \in Case /\ answer[1] = Fixes(question)
            BY <1>1, <3>1, QueriesAssumption
            DEF QueriesInv, QuestionIsOfKind, AnswerIsOfKind, Answered
      <4> QED BY <4>1, FixesAreRecords
    <3> QED BY <3>1
  <2>2. Answered("pagination") => answer[1] \in Seq(Seq(Range(question.list)))
    <3>1. ASSUME Answered("pagination") PROVE answer[1] \in Seq(Seq(Range(question.list)))
      <4>1. /\ question.list \in Seq(Range(question.list)) /\ question.limit \in Int
            /\ answer[1] = Pages(question.list, question.limit)
            BY <1>1, <3>1, QueriesAssumption
            DEF QueriesInv, QuestionIsOfKind, AnswerIsOfKind, Answered
      <4> QED BY <4>1, PagesShowTheList
    <3> QED BY <3>1
  <2>3. TaskRepoTypeOK /\ DependenciesTypeOK /\ SortTypeOK /\ (kind = "backport" => BackportTypeOK)
        BY <1>1 DEF QueriesInv, TaskRepoInv, DependenciesInv, SortInv, BackportInv
  <2> QED BY <2>1, <2>2, <2>3 DEF QueriesTypeOK
<1> QED BY <1>1, QueriesInvariant, PTL

(* A package is said to be fixed only where an erratum that counts says so *)
(* (common.py:1002-1072).                                                  *)
THEOREM FixesNeedErrata == QueriesSpec => []FixedOnlyByErratum
<1>1. ASSUME QueriesInv, Answered("vuln_fixes")
      PROVE  FixedIsJustified(question, answer[1])
  <2>1. question \in Case /\ answer[1] = Fixes(question)
        BY <1>1, QueriesAssumption DEF QueriesInv, QuestionIsOfKind, AnswerIsOfKind, Answered
  <2> QED BY <2>1, FixesAreJustified
<1>2. QueriesInv => FixedOnlyByErratum
      BY <1>1 DEF FixedOnlyByErratum
<1> QED BY <1>2, QueriesInvariant, PTL

(* No affected package is cleared or lost on the way (common.py:1089-1109). *)
THEOREM NoAffectedIsLost == QueriesSpec => []AffectedNeverLost
<1>1. ASSUME QueriesInv, Answered("vuln_fixes")
      PROVE  AffectedIsAnswered(question, answer[1])
  <2>1. question \in Case /\ answer[1] = Fixes(question)
        BY <1>1, QueriesAssumption DEF QueriesInv, QuestionIsOfKind, AnswerIsOfKind, Answered
  <2> QED BY <2>1, FixesAnswerAll
<1>2. QueriesInv => AffectedNeverLost
      BY <1>1 DEF AffectedNeverLost
<1> QED BY <1>2, QueriesInvariant, PTL

(* The errata of the tasks a branch has come from count, and what its      *)
(* export has of them is complete (common.py:523-600, oval.py:94-96).      *)
THEOREM AncestorsAreCounted == QueriesSpec => []AncestryCounts
<1>1. ASSUME QueriesInv, Answered("task_history")
      PROVE  AncestorsCount(question, answer[1])
  <2>1. question \in History /\ IsHistory(question) /\ answer[1] = BranchHistories(question)
        BY <1>1, QueriesAssumption DEF QueriesInv, QuestionIsOfKind, AnswerIsOfKind, Answered
  <2> QED BY <2>1, AllAncestorsCount
<1>2. QueriesInv => AncestryCounts
      BY <1>1 DEF AncestryCounts
<1> QED BY <1>2, QueriesInvariant, PTL

(* Files that differ are reported for the packages that have them, and     *)
(* others are not (misconflict_packages.py:259-424).                       *)
THEOREM DifferencesAreReported == QueriesSpec => []MisconflictsReported
<1>1. ASSUME QueriesInv, Answered("misconflict")
      PROVE  DifferencesReported(question, answer[1])
  <2>1. question \in Tables /\ AsksAboutInputs(question) /\ answer[1] = Report(question)
        BY <1>1, QueriesAssumption DEF QueriesInv, QuestionIsOfKind, AnswerIsOfKind, Answered
  <2> QED BY <2>1, ReportsAreRight
<1>2. QueriesInv => MisconflictsReported
      BY <1>1 DEF MisconflictsReported
<1> QED BY <1>2, QueriesInvariant, PTL

(* The pages of a list show all of it in its order (pagination.py:27-62). *)
THEOREM PagesAreComplete == QueriesSpec => []PagesShowAll
<1>1. ASSUME QueriesInv, Answered("pagination")
      PROVE  PagesAreTheList(question.list, answer[1])
  <2>1. /\ question.list \in Seq(Range(question.list)) /\ question.limit \in Int
        /\ answer[1] = Pages(question.list, question.limit)
        BY <1>1, QueriesAssumption DEF QueriesInv, QuestionIsOfKind, AnswerIsOfKind, Answered
  <2> QED BY <2>1, PagesShowTheList
<1>2. QueriesInv => PagesShowAll
      BY <1>1 DEF PagesShowAll
<1> QED BY <1>2, QueriesInvariant, PTL

(* When the sort has ended each package is listed after what it requires,  *)
(* and the part for a leaf has all it needs (dependency_sorting.py:46-57,  *)
(* pkg_build_dependency.py:482-499).                                       *)
THEOREM BuildOrderIsRight == QueriesSpec => []BuildOrder
<1>1. QueriesInv => BuildOrder
      BY InvRequiredComesFirst, InvLeafIsComplete DEF QueriesInv, BuildOrder
<1> QED BY <1>1, QueriesInvariant, PTL

(* What the requests that go from statement to statement promise, they     *)
(* promise in one program with the others, too.                            *)
THEOREM StatementsKeepPromises ==
    QueriesSpec => [](/\ NothingMissing /\ ExactUnlessReplaced
                      /\ NothingUnrelated /\ RequirementsMetUnlessOverruled
                      /\ ListIsComplete)
<1>1. QueriesInv => NothingMissing /\ ExactUnlessReplaced
      BY InvNothingMissing, InvExact DEF QueriesInv
<1>2. QueriesInv => NothingUnrelated /\ RequirementsMetUnlessOverruled
      BY InvRequirementsMet DEF QueriesInv
<1>3. QueriesInv => ListIsComplete
      BY InvListIsComplete DEF QueriesInv, ListIsComplete
<1> QED BY <1>1, <1>2, <1>3, QueriesInvariant, PTL
=============================================================================
