----------------------------- MODULE MCQueries -----------------------------
(* Small instances of the requests that compute something. *)
EXTENDS Queries, SequencesExt

CONSTANTS s1, s2, v1, v2

Few(n) == {S \in SUBSET Names : Cardinality(S) <= n}

(* Two source packages, three binary ones that may require each other,     *)
(* name 4 provided by several of them, name 1 by another one than 1.       *)
MCCatalogs ==
    { [requires |-> (s1 :> r1) @@ (s2 :> r2) @@ r,
       provides |-> [b \in Bins |-> {b} \cup (IF b \in p4 THEN {4} ELSE {})
                                      \cup (IF b \in p1 THEN {1} ELSE {})]] :
        r1 \in Few(2), r2 \in {{}, {1}, {4}}, r \in [Bins -> Few(1)],
        p4 \in {{1, 2}, {2, 3}, {1, 2, 3}}, p1 \in {{1}, {3}} }

(* Ranges without a version, with one or two bounds, with an excluded one, *)
(* with a start and no end, and one for another CPE.                       *)
R(start, se, end, ee) ==
    [cpe |-> "ours", start |-> start, startExcluded |-> se, end |-> end, endExcluded |-> ee]
MCRanges ==
    { {}, {R(0, FALSE, 0, FALSE)}, {R(0, FALSE, 1, FALSE)}, {R(0, FALSE, 2, TRUE)},
      {R(1, TRUE, 2, FALSE)}, {R(1, FALSE, 0, FALSE)},
      {[R(0, FALSE, 2, FALSE) EXCEPT !.cpe = "other"]},
      {[R(0, FALSE, 2, FALSE) EXCEPT !.cpe = "other"], R(2, FALSE, 2, FALSE)} }

MCCases ==
    { [version |-> version, ranges |-> (v1 :> r1) @@ (v2 :> r2), erratas |-> erratas,
       taskless |-> taskless] :
        version \in {1, 2}, r1 \in MCRanges,
        r2 \in {{R(0, FALSE, 0, FALSE)}, {R(0, FALSE, 1, FALSE)}},
        erratas \in {{e, f} : e, f \in [branch : Branches, state : {"none", "DONE", "EPERM", "DELETED"},
                                        version : {1, 2}, vulns : {{v1}, {v1, v2}}]},
        taskless \in {{}, {"own"}} }

(* Up to two rows; 3 and 4 may be one package for two architectures. *)
MCRows ==
    [input : {1, 2}, other : {3, 4}, files : {{"f"}, {"f", "g"}}]
MCTableSets ==
    { [name |-> <<1, 2, 3, n>>, inputs |-> {1, 2}, rows |-> rows,
       equal |-> {<<1, 3, "f">>, <<1, 4, "f">>} \cup equal, declared |-> declared] :
        n \in {3, 4},
        rows \in {s \in BoundedSeq(MCRows, 2) : \A i, j \in DOMAIN s :
                    i # j => <<s[i].input, s[i].other>> # <<s[j].input, s[j].other>>},
        equal \in SUBSET {<<1, 3, "g">>, <<2, 3, "f">>},
        declared \in SUBSET {<<1, 3>>, <<3, 1>>, <<2, 4>>, <<4, 1>>} }

(* Each branch but the first one is forked from the one before it. *)
MCLineages == [x |-> <<"c", "p", "s">>, c |-> <<"p", "s">>, p |-> <<"s">>, s |-> <<>>]
MCHistories ==
    LET prev(branch, fork) == [t \in 1..MaxHistory |->
            LET same == {u \in 1..(t - 1) : branch[u] = branch[t]}
            IN  IF same # {} THEN Max(same) ELSE fork[branch[t]]]
        from == [s : {0}, p : 1..3, c : 2..4, x : 3..4]
        tasks == {h \in [branch : [1..MaxHistory -> DOMAIN Lineages],
                         prev : {<<>>}, built : {{}}, stored : {MaxHistory}] : h.branch[1] = "s"}
        shapes == {h \in {[g EXCEPT !.prev = prev(g.branch, f)] : g \in tasks, f \in from} :
                     IsHistory(h)}
    IN  {[h EXCEPT !.built = of, !.stored = last] :
            h \in shapes, of \in SUBSET (1..MaxHistory), last \in {MaxHistory - 1, MaxHistory}}

(* Two source packages with one or two binary packages; m of s1 is asked   *)
(* for.  Names that two packages provide, or one package two of them.      *)
Req(n) == [name |-> n, newer |-> FALSE]
NewReq(n) == [name |-> n, newer |-> TRUE]
MCBackports ==
    { [requires |-> [p \in Srpms \cup Rpms |->
                        CASE p = s1 -> rs [] p = 1 -> r1 [] p = 2 -> r2 [] p = 3 -> r3 [] OTHER -> {}],
       provides |-> <<{"m"}, p2, p3>>, srpm |-> <<s1, s2, s2>>,
       arch |-> [p \in Rpms |-> IF p = 3 THEN a3 ELSE "x86_64"],
       into |-> into, assumed |-> {"rpmlib"}, names |-> {"m"}, dpType |-> type] :
        rs \in {{}, {Req("x")}},
        r1 \in {{Req("x")}, {NewReq("x"), Req("y"), Req("rpmlib")}},
        r2 \in {{}, {Req("m")}, {NewReq("y"), Req("z")}},
        r3 \in {{}, {Req("z")}, {Req("x"), Req("m")}},
        p2 \in {{"x"}, {"x", "z"}}, p3 \in {{"y"}, {"x", "y"}},
        a3 \in {"noarch", "x86_64"},
        into \in SUBSET {[name |-> "x", newer |-> FALSE, arch |-> "noarch"],
                         [name |-> "y", newer |-> FALSE, arch |-> "x86_64"]},
        type \in {"both", "source", "binary"} }

MCPagings == [list : {[i \in 1..n |-> i] : n \in 0..5}, limit : -1..6]
=============================================================================
