--------------------------- MODULE DependencySort ---------------------------
(***************************************************************************)
(* The order in which source packages can be built one after another,      *)
(* altrepo_api/libs/dependency_sorting.py, and the part of it a leaf       *)
(* package needs, api/package/endpoints/pkg_build_dependency.py.  Packages *)
(* are numbers in the order of the dictionary package_reqs; none is among  *)
(* its own requirements and each requirement is in the dictionary          *)
(* (get_all_filtred_pkgs_with_deps).                                       *)
(***************************************************************************)
EXTENDS Naturals, Sequences, FiniteSets, Functions

CONSTANT MaxPackages   \* how many packages there are

ASSUME MaxPackagesAssumption == MaxPackages \in Nat

VARIABLES
    packageReqs,  \* packageReqs[p]: the packages p requires
    calls,        \* the vertices whose calls are going on, the newest first
    visited,
    stack         \* the vertices whose calls have ended, the newest first

sortVars == <<packageReqs, calls, visited, stack>>

Packages == 1..MaxPackages
Requirements == {r \in [Packages -> SUBSET Packages] : \A p \in Packages : p \notin r[p]}

SortIdle == calls = <<>> /\ visited = {} /\ stack = <<>>

SortInit == packageReqs \in Requirements /\ SortIdle

-----------------------------------------------------------------------------
(* Packages that require each other; circle_deps has the length of the     *)
(* requirements of the second one.                                         *)
Circular(p, q) == p # q /\ q \in packageReqs[p] /\ p \in packageReqs[q]

(* Of two packages that require each other the one with the longer list    *)
(* loses the requirement; both do when the lists are equally long.         *)
WithoutCircles ==
    [p \in Packages |-> packageReqs[p] \
        {d \in packageReqs[p] :
            Circular(p, d) /\ Cardinality(packageReqs[p]) >= Cardinality(packageReqs[d])}]

(* The edges of the graph lead from a requirement to what requires it. *)
RequiredBy(d) == {p \in Packages : d \in WithoutCircles[p]}

-----------------------------------------------------------------------------
(* _topological_sort_util is called for a vertex. *)
Visit(v) ==
    /\ visited' = visited \cup {v}
    /\ calls' = <<v>> \o calls
    /\ UNCHANGED <<packageReqs, stack>>

First(vertices) == {v \in vertices : \A u \in vertices : v <= u}

(* The loop over all vertices. *)
VisitVertex == calls = <<>> /\ \E v \in First(Packages \ visited) : Visit(v)

(* The loop over the neighbours of the vertex. *)
VisitNeighbour ==
    /\ calls # <<>>
    /\ \E v \in First(RequiredBy(Head(calls)) \ visited) : Visit(v)

(* Mutant of EndVisit: a vertex is put after all that were finished. *)
EndVisitAppending ==
    /\ calls # <<>> /\ RequiredBy(Head(calls)) \subseteq visited
    /\ stack' = stack \o <<Head(calls)>>
    /\ calls' = Tail(calls)
    /\ UNCHANGED <<packageReqs, visited>>

(* No neighbour is left: the vertex is put in front of all that were       *)
(* finished before it.                                                     *)
EndVisit ==
    /\ calls # <<>> /\ RequiredBy(Head(calls)) \subseteq visited
    /\ stack' = <<Head(calls)>> \o stack
    /\ calls' = Tail(calls)
    /\ UNCHANGED <<packageReqs, visited>>

SortNext == VisitVertex \/ VisitNeighbour \/ EndVisit

SortSpec == SortInit /\ [][SortNext]_sortVars /\ WF_sortVars(SortNext)

SortEnded == calls = <<>> /\ Packages \subseteq visited

(* What p comes to need, by way of one package after the other: it is in   *)
(* each set that has the requirements of p and those of its own packages.  *)
Needs(reqs, p) ==
    {q \in Packages : \A S \in SUBSET Packages :
        (reqs[p] \subseteq S /\ \A r \in S : reqs[r] \subseteq S) => q \in S}

(* recursive_search over the dictionary that sort_list has taken the       *)
(* circular requirements from: the leaf and all it comes to need.          *)
LeafFilter(leaf) == {leaf} \cup Needs(WithoutCircles, leaf)

(* Those packages in their order; places that are left empty are not       *)
(* closed up.                                                              *)
ForLeaf(leaf) == Restrict(stack, {i \in DOMAIN stack : stack[i] \in LeafFilter(leaf)})

SortTypeOK ==
    /\ packageReqs \in Requirements
    /\ calls \in Seq(Packages) /\ stack \in Seq(Packages)
    /\ visited \subseteq Packages

-----------------------------------------------------------------------------
(* p is preceded by each of its requirements, unless that one comes to     *)
(* need p in turn.                                                         *)
Position(list, p) == CHOOSE i \in DOMAIN list : list[i] = p
InOrder(list, p) ==
    \A d \in packageReqs[p] :
        \/ p \in Needs(packageReqs, d)
        \/ d \in Range(list) /\ Position(list, d) < Position(list, p)

(* Every package is listed once, and after each one it requires, unless    *)
(* they require each other on some way (dependency_sorting.py:46-57).      *)
RequiredComesFirst ==
    SortEnded =>
        /\ IsInjective(stack) /\ Range(stack) = Packages
        /\ \A p \in Packages : InOrder(stack, p)

(* What is left for a leaf can be built in its order: a package on the     *)
(* list has each requirement on the list before it, circular ones apart    *)
(* (pkg_build_dependency.py:482-499).                                      *)
LeafIsComplete ==
    SortEnded =>
        \A leaf \in Packages :
            /\ leaf \in Range(ForLeaf(leaf))
            /\ \A p \in Range(ForLeaf(leaf)) : InOrder(ForLeaf(leaf), p)

(* The sort ends although packages may require each other                  *)
(* (dependency_sorting.py:37-57).                                          *)
AllSorted == <>SortEnded
=============================================================================
