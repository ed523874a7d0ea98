------------------------ MODULE PackageDependencies ------------------------
(***************************************************************************)
(* The binary packages that a build of some source packages needs, as      *)
(* altrepo_api/libs/package_dependencies.py collects them: level by level, *)
(* where the new packages of a level are looked up in the next one.  When  *)
(* several packages provide what is required one of them is chosen, as apt *)
(* does, and the others are left out of everything the level finds.        *)
(* A requirement is its name: which packages satisfy it, version and flags *)
(* included, is in provides.  One architecture is looked at, where a       *)
(* binary package is known by its name.                                    *)
(***************************************************************************)
EXTENDS Naturals, FiniteSetsExt

CONSTANTS
    Sources,   \* source packages
    Bins,      \* binary packages: numbers, in the order of their names
    Names,     \* what is required or provided; n \in Bins is n's own name
    Catalogs   \* the branches that are looked at

Catalog == [requires : [Sources \cup Bins -> SUBSET Names],
            provides : [Bins -> SUBSET Names]]

ASSUME PackagesAssumption ==
    /\ Bins \subseteq Names /\ Names \subseteq Nat
    /\ IsFiniteSet(Bins)
    /\ Sources \cap Bins = {}
    /\ Catalogs \subseteq Catalog

VARIABLES
    catalog,      \* what the packages of the branch require and provide
    stage,        \* "query", "collect" or "done"
    first,        \* the level of the source packages
    frontier,     \* packages_hashes: the packages of the level
    todo,         \* those of them not yet gone through
    excluded,     \* the packages the level leaves out
    found,        \* tmp_list: what the level has added
    dependencies  \* dependencies[s]: what source package s needs

dependencyVars ==
    <<catalog, stage, first, frontier, todo, excluded, found, dependencies>>

Providers(name) == {b \in Bins : name \in catalog.provides[b]}
Requires(p) == catalog.requires[p]
Found(p) == UNION {Providers(name) : name \in Requires(p)}

(* A provider that has the required name, or else the last one by name. *)
Chosen(name) == IF name \in Providers(name) THEN name ELSE Max(Providers(name))

LeftOut(name) ==
    IF Cardinality(Providers(name)) > 1 THEN Providers(name) \ {Chosen(name)} ELSE {}

DependenciesIdle ==
    /\ stage = "query"
    /\ first = TRUE
    /\ frontier = Sources
    /\ todo = {}
    /\ excluded = {}
    /\ found = {}
    /\ dependencies = [s \in Sources |-> {}]

DependenciesInit == catalog \in Catalogs /\ DependenciesIdle

(* get_packages_by_requires for the level; packages without requirements   *)
(* are not in the answer.                                                  *)
QueryLevel ==
    /\ stage = "query"
    /\ stage' = "collect"
    /\ todo' = {p \in frontier : Requires(p) # {}}
    /\ excluded' = UNION {LeftOut(name) : name \in UNION {Requires(p) : p \in frontier}}
    /\ found' = {}
    /\ UNCHANGED <<catalog, first, frontier, dependencies>>

Collected(p) == Found(p) \ excluded

CollectSource(s) ==
    /\ first
    /\ dependencies' = [dependencies EXCEPT ![s] = Collected(s)]
    /\ found' = found \cup Collected(s)

(* Mutant of CollectBinary: only what is new to all is looked up again. *)
CollectBinaryOnce(p) ==
    /\ ~first
    /\ dependencies' = [s \in Sources |->
            dependencies[s] \cup (IF p \in dependencies[s] THEN Collected(p) ELSE {})]
    /\ found' = found \cup (Collected(p) \ UNION {dependencies[s] : s \in Sources})

(* Mutant of CollectBinary: every source package gets it. *)
CollectBinaryForAll(p) ==
    /\ ~first
    /\ dependencies' = [s \in Sources |-> dependencies[s] \cup Collected(p)]
    /\ found' = found \cup UNION {Collected(p) \ dependencies[s] : s \in Sources}

(* Mutant of CollectBinary: what is known is looked up again, too. *)
CollectBinaryAgain(p) ==
    /\ ~first
    /\ dependencies' = [s \in Sources |->
            dependencies[s] \cup (IF p \in dependencies[s] THEN Collected(p) ELSE {})]
    /\ found' = found \cup Collected(p)

(* p stands for its own requirements wherever it is needed; what is new to *)
(* a source package is looked up in the next level.                        *)
CollectBinary(p) ==
    /\ ~first
    /\ dependencies' = [s \in Sources |->
            dependencies[s] \cup (IF p \in dependencies[s] THEN Collected(p) ELSE {})]
    /\ found' = found \cup UNION {Collected(p) \ dependencies[s] :
                                    s \in {t \in Sources : p \in dependencies[t]}}

(* The rows of the answer come in no order. *)
Collect ==
    /\ stage = "collect"
    /\ \E p \in todo :
          /\ todo' = todo \ {p}
          /\ CollectSource(p) \/ CollectBinary(p)
    /\ UNCHANGED <<catalog, stage, first, frontier, excluded>>

(* Mutant of NextLevel: the source packages are looked up again. *)
NextLevelWithSources ==
    /\ stage = "collect" /\ todo = {}
    /\ stage' = IF found = {} THEN "done" ELSE "query"
    /\ first' = FALSE
    /\ frontier' = found \cup Sources
    /\ UNCHANGED <<catalog, todo, excluded, found, dependencies>>

(* Another level, or the end. *)
NextLevel ==
    /\ stage = "collect" /\ todo = {}
    /\ stage' = IF found = {} THEN "done" ELSE "query"
    /\ first' = FALSE
    /\ frontier' = found
    /\ UNCHANGED <<catalog, todo, excluded, found, dependencies>>

DependenciesNext == QueryLevel \/ Collect \/ NextLevel

DependenciesSpec ==
    /\ DependenciesInit
    /\ [][DependenciesNext]_dependencyVars
    /\ WF_dependencyVars(DependenciesNext)

DependenciesTypeOK ==
    /\ catalog \in Catalog
    /\ stage \in {"query", "collect", "done"}
    /\ first \in BOOLEAN
    /\ IF first THEN frontier = Sources ELSE frontier \subseteq Bins
    /\ todo \subseteq frontier
    /\ excluded \subseteq Bins
    /\ found \subseteq Bins
    /\ dependencies \in [Sources -> SUBSET Bins]

-----------------------------------------------------------------------------
(* Every package collected for a source package belongs there: it is in    *)
(* each set that has what provides the requirements of the source package  *)
(* and of the set's own packages (package_dependencies.py:463-476).        *)
NothingUnrelated ==
    \A s \in Sources, T \in SUBSET Bins :
        (Found(s) \subseteq T /\ \A p \in T : Found(p) \subseteq T)
            => dependencies[s] \subseteq T

(* A requirement with a provider in the branch is met at the end, for the  *)
(* source package and for everything collected for it, unless the provider *)
(* that was chosen for it lost another requirement to a package of its     *)
(* choice (package_dependencies.py:456-481).                               *)
MetFor(s, name) == Providers(name) \cap dependencies[s] # {}
Collection == Sources \cup UNION {dependencies[s] : s \in Sources}
Overruled(name) ==
    \E q \in Collection : \E other \in Requires(q) \ {name} :
        Chosen(name) \in LeftOut(other)
RequirementsMetUnlessOverruled ==
    stage = "done" =>
        \A s \in Sources : \A p \in {s} \cup dependencies[s] : \A name \in Requires(p) :
            Providers(name) = {} \/ MetFor(s, name) \/ Overruled(name)

(* The levels end: packages may require each other, but each level adds    *)
(* one to some source package (package_dependencies.py:477-481).           *)
AllCollected == <>(stage = "done")
=============================================================================
