---------------------------- MODULE LevelsProofs ----------------------------
(***************************************************************************)
(* The two requests that collect packages level by level.                  *)
(*                                                                         *)
(* What PackageDependencies says of the collected packages holds for any   *)
(* packages, requirements and providers.  A package is pending as long as  *)
(* a level has it or has found it; that no pending package is left at the  *)
(* end is what makes the requirements met.                                 *)
(*                                                                         *)
(* The list of packages to backport is complete for any branches and any   *)
(* request.  The levels are the rows of the names that were looked up, and *)
(* what those packages lack was looked up or is about to be: when nothing  *)
(* is left to look up, nothing is missing.                                 *)
(***************************************************************************)
EXTENDS PackageDependencies, BackportHelper, FiniteSetTheorems, WellFoundedInduction, TLAPS

(* What a level leaves out. *)
LevelLeavesOut ==
    stage = "collect" =>
        \A b \in excluded : \E q \in frontier : \E name \in Requires(q) : b \in LeftOut(name)

(* A level looks at source packages or at what has been collected. *)
LevelsCollected ==
    /\ frontier \subseteq Collection
    /\ stage = "collect" => found \subseteq Collection

(* Nothing is collected for a source package before its turn. *)
SourcesFirst ==
    \A s \in Sources :
        (first /\ (stage = "query" \/ s \in todo)) => dependencies[s] = {}

Pending(p) ==
    \/ stage = "query" /\ p \in frontier
    \/ stage = "collect" /\ p \in todo \cup found

Satisfied(s, p) ==
    \A name \in Requires(p) :
        Providers(name) = {} \/ Chosen(name) \in dependencies[s] \/ Overruled(name)

PendingOrSatisfied ==
    \A s \in Sources : \A p \in {s} \cup dependencies[s] : Pending(p) \/ Satisfied(s, p)

DependenciesInv ==
    /\ DependenciesTypeOK /\ LevelLeavesOut /\ LevelsCollected
    /\ SourcesFirst /\ PendingOrSatisfied

-----------------------------------------------------------------------------
(* A finite set of numbers has a greatest one: that with the least set of  *)
(* greater ones.                                                           *)
LEMMA MaxIsMember ==
    ASSUME NEW S \in SUBSET Nat, IsFiniteSet(S), S # {}
    PROVE  Max(S) \in S /\ \A y \in S : y <= Max(S)
<1> DEFINE Above(x) == {y \in S : y > x}
           T == {Above(x) : x \in S}
<1>1. IsWellFoundedOn(StrictSubsetOrdering(S), FiniteSubsetsOf(S))
      BY FS_StrictSubsetOrderingWellFounded
<1>2. T \subseteq FiniteSubsetsOf(S) /\ T # {}
      <2>1. \A A \in SUBSET S : IsFiniteSet(A)
            BY FS_Subset
      <2>2. \A x \in S : Above(x) \in SUBSET S
            OBVIOUS
      <2> HIDE DEF Above
      <2> QED BY <2>1, <2>2 DEF FiniteSubsetsOf
<1>3. PICK A \in T : \A B \in T : <<B, A>> \notin StrictSubsetOrdering(S)
      BY <1>1, <1>2, WFMin
<1>4. PICK x \in S : A = Above(x)
      BY <1>3
<1>5. \A y \in S : x >= y
      <2> SUFFICES ASSUME NEW y \in S, y > x PROVE FALSE
          OBVIOUS
      <2>1. /\ x \in Nat /\ y \in Nat
            /\ \A z \in S : z \in Nat
            OBVIOUS
      <2>2. y \in Above(x) /\ y \notin Above(y)
            BY <2>1
      <2>3. Above(y) \subseteq Above(x)
            <3>1. ASSUME NEW z \in S, z > y PROVE z > x
                  <4>1. z \in Nat
                        OBVIOUS
                  <4> QED BY <2>1, <3>1, <4>1
            <3> QED BY <3>1
      <2>4. Above(y) \in SUBSET S /\ Above(x) \in SUBSET S
            OBVIOUS
      <2>5. <<Above(y), Above(x)>> \in StrictSubsetOrdering(S) /\ Above(y) \in T
            <3> HIDE DEF Above
            <3> QED BY <2>2, <2>3, <2>4 DEF StrictSubsetOrdering
      <2> QED BY <1>3, <1>4, <2>5
<1>6. Max(S) \in S /\ \A y \in S : Max(S) >= y
      BY <1>5 DEF Max
<1> QED BY <1>6

(* The provider that is chosen is not left out for the same name. *)
LEMMA ChosenProvides ==
    ASSUME NEW name, Providers(name) # {}
    PROVE  Chosen(name) \in Providers(name) /\ Chosen(name) \notin LeftOut(name)
<1>1. Providers(name) \in SUBSET Nat /\ IsFiniteSet(Providers(name))
      BY PackagesAssumption, FS_Subset DEF Providers
<1>2. Chosen(name) \in Providers(name)
      BY <1>1, MaxIsMember DEF Chosen
<1> QED BY <1>2 DEF LeftOut

(* What is said of the packages of the branch stays as it is. *)
LEMMA CatalogKept ==
    ASSUME UNCHANGED catalog, NEW p, NEW name
    PROVE  /\ Requires(p)' = Requires(p) /\ Found(p)' = Found(p)
           /\ Providers(name)' = Providers(name) /\ Chosen(name)' = Chosen(name)
           /\ LeftOut(name)' = LeftOut(name)
BY DEF Requires, Found, Providers, Chosen, LeftOut

LEMMA FoundAreBins == ASSUME NEW p PROVE Found(p) \subseteq Bins
BY DEF Found, Providers

(* A package that is collected stays, and so does what is satisfied. *)
LEMMA SatisfiedStays ==
    ASSUME UNCHANGED catalog, \A t \in Sources : dependencies[t] \subseteq dependencies'[t],
           NEW s \in Sources, NEW p, Satisfied(s, p)
    PROVE  Satisfied(s, p)'
<1>1. ASSUME NEW name PROVE Overruled(name) => Overruled(name)'
      <2>1. Collection \subseteq Collection'
            BY DEF Collection
      <2>2. \A q, other : Requires(q)' = Requires(q) /\ LeftOut(other)' = LeftOut(other)
                          /\ Chosen(name)' = Chosen(name)
            BY CatalogKept
      <2> QED BY <2>1, <2>2 DEF Overruled
<1>2. ASSUME NEW name
      PROVE  /\ Requires(p)' = Requires(p) /\ Providers(name)' = Providers(name)
             /\ Chosen(name)' = Chosen(name)
      BY CatalogKept
<1> QED BY <1>1, <1>2 DEF Satisfied

LEMMA DependenciesInvInit == catalog \in Catalog /\ DependenciesIdle => DependenciesInv
<1> SUFFICES ASSUME catalog \in Catalog, DependenciesIdle PROVE DependenciesInv
    OBVIOUS
<1> USE DEF DependenciesIdle
<1>1. DependenciesTypeOK
      BY DEF DependenciesTypeOK
<1>2. LevelLeavesOut /\ LevelsCollected /\ SourcesFirst
      BY DEF LevelLeavesOut, LevelsCollected, SourcesFirst, Collection
<1>3. PendingOrSatisfied
      BY DEF PendingOrSatisfied, Pending
<1> QED BY <1>1, <1>2, <1>3 DEF DependenciesInv

LEMMA QueryLevelInv == ASSUME DependenciesInv, QueryLevel PROVE DependenciesInv'
<1>1. UNCHANGED catalog /\ stage = "query" /\ stage' = "collect"
      BY DEF QueryLevel
<1>2. \A p, name : /\ Requires(p)' = Requires(p)
                   /\ LeftOut(name)' = LeftOut(name)
      BY <1>1, CatalogKept
<1>3. DependenciesTypeOK'
      <2>1. \A name : LeftOut(name) \subseteq Bins
            BY DEF LeftOut, Providers
      <2> QED BY <2>1 DEF QueryLevel, DependenciesInv, DependenciesTypeOK
<1>4. LevelLeavesOut'
      BY <1>1, <1>2 DEF QueryLevel, LevelLeavesOut
<1>5. LevelsCollected' /\ SourcesFirst'
      BY DEF QueryLevel, DependenciesInv, LevelsCollected, SourcesFirst, Collection
<1>6. PendingOrSatisfied'
      <2> SUFFICES ASSUME NEW s \in Sources, NEW p \in {s} \cup dependencies[s]
                   PROVE  Pending(p)' \/ Satisfied(s, p)'
          BY DEF QueryLevel, PendingOrSatisfied
      <2>1. CASE p \in frontier /\ Requires(p) # {}
            BY <1>1, <2>1 DEF QueryLevel, Pending
      <2>2. CASE Requires(p) = {}
            BY <1>2, <2>2 DEF Satisfied
      <2>3. CASE p \notin frontier
            <3>1. Satisfied(s, p)
                  BY <1>1, <2>3 DEF DependenciesInv, PendingOrSatisfied, Pending
            <3> QED BY <1>1, <3>1, SatisfiedStays DEF QueryLevel
      <2> QED BY <2>1, <2>2, <2>3
<1> QED BY <1>3, <1>4, <1>5, <1>6 DEF DependenciesInv

LEMMA NextLevelInv == ASSUME DependenciesInv, NextLevel PROVE DependenciesInv'
<1>1. UNCHANGED catalog /\ stage = "collect" /\ todo = {}
      BY DEF NextLevel
<1>2. DependenciesTypeOK'
      BY DEF NextLevel, DependenciesInv, DependenciesTypeOK
<1>3. LevelLeavesOut' /\ LevelsCollected' /\ SourcesFirst'
      BY <1>1 DEF NextLevel, DependenciesInv, LevelLeavesOut, LevelsCollected, SourcesFirst, Collection
<1>4. PendingOrSatisfied'
      <2> SUFFICES ASSUME NEW s \in Sources, NEW p \in {s} \cup dependencies[s]
                   PROVE  Pending(p)' \/ Satisfied(s, p)'
          BY DEF NextLevel, PendingOrSatisfied
      <2>1. CASE p \in found
            BY <2>1 DEF NextLevel, Pending
      <2>2. CASE p \notin found
            <3>1. Satisfied(s, p)
                  BY <1>1, <2>2 DEF DependenciesInv, PendingOrSatisfied, Pending
            <3> QED BY <1>1, <3>1, SatisfiedStays DEF NextLevel
      <2> QED BY <2>1, <2>2
<1> QED BY <1>2, <1>3, <1>4 DEF DependenciesInv

(* A package whose requirements have been collected is satisfied: where    *)
(* the provider that was chosen is left out, it was for another name that  *)
(* a package of the level requires.                                        *)
LEMMA CollectedSatisfy ==
    ASSUME DependenciesInv, stage = "collect", UNCHANGED catalog,
           \A t \in Sources : dependencies[t] \subseteq dependencies'[t],
           NEW s \in Sources, NEW p, Collected(p) \subseteq dependencies'[s]
    PROVE  Satisfied(s, p)'
<1> SUFFICES ASSUME NEW name \in Requires(p), Providers(name) # {},
                    Chosen(name) \notin dependencies'[s]
             PROVE  Overruled(name)'
    <2>1. \A n : /\ Requires(p)' = Requires(p) /\ Providers(n)' = Providers(n)
                 /\ Chosen(n)' = Chosen(n)
          BY CatalogKept
    <2> QED BY <2>1 DEF Satisfied
<1>1. Chosen(name) \in Found(p) /\ Chosen(name) \notin LeftOut(name)
      BY ChosenProvides DEF Found
<1>2. Chosen(name) \in excluded
      BY <1>1 DEF Collected
<1>3. PICK q \in frontier : \E other \in Requires(q) : Chosen(name) \in LeftOut(other)
      BY <1>2 DEF DependenciesInv, LevelLeavesOut
<1>4. PICK other \in Requires(q) \ {name} : Chosen(name) \in LeftOut(other)
      BY <1>1, <1>3
<1>5. q \in Collection'
      BY DEF DependenciesInv, LevelsCollected, Collection
<1>6. /\ Requires(q)' = Requires(q) /\ LeftOut(other)' = LeftOut(other)
      /\ Chosen(name)' = Chosen(name)
      BY CatalogKept
<1> QED BY <1>4, <1>5, <1>6 DEF Overruled

(* What both kinds of rows do: nothing that is collected is lost, what is  *)
(* new to a source package is found, and what the package of the row needs *)
(* is collected wherever the package belongs.                              *)
LEMMA CollectEffect ==
    ASSUME DependenciesInv, NEW p \in todo, stage = "collect", CollectSource(p) \/ CollectBinary(p)
    PROVE  /\ \A t \in Sources : dependencies[t] \subseteq dependencies'[t]
           /\ \A t \in Sources : dependencies'[t] \ dependencies[t] \subseteq found'
           /\ \A t \in Sources : p \in {t} \cup dependencies[t] =>
                                    Collected(p) \subseteq dependencies'[t]
           /\ found \subseteq found'
           /\ found' \subseteq found \cup UNION {dependencies'[t] : t \in Sources}
           /\ dependencies' \in [Sources -> SUBSET Bins]
           /\ \A t \in Sources : first /\ t # p => dependencies'[t] = dependencies[t]
<1>1. DependenciesTypeOK /\ Collected(p) \subseteq Bins
      BY FoundAreBins DEF DependenciesInv, Collected
<1>2. CASE CollectSource(p)
      <2>1. p \in Sources /\ dependencies[p] = {}
            BY <1>1, <1>2 DEF CollectSource, DependenciesTypeOK, DependenciesInv, SourcesFirst
      <2>2. \A t \in Sources : p \notin dependencies[t]
            BY <1>1, <2>1, PackagesAssumption DEF DependenciesTypeOK
      <2> QED BY <1>1, <1>2, <2>1, <2>2 DEF CollectSource, DependenciesTypeOK
<1>3. CASE CollectBinary(p)
      <2>1. ~first /\ p \in Bins /\ p \notin Sources
            BY <1>1, <1>3, PackagesAssumption DEF CollectBinary, DependenciesTypeOK
      <2>2. \A t \in Sources : dependencies'[t] =
                dependencies[t] \cup (IF p \in dependencies[t] THEN Collected(p) ELSE {})
            BY <1>3 DEF CollectBinary
      <2>3. dependencies' \in [Sources -> SUBSET Bins]
            BY <1>1, <1>3 DEF CollectBinary, DependenciesTypeOK
      <2>4. found' = found \cup UNION {Collected(p) \ dependencies[s] :
                                    s \in {t \in Sources : p \in dependencies[t]}}
            BY <1>3 DEF CollectBinary
      <2> HIDE DEF Collected
      <2>5. \A t \in Sources : dependencies'[t] \ dependencies[t] \subseteq found'
            BY <2>2, <2>4
      <2>6. found' \subseteq found \cup UNION {dependencies'[t] : t \in Sources}
            BY <2>2, <2>4
      <2> QED BY <2>1, <2>2, <2>3, <2>4, <2>5, <2>6
<1> QED BY <1>2, <1>3

LEMMA CollectInv == ASSUME DependenciesInv, Collect PROVE DependenciesInv'
<1>1. PICK p \in todo : /\ todo' = todo \ {p}
                        /\ CollectSource(p) \/ CollectBinary(p)
      BY DEF Collect
<1>2. /\ stage = "collect"
      /\ UNCHANGED <<catalog, stage, first, frontier, excluded>>
      BY DEF Collect
<1>3. /\ \A t \in Sources : dependencies[t] \subseteq dependencies'[t]
      /\ \A t \in Sources : dependencies'[t] \ dependencies[t] \subseteq found'
      /\ \A t \in Sources : p \in {t} \cup dependencies[t] =>
                                Collected(p) \subseteq dependencies'[t]
      /\ found \subseteq found'
      /\ found' \subseteq found \cup UNION {dependencies'[t] : t \in Sources}
      /\ dependencies' \in [Sources -> SUBSET Bins]
      /\ \A t \in Sources : first /\ t # p => dependencies'[t] = dependencies[t]
      BY <1>1, <1>2, CollectEffect
<1>4. DependenciesTypeOK'
      BY <1>1, <1>2, <1>3 DEF DependenciesInv, DependenciesTypeOK
<1>5. LevelLeavesOut'
      <2>1. \A q, name : /\ Requires(q)' = Requires(q)
                         /\ LeftOut(name)' = LeftOut(name)
            BY <1>2, CatalogKept
      <2> QED BY <1>2, <2>1 DEF DependenciesInv, LevelLeavesOut
<1>6. LevelsCollected'
      BY <1>2, <1>3 DEF DependenciesInv, LevelsCollected, Collection
<1>7. SourcesFirst'
      BY <1>1, <1>2, <1>3 DEF DependenciesInv, SourcesFirst
<1>8. PendingOrSatisfied'
      <2> SUFFICES ASSUME NEW s \in Sources, NEW q \in {s} \cup dependencies'[s]
                   PROVE  Pending(q)' \/ Satisfied(s, q)'
          BY DEF PendingOrSatisfied
      <2>1. CASE q \notin {s} \cup dependencies[s]
            BY <1>2, <1>3, <2>1 DEF Pending
      <2>2. CASE q \in {s} \cup dependencies[s] /\ q = p
            BY <1>2, <1>3, <2>2, CollectedSatisfy
      <2>3. CASE q \in {s} \cup dependencies[s] /\ q # p
            <3>1. Pending(q) \/ Satisfied(s, q)
                  BY <2>3 DEF DependenciesInv, PendingOrSatisfied
            <3>2. Pending(q) => Pending(q)'
                  BY <1>1, <1>2, <1>3, <2>3 DEF Pending
            <3>3. Satisfied(s, q) => Satisfied(s, q)'
                  BY <1>2, <1>3, SatisfiedStays
            <3> QED BY <3>1, <3>2, <3>3
      <2> QED BY <2>1, <2>2, <2>3
<1> QED BY <1>4, <1>5, <1>6, <1>7, <1>8 DEF DependenciesInv

LEMMA DependenciesInvStep == DependenciesInv /\ [DependenciesNext]_dependencyVars => DependenciesInv'
<1> SUFFICES ASSUME DependenciesInv, [DependenciesNext]_dependencyVars PROVE DependenciesInv'
    OBVIOUS
<1>1. CASE QueryLevel
      BY <1>1, QueryLevelInv
<1>2. CASE Collect
      BY <1>2, CollectInv
<1>3. CASE NextLevel
      BY <1>3, NextLevelInv
<1>4. CASE UNCHANGED dependencyVars
      <2> USE <1>4 DEF dependencyVars
      <2>1. \A p, name : Requires(p)' = Requires(p) /\ LeftOut(name)' = LeftOut(name)
            BY CatalogKept
      <2>2. DependenciesTypeOK' /\ LevelsCollected' /\ SourcesFirst'
            BY DEF DependenciesInv, DependenciesTypeOK, LevelsCollected, SourcesFirst, Collection
      <2>3. LevelLeavesOut'
            BY <2>1 DEF DependenciesInv, LevelLeavesOut
      <2>4. PendingOrSatisfied'
            <3> SUFFICES ASSUME NEW s \in Sources, NEW p \in {s} \cup dependencies[s]
                         PROVE  Pending(p)' \/ Satisfied(s, p)'
                BY DEF PendingOrSatisfied
            <3>1. Pending(p) => Pending(p)'
                  BY DEF Pending
            <3>2. Satisfied(s, p) => Satisfied(s, p)'
                  BY SatisfiedStays
            <3> QED BY <3>1, <3>2 DEF DependenciesInv, PendingOrSatisfied
      <2> QED BY <2>2, <2>3, <2>4 DEF DependenciesInv
<1> QED BY <1>1, <1>2, <1>3, <1>4 DEF DependenciesNext

-----------------------------------------------------------------------------
(* The state of the collection is as described in every reachable state.   *)
THEOREM DependenciesInvariant == DependenciesSpec => []DependenciesInv
<1>1. DependenciesInit => DependenciesInv
      BY DependenciesInvInit, PackagesAssumption DEF DependenciesInit
<1> QED BY <1>1, DependenciesInvStep, PTL DEF DependenciesSpec

(* Every variable has its type: a level has the source packages or binary  *)
(* packages, and only binary packages are collected.                       *)
THEOREM DependenciesTypeCorrect == DependenciesSpec => []DependenciesTypeOK
<1>1. DependenciesInv => DependenciesTypeOK
      BY DEF DependenciesInv
<1> QED BY <1>1, DependenciesInvariant, PTL

LEMMA InvRequirementsMet == DependenciesInv => RequirementsMetUnlessOverruled
<1> SUFFICES ASSUME DependenciesInv, stage = "done", NEW s \in Sources,
                    NEW p \in {s} \cup dependencies[s],
                    NEW name \in Requires(p), Providers(name) # {}
             PROVE  MetFor(s, name) \/ Overruled(name)
    BY DEF RequirementsMetUnlessOverruled
<1>1. Satisfied(s, p)
      BY DEF DependenciesInv, PendingOrSatisfied, Pending
<1>2. Chosen(name) \in Providers(name)
      BY ChosenProvides
<1> QED BY <1>1, <1>2 DEF Satisfied, MetFor

(* At the end what is collected meets the requirements of the source       *)
(* packages and of what is collected, but for the names whose provider was *)
(* left out for the sake of another one (package_dependencies.py:456-481). *)
THEOREM RequirementsAreMet == DependenciesSpec => []RequirementsMetUnlessOverruled
BY InvRequirementsMet, DependenciesInvariant, PTL

LEMMA UnrelatedInit == DependenciesIdle => NothingUnrelated
BY DEF DependenciesIdle, NothingUnrelated

LEMMA UnrelatedStep ==
    DependenciesInv /\ NothingUnrelated /\ [DependenciesNext]_dependencyVars => NothingUnrelated'
<1> SUFFICES ASSUME DependenciesInv, NothingUnrelated, [DependenciesNext]_dependencyVars,
                    NEW s \in Sources, NEW T \in SUBSET Bins,
                    Found(s)' \subseteq T, \A p \in T : Found(p)' \subseteq T
             PROVE  dependencies'[s] \subseteq T
    BY DEF NothingUnrelated
<1>1. UNCHANGED catalog
      BY DEF DependenciesNext, QueryLevel, Collect, NextLevel, dependencyVars
<1>2. Found(s) \subseteq T /\ \A p \in T : Found(p) \subseteq T
      BY <1>1, CatalogKept
<1>3. dependencies[s] \subseteq T
      BY <1>2 DEF NothingUnrelated
<1>4. CASE UNCHANGED dependencies
      BY <1>3, <1>4
<1>5. CASE Collect
      <2>1. PICK p \in todo : CollectSource(p) \/ CollectBinary(p)
            BY <1>5 DEF Collect
      <2>2. dependencies \in [Sources -> SUBSET Bins]
            BY DEF DependenciesInv, DependenciesTypeOK
      <2>3. Collected(p) \subseteq Found(p)
            BY DEF Collected
      <2>4. CASE CollectSource(p)
            BY <1>2, <1>3, <2>2, <2>3, <2>4 DEF CollectSource
      <2>5. CASE CollectBinary(p)
            <3>1. dependencies'[s] = dependencies[s] \cup
                      (IF p \in dependencies[s] THEN Collected(p) ELSE {})
                  BY <2>5 DEF CollectBinary
            <3>2. p \in dependencies[s] => Collected(p) \subseteq T
                  BY <1>2, <1>3, <2>3
            <3> QED BY <1>3, <3>1, <3>2
      <2> QED BY <2>1, <2>4, <2>5
<1> QED BY <1>4, <1>5 DEF DependenciesNext, QueryLevel, NextLevel, dependencyVars

(* Nothing is collected for a source package that it does not need: what   *)
(* is collected is in each set that is closed under requirements.          *)
THEOREM NothingUnrelatedIsCollected == DependenciesSpec => []NothingUnrelated
<1>1. DependenciesInit => NothingUnrelated
      BY UnrelatedInit DEF DependenciesInit
<1> QED BY <1>1, UnrelatedStep, DependenciesInvariant, PTL DEF DependenciesSpec

-----------------------------------------------------------------------------
(* The list of packages to backport. *)
LevelsAreRows ==
    \A p \in Srpms \cup Rpms :
        p \in Rows(memory) <=> \E d \in DOMAIN levels : p \in levels[d]

FirstLevelIsAsked ==
    /\ levels = <<>> => lookups = backport.names /\ memory = {}
    /\ levels # <<>> => levels[1] = Rows(backport.names) /\ backport.names \subseteq memory

LacksAreLookedUp == UnmetNames(memory) \subseteq memory \cup lookups

DeeperIsListed == answered => lookups = {} /\ Deeper \subseteq Listed /\ Listed \subseteq Deeper

BackportInv ==
    /\ BackportTypeOK
    /\ backport \in Backports
    /\ LevelsAreRows /\ FirstLevelIsAsked /\ LacksAreLookedUp /\ DeeperIsListed

-----------------------------------------------------------------------------
(* Rows and what they lack are found name by name. *)
LEMMA RowsOfBoth ==
    ASSUME NEW A, NEW B
    PROVE  Rows(A \cup B) = Rows(A) \cup Rows(B)
<1>1. Providing(A \cup B) = Providing(A) \cup Providing(B)
      BY DEF Providing
<1> QED BY <1>1 DEF Rows

LEMMA LacksOfBoth ==
    ASSUME NEW A, NEW B
    PROVE  UnmetNames(A \cup B) = UnmetNames(A) \cup UnmetNames(B)
<1> DEFINE names(R) == {r.name : r \in UNION {Unmet(p) : p \in {q \in R : AsksFor(q)}}}
<1>1. \A R, S : names(R \cup S) = names(R) \cup names(S)
      OBVIOUS
<1>2. \A C : UnmetNames(C) = names(Rows(C))
      BY DEF UnmetNames
<1> QED BY <1>1, <1>2, RowsOfBoth

LEMMA RowsAreAsked ==
    ASSUME BackportTypeOK, NEW A
    PROVE  /\ Rows(A) \subseteq Srpms \cup Rpms
           /\ UnmetNames(A) \subseteq Capabilities
           /\ \A b \in Rpms : b \in Rows(A) <=> b \in Providing(A) /\ backport.requires[b] # {}
<1>1. /\ backport.srpm \in [Rpms -> Srpms]
      /\ backport.requires \in [Srpms \cup Rpms -> SUBSET Requirement]
      BY DEF BackportTypeOK, Backport
<1>2. Rows(A) \subseteq Srpms \cup Rpms
      BY <1>1 DEF Rows, Providing
<1>3. \A p \in Srpms \cup Rpms : \A r \in Unmet(p) : r.name \in Capabilities
      BY <1>1 DEF Unmet, Requirement
<1>4. UnmetNames(A) \subseteq Capabilities
      BY <1>2, <1>3 DEF UnmetNames
<1>5. \A b \in Rpms : b \in Rows(A) <=> b \in Providing(A) /\ backport.requires[b] # {}
      <2>1. \A b \in Providing(A) : backport.srpm[b] \in Srpms
            BY <1>1 DEF Providing
      <2>2. \A b \in Rpms : b \notin {backport.srpm[c] : c \in Providing(A)}
            BY <2>1, BackportsAssumption
      <2> QED BY <2>2 DEF Rows
<1> QED BY <1>2, <1>4, <1>5

LEMMA NothingLookedUp == Rows({}) = {} /\ UnmetNames({}) = {}
<1>1. Rows({}) = {}
      BY DEF Rows, Providing
<1>2. {p \in Rows({}) : AsksFor(p)} = {}
      BY <1>1
<1> QED BY <1>1, <1>2 DEF UnmetNames

-----------------------------------------------------------------------------
LEMMA AppendKeepsSeq ==
    ASSUME NEW S, NEW s \in Seq(S), NEW e \in S
    PROVE  Append(s, e) \in Seq(S)
OBVIOUS

LEMMA BackportInvInit == BackportInit => BackportInv
<1> SUFFICES ASSUME BackportInit PROVE BackportInv
    OBVIOUS
<1> USE DEF BackportInit, BackportIdle
<1>1. backport \in Backport
      BY BackportsAssumption
<1>2. BackportTypeOK
      <2>1. backport.names \subseteq Capabilities
            BY <1>1 DEF Backport
      <2>2. levels \in Seq(SUBSET (Srpms \cup Rpms)) /\ listed \in Seq(SUBSET Rpms)
            OBVIOUS
      <2> QED BY <1>1, <2>1, <2>2 DEF BackportTypeOK
<1>3. LevelsAreRows
      BY NothingLookedUp DEF LevelsAreRows
<1>4. FirstLevelIsAsked /\ LacksAreLookedUp /\ DeeperIsListed
      BY NothingLookedUp DEF FirstLevelIsAsked, LacksAreLookedUp, DeeperIsListed
<1> QED BY <1>2, <1>3, <1>4 DEF BackportInv

LEMMA LookUpKeepsInv == BackportInv /\ LookUp => BackportInv'
<1> SUFFICES ASSUME BackportInv, LookUp PROVE BackportInv'
    OBVIOUS
<1> DEFINE names == lookups \ memory
<1>1. /\ memory' = memory \cup names
      /\ lookups' = UnmetNames(names)
      /\ levels' = Append(levels, Rows(names))
      /\ UNCHANGED <<backport, listed, answered>>
      /\ ~answered
      BY DEF LookUp
<1>2. BackportTypeOK
      BY DEF BackportInv
<1>3. /\ Rows(memory)' = Rows(memory \cup names)
      /\ UnmetNames(memory)' = UnmetNames(memory \cup names)
      /\ Rows(backport.names)' = Rows(backport.names)
      BY <1>1 DEF Rows, Providing, UnmetNames, Unmet, MetBy, AsksFor
<1>4. DOMAIN levels = 1..Len(levels) /\ DOMAIN levels' = 1..(Len(levels) + 1)
      /\ levels'[Len(levels) + 1] = Rows(names)
      /\ \A d \in DOMAIN levels : levels'[d] = levels[d]
      /\ Len(levels) \in Nat
      BY <1>1, <1>2 DEF BackportTypeOK
<1>5. BackportTypeOK'
      <2>1. Rows(names) \subseteq Srpms \cup Rpms /\ UnmetNames(names) \subseteq Capabilities
            BY <1>2, RowsAreAsked
      <2>2. levels' \in Seq(SUBSET (Srpms \cup Rpms))
            BY <1>1, <1>2, <2>1, AppendKeepsSeq DEF BackportTypeOK
      <2> QED BY <1>1, <1>2, <2>1, <2>2 DEF BackportTypeOK
<1>6. LevelsAreRows'
      <2>1. Rows(memory)' = Rows(memory) \cup Rows(names)
            BY <1>3, RowsOfBoth
      <2> QED BY <1>4, <2>1 DEF BackportInv, LevelsAreRows
<1>7. FirstLevelIsAsked'
      <2>1. levels' # <<>>
            BY <1>4
      <2>2. CASE levels = <<>>
            <3>1. lookups = backport.names /\ Len(levels) = 0 /\ memory = {}
                  BY <2>2 DEF BackportInv, FirstLevelIsAsked
            <3>2. names = backport.names
                  BY <3>1
            <3> QED BY <1>1, <1>3, <1>4, <2>1, <3>1, <3>2 DEF FirstLevelIsAsked
      <2>3. CASE levels # <<>>
            <3>1. 1 \in DOMAIN levels
                  BY <1>2, <2>3 DEF BackportTypeOK
            <3> QED BY <1>1, <1>3, <1>4, <2>1, <2>3, <3>1 DEF BackportInv, FirstLevelIsAsked
      <2> QED BY <2>2, <2>3
<1>8. LacksAreLookedUp'
      <2>1. UnmetNames(memory)' = UnmetNames(memory) \cup UnmetNames(names)
            BY <1>3, LacksOfBoth
      <2> QED BY <1>1, <2>1 DEF BackportInv, LacksAreLookedUp
<1>9. DeeperIsListed'
      BY <1>1 DEF DeeperIsListed
<1> QED BY <1>1, <1>5, <1>6, <1>7, <1>8, <1>9 DEF BackportInv

LEMMA ListByDepthKeepsInv == BackportInv /\ ListByDepth => BackportInv'
<1> SUFFICES ASSUME BackportInv, ListByDepth PROVE BackportInv'
    OBVIOUS
<1> DEFINE depths == {LastDepth(p) : p \in Deeper}
<1>1. PICK o \in Orders : listed' = [i \in DOMAIN o |-> AtDepth(o[i])]
      BY DEF ListByDepth
<1>2. answered' = TRUE /\ lookups = {} /\ UNCHANGED <<backport, lookups, memory, levels>>
      BY DEF ListByDepth
<1>3. Cardinality(depths) \in Nat
      <2> DEFINE f == [p \in Deeper |-> LastDepth(p)]
      <2>1. IsFiniteSet(Deeper)
            BY BackportsAssumption, FS_Subset DEF Deeper
      <2>2. f \in Surjection(Deeper, depths)
            BY DEF Surjection
      <2>3. IsFiniteSet(depths)
            <3> HIDE DEF f, depths
            <3> QED BY <2>1, <2>2, FS_Surjection
      <2> QED BY <2>3, FS_CardinalityType
<1>4. /\ o \in [1..Cardinality(depths) -> depths]
      /\ \A d \in depths : \E i \in DOMAIN o : o[i] = d
      BY <1>1 DEF Orders
<1>5. \A d : AtDepth(d) \subseteq Deeper /\ Deeper \subseteq Rpms
      BY DEF AtDepth, Deeper
<1>6. listed' \in Seq(SUBSET Rpms) /\ Len(listed') = Cardinality(depths)
      <2> HIDE DEF depths
      <2>1. listed' \in [1..Cardinality(depths) -> SUBSET Rpms]
            BY <1>1, <1>4, <1>5
      <2> QED BY <1>3, <2>1
<1>7. Listed' = Deeper
      <2>1. Listed' \subseteq Deeper
            <3>1. ASSUME NEW i \in 1..Len(listed') PROVE listed'[i] \subseteq Deeper
                  <4>1. i \in DOMAIN o
                        BY <1>4, <1>6
                  <4> QED BY <1>1, <1>5, <4>1
            <3> QED BY <3>1 DEF Listed
      <2>2. ASSUME NEW p \in Deeper PROVE p \in Listed'
            <3>1. PICK i \in DOMAIN o : o[i] = LastDepth(p)
                  BY <1>4
            <3>2. p \in AtDepth(o[i])
                  BY <3>1 DEF AtDepth
            <3>3. i \in 1..Len(listed') /\ listed'[i] = AtDepth(o[i])
                  BY <1>1, <1>4, <1>6, <3>1
            <3> QED BY <3>2, <3>3 DEF Listed
      <2> QED BY <2>1, <2>2
<1>8. Deeper' = Deeper
      BY <1>2 DEF Deeper, DepthsOf
<1>9. BackportTypeOK'
      BY <1>2, <1>6 DEF BackportInv, BackportTypeOK
<1>10. LevelsAreRows' /\ FirstLevelIsAsked' /\ LacksAreLookedUp'
      BY <1>2 DEF BackportInv, LevelsAreRows, FirstLevelIsAsked, LacksAreLookedUp,
                  Rows, Providing, UnmetNames, Unmet, MetBy, AsksFor
<1>11. DeeperIsListed'
      BY <1>2, <1>7, <1>8 DEF DeeperIsListed
<1> QED BY <1>2, <1>9, <1>10, <1>11 DEF BackportInv

LEMMA StutteringKeepsInv == BackportInv /\ UNCHANGED backportVars => BackportInv'
<1> SUFFICES ASSUME BackportInv, UNCHANGED backportVars PROVE BackportInv'
    OBVIOUS
<1>0. /\ backport' = backport /\ lookups' = lookups /\ memory' = memory
      /\ levels' = levels /\ listed' = listed /\ answered' = answered
      BY DEF backportVars
<1>1. BackportTypeOK' /\ (backport \in Backports)'
      BY <1>0 DEF BackportInv, BackportTypeOK
<1>2. LevelsAreRows' /\ FirstLevelIsAsked' /\ LacksAreLookedUp'
      BY <1>0 DEF BackportInv, LevelsAreRows, FirstLevelIsAsked, LacksAreLookedUp,
             Rows, Providing, UnmetNames, Unmet, MetBy, AsksFor
<1>3. DeeperIsListed'
      BY <1>0 DEF BackportInv, DeeperIsListed, Deeper, DepthsOf, Listed
<1> QED BY <1>1, <1>2, <1>3 DEF BackportInv

LEMMA BackportInvStep == BackportInv /\ [BackportNext]_backportVars => BackportInv'
BY LookUpKeepsInv, ListByDepthKeepsInv, StutteringKeepsInv DEF BackportNext

(* The invariant holds for any branches and any request. *)
THEOREM BackportInvariant == BackportSpec => []BackportInv
BY BackportInvInit, BackportInvStep, PTL DEF BackportSpec

(* The variables keep their types. *)
THEOREM BackportTypeCorrect == BackportSpec => []BackportTypeOK
<1>1. BackportInv => BackportTypeOK
      BY DEF BackportInv
<1> QED BY BackportInvariant, <1>1, PTL

LEMMA InvListIsComplete == BackportInv => ListIsComplete
<1> SUFFICES ASSUME BackportInv, answered, NEW p \in Going \cup {backport.srpm[b] : b \in Going},
                    AsksFor(p), NEW r \in Unmet(p), NEW b \in Rpms,
                    r.name \in backport.provides[b], backport.requires[b] # {}
             PROVE  b \in Going
    BY DEF ListIsComplete
<1>1. BackportTypeOK /\ DOMAIN levels = 1..Len(levels) /\ Len(levels) \in Nat
      BY DEF BackportInv, BackportTypeOK
<1>2. \A q \in Going : q \in Providing(memory)
      <2>1. \A q \in Providing(backport.names) : q \in Providing(memory)
            BY DEF BackportInv, FirstLevelIsAsked, DeeperIsListed, Providing
      <2>2. ASSUME NEW q \in Listed PROVE q \in Providing(memory)
            <3>1. q \in Rpms /\ DepthsOf(q) # {}
                  BY DEF BackportInv, DeeperIsListed, Deeper
            <3>2. \E d \in DOMAIN levels : q \in levels[d]
                  BY <1>1, <3>1 DEF DepthsOf
            <3> QED BY <1>1, <3>1, <3>2, RowsAreAsked DEF BackportInv, LevelsAreRows
      <2> QED BY <2>1, <2>2 DEF Going
<1>3. p \in Rows(memory)
      <2>1. backport.requires[p] # {}
            BY DEF Unmet
      <2> QED BY <1>2, <2>1 DEF Rows
<1>4. r.name \in memory
      <2>1. r.name \in UnmetNames(memory)
            BY <1>3 DEF UnmetNames
      <2> QED BY <2>1 DEF BackportInv, LacksAreLookedUp, DeeperIsListed
<1>5. b \in Rows(memory)
      BY <1>4 DEF Rows, Providing
<1>6. PICK d \in DOMAIN levels : b \in levels[d]
      BY <1>5 DEF BackportInv, LevelsAreRows
<1>7. CASE d = 1
      <2>1. b \in Rows(backport.names)
            BY <1>1, <1>6, <1>7 DEF BackportInv, FirstLevelIsAsked
      <2> QED BY <1>1, <2>1, RowsAreAsked DEF Going
<1>8. CASE d # 1
      <2>1. d - 1 \in DepthsOf(b)
            BY <1>1, <1>6, <1>8 DEF DepthsOf
      <2>2. b \in Listed
            BY <2>1 DEF BackportInv, DeeperIsListed, Deeper
      <2> QED BY <2>2 DEF Going
<1> QED BY <1>7, <1>8

(* When the answer is there, every package that provides what one on the   *)
(* list, or asked for, lacks in the other branch is going, too, however    *)
(* the packages require each other (backport_helper.py:223-260).           *)
THEOREM NothingLeftBehind == BackportSpec => []ListIsComplete
BY InvListIsComplete, BackportInvariant, PTL
=============================================================================
