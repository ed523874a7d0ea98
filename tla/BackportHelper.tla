--------------------------- MODULE BackportHelper ---------------------------
(***************************************************************************)
(* Which packages have to go along when some are backported from a branch  *)
(* to another one: altrepo_api/api/dependencies/endpoints/                 *)
(* backport_helper.py.  Names are looked up in the first branch; what the  *)
(* packages found require and the second branch does not provide are the   *)
(* names of the next level.  The states of both branches are copied to     *)
(* temporary tables first, so that they stay as they are.  A requirement   *)
(* is a name and whether only the newer branch's version of it will do.    *)
(***************************************************************************)
EXTENDS Naturals, Sequences, FiniteSets

CONSTANTS
    Srpms,         \* source packages of the branch that is backported from
    Rpms,          \* its binary packages, for the architectures asked for
    Capabilities,  \* names that are required and provided
    Backports      \* the branches and requests that are looked at

Requirement == [name : Capabilities, newer : BOOLEAN]
Provision == [name : Capabilities, newer : BOOLEAN, arch : {"noarch", "x86_64"}]
Backport == [requires : [Srpms \cup Rpms -> SUBSET Requirement],
             provides : [Rpms -> SUBSET Capabilities],
             srpm : [Rpms -> Srpms],
             arch : [Rpms -> {"noarch", "x86_64"}],
             into : SUBSET Provision,        \* what the other branch provides
             assumed : SUBSET Capabilities,  \* rpmlib(...), names of files
             names : SUBSET Capabilities,    \* packages_names
             dpType : {"both", "source", "binary"}]

ASSUME BackportsAssumption ==
    Srpms \cap Rpms = {} /\ IsFiniteSet(Rpms) /\ Backports \subseteq Backport

VARIABLES
    backport,  \* the branches and the request
    lookups,   \* dependencies_names
    memory,    \* the names that have been looked up
    levels,    \* backport_list: levels[i] has depth i - 1
    listed,    \* the levels of the answer, from depth 1 on
    answered

backportVars == <<backport, lookups, memory, levels, listed, answered>>

BackportIdle ==
    /\ lookups = backport.names
    /\ memory = {}
    /\ levels = <<>>
    /\ listed = <<>>
    /\ answered = FALSE

BackportInit == backport \in Backports /\ BackportIdle

(* Packages that provide one of the names, and their source packages, as   *)
(* far as they require anything.                                           *)
Providing(names) == {b \in Rpms : backport.provides[b] \cap names # {}}
Rows(names) ==
    {p \in Providing(names) \cup {backport.srpm[b] : b \in Providing(names)} :
        backport.requires[p] # {}}

(* A binary package's requirement is met by a package of its architecture; *)
(* one that is "noarch" does for "noarch" and source packages only.        *)
MetBy(p, r, v) ==
    /\ r.name = v.name
    /\ r.newer => v.newer
    /\ p \in Rpms => backport.arch[p] \in {"noarch", v.arch}
Unmet(p) ==
    {r \in backport.requires[p] :
        r.name \notin backport.assumed /\ \A v \in backport.into : ~MetBy(p, r, v)}

AsksFor(p) == backport.dpType = "both" \/ (p \in Srpms <=> backport.dpType = "source")
UnmetNames(names) == {r.name : r \in UNION {Unmet(p) : p \in {q \in Rows(names) : AsksFor(q)}}}

(* Mutant of LookUp: the requirements are remembered instead of what was   *)
(* looked up.                                                              *)
LookUpRemembersUnmet ==
    /\ ~answered /\ lookups # {}
    /\ LET names == lookups \ memory
       IN  /\ memory' = memory \cup UnmetNames(names)
           /\ lookups' = UnmetNames(names)
           /\ levels' = Append(levels, Rows(names))
    /\ UNCHANGED <<backport, listed, answered>>

(* A level: names that were looked up before are left out. *)
LookUp ==
    /\ ~answered /\ lookups # {}
    /\ LET names == lookups \ memory
       IN  /\ memory' = memory \cup names
           /\ lookups' = UnmetNames(names)
           /\ levels' = Append(levels, Rows(names))
    /\ UNCHANGED <<backport, listed, answered>>

(* A binary package is listed for the last level it is in; those of the    *)
(* first level only, the packages asked for, are not listed.               *)
DepthsOf(p) == {d \in 1..(Len(levels) - 1) : p \in levels[d + 1]}
FirstDepth(p) == CHOOSE d \in DepthsOf(p) : \A e \in DepthsOf(p) : d <= e
LastDepth(p) == CHOOSE d \in DepthsOf(p) : \A e \in DepthsOf(p) : e <= d
Deeper == {p \in Rpms : DepthsOf(p) # {}}
AtDepth(d) == {p \in Deeper : LastDepth(p) = d}

(* The levels that are left come in the order in which the dictionary got  *)
(* the packages, each one when it was first found, and are counted anew.   *)
Entered(d) == CHOOSE f \in {FirstDepth(p) : p \in AtDepth(d)} :
                  \A p \in AtDepth(d) : f <= FirstDepth(p)
Orders ==
    LET depths == {LastDepth(p) : p \in Deeper}
    IN  {o \in [1..Cardinality(depths) -> depths] :
            /\ \A d \in depths : \E i \in DOMAIN o : o[i] = d
            /\ \A i, j \in DOMAIN o : i < j => Entered(o[i]) <= Entered(o[j])}

ListByDepth ==
    /\ ~answered /\ lookups = {}
    /\ \E o \in Orders : listed' = [i \in DOMAIN o |-> AtDepth(o[i])]
    /\ answered' = TRUE
    /\ UNCHANGED <<backport, lookups, memory, levels>>

BackportNext == LookUp \/ ListByDepth

BackportSpec ==
    BackportInit /\ [][BackportNext]_backportVars /\ WF_backportVars(BackportNext)

BackportTypeOK ==
    /\ backport \in Backport
    /\ lookups \subseteq Capabilities
    /\ memory \subseteq Capabilities
    /\ levels \in Seq(SUBSET (Srpms \cup Rpms))
    /\ listed \in Seq(SUBSET Rpms)
    /\ answered \in BOOLEAN

-----------------------------------------------------------------------------
(* "Find packages required to backport too" (backport_helper.py:75): all   *)
(* that provide what a package on the list, or asked for, or its source    *)
(* package requires and the other branch lacks are on the list or asked    *)
(* for themselves, for however many levels and although names and packages *)
(* come again.  Packages that require nothing at all are never found.      *)
Listed == UNION {listed[i] : i \in 1..Len(listed)}
Going == Listed \cup Providing(backport.names)
ListIsComplete ==
    answered =>
        \A p \in Going \cup {backport.srpm[b] : b \in Going} :
            AsksFor(p) =>
                \A r \in Unmet(p), b \in Rpms :
                    r.name \in backport.provides[b] /\ backport.requires[b] # {} => b \in Going

(* The levels end although packages may require each other, for no name is *)
(* looked up twice (backport_helper.py:223-260).                           *)
BackportAnswered == <>answered
=============================================================================
