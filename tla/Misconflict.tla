----------------------------- MODULE Misconflict -----------------------------
(***************************************************************************)
(* Files that several packages bring along without declaring a conflict:   *)
(* altrepo_api/api/package/endpoints/misconflict_packages.py, and the      *)
(* declared conflicts, altrepo_api/libs/conflict_filter.py.  A package is  *)
(* known by its hash in the tables and by its name in the answer.  All     *)
(* packages have an architecture in common.                                *)
(***************************************************************************)
EXTENDS Naturals, Sequences, Functions

CONSTANTS Hashes, Files

(* The names of the packages, which of them are asked about, the rows of   *)
(* the database, the files that are equal in two packages, and the pairs   *)
(* <<A, B>> where A declares a conflict with what B provides.  A row is of *)
(* a package asked about and another one with some files in common.        *)
Row == [input : Hashes, other : Hashes, files : (SUBSET Files) \ {{}}]
Tables == [name : [Hashes -> Hashes], inputs : SUBSET Hashes, rows : Seq(Row),
           equal : SUBSET (Hashes \X Hashes \X Files), declared : SUBSET (Hashes \X Hashes)]
AsksAboutInputs(t) == \A r \in Range(t.rows) : r.input \in t.inputs /\ r.other \notin t.inputs

Equal(t, r) == {f \in r.files : <<r.input, r.other, f>> \in t.equal}

-----------------------------------------------------------------------------
(* A row as a ConflicFiles tuple, and one made anew of the files that are  *)
(* not equal: its last two members change places.                          *)
AsFound(t, r) ==
    [input |-> r.input, other |-> r.other, files |-> r.files,
     otherName |-> t.name[r.other], inputName |-> t.name[r.input]]
Filtered(t, r) ==
    [input |-> r.input, other |-> r.other, files |-> r.files \ Equal(t, r),
     otherName |-> t.name[r.input], inputName |-> t.name[r.other]]

Unequal(t) == {i \in DOMAIN t.rows : Equal(t, t.rows[i]) = {}}
Partly(t) == {i \in DOMAIN t.rows : Equal(t, t.rows[i]) \notin {{}, t.rows[i].files}}

(* Mutant of FilterEqual: a row with an equal file is dropped. *)
FilterEqualAny(t) == [i \in Unequal(t) |-> AsFound(t, t.rows[i])]

(* Rows of equal files are removed, those with some equal files go to the  *)
(* end of the list.  Places that are left empty are not closed up.         *)
FilterEqual(t) ==
    LET end == Len(t.rows)
    IN  [i \in Unequal(t) \cup {end + j : j \in Partly(t)} |->
            IF i \in Unequal(t) THEN AsFound(t, t.rows[i]) ELSE Filtered(t, t.rows[i - end])]

(* hsh_name_dict: the last tuple with a hash gives its name. *)
NameOf(tuples, h) ==
    LET last == CHOOSE i \in DOMAIN tuples :
                    /\ h \in {tuples[i].input, tuples[i].other}
                    /\ \A j \in DOMAIN tuples :
                          h \in {tuples[j].input, tuples[j].other} => j <= i
    IN  IF tuples[last].input = h THEN tuples[last].inputName ELSE tuples[last].otherName

(* detect_conflict, and filter_ls_names: pairs of the names of what was    *)
(* asked about and the other one.                                          *)
Detected(t, tuples) ==
    UNION {{<<c.other, c.input>>, <<c.input, c.other>>} \cap t.declared : c \in Range(tuples)}
InputFirst(t, pair) == IF pair[1] \in t.inputs THEN pair ELSE <<pair[2], pair[1]>>
DeclaredNames(t, tuples) ==
    {<<NameOf(tuples, InputFirst(t, p)[1]), NameOf(tuples, InputFirst(t, p)[2])>> :
        p \in Detected(t, tuples)}

(* What is answered, before the files of a pair are joined. *)
Report(t) ==
    LET tuples == FilterEqual(t)
        declared == DeclaredNames(t, tuples)
    IN  {[pair |-> <<c.inputName, c.otherName>>, files |-> c.files] :
            c \in {d \in Range(tuples) : <<d.inputName, d.otherName>> \notin declared}}

-----------------------------------------------------------------------------
PartlyEqual(t) == Partly(t) # {}
NamesDeclared(t, pair) ==
    \E r \in Range(t.rows) :
        /\ pair = <<t.name[r.input], t.name[r.other]>>
        /\ r.files # Equal(t, r)
        /\ <<r.input, r.other>> \in t.declared \/ <<r.other, r.input>> \in t.declared

Differs(t, pair, f) ==
    \E r \in Range(t.rows) :
        /\ f \in r.files \ Equal(t, r)
        /\ pair = <<t.name[r.input], t.name[r.other]>>
Reported(report, pair, f) == \E e \in report : e.pair = pair /\ f \in e.files

(* A file is reported for two packages only if it differs in packages of   *)
(* these names; it is whenever it does, if no conflicts are declared, or   *)
(* the packages declare none and no row has both equal and different files *)
(* (misconflict_packages.py:259-292, 345-424).                             *)
DifferencesReported(t, report) ==
    \A m, n \in Range(t.name), f \in Files :
        /\ Reported(report, <<m, n>>, f) =>
              Differs(t, <<m, n>>, f) \/ (PartlyEqual(t) /\ Differs(t, <<n, m>>, f))
        /\ ~PartlyEqual(t) /\ Differs(t, <<m, n>>, f) =>
              (Reported(report, <<m, n>>, f) <=> ~NamesDeclared(t, <<m, n>>))
        /\ t.declared = {} /\ Differs(t, <<m, n>>, f) =>
              Reported(report, <<m, n>>, f) \/ Reported(report, <<n, m>>, f)
=============================================================================
