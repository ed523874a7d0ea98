---------------------------- MODULE MCManagement ----------------------------
(* Small instances of the management endpoints. *)
EXTENDS Management, TLC

CONSTANTS w1, w2, w3, v1, v2, c1, c2, p1

MCSymmetry == Permutations(Workers)

MCSubscribers == {<<>>, <<1>>}

Json(type, action, v, cpe, branches) ==
    [type |-> type, action |-> action, vuln |-> v, cpe |-> cpe, pkg |-> p1,
     branches |-> branches]

MCJsons ==
    { Json("advisory", "cve", v1, c1, {1, 2}), Json("advisory", "cve", v1, c1, {2}),
      Json("exclusion", "cve", v1, c1, {}), Json("exclusion", "cpe", v1, c1, {}),
      Json("exclusion", "package", v1, c1, {}), Json("exclusion", "cve", v2, c1, {}) }
=============================================================================
