--------------------------- MODULE MCPackageUpgrade ---------------------------
(* Two packages, each a clone of one of two blueprints or of neither. *)
EXTENDS PackageUpgrade, TLC, FiniteSets

CONSTANTS p1, p2, b1, b2

Packages == {p1, p2}

Blueprints == {b1, b2}

Symmetry == Permutations(Packages) \union Permutations(Blueprints)

(* Bound: one load is overtaken at a time. *)
FewLoads == Cardinality(page.loads) <= 1

(* Bound: the revisions of one blueprint change. *)
OneBlueprintChanges == \E b \in Blueprint : tags[b] = {1}
=============================================================================
