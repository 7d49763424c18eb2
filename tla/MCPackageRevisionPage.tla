------------------------ MODULE MCPackageRevisionPage ------------------------
(* One or two tabs on one package. *)
EXTENDS PackageRevisionPage, TLC

CONSTANTS t1, t2

Tabs == {t1, t2}

Symmetry == Permutations(Tabs)

(* A navigation that ends a request starts a load beyond the bound of the  *)
(* user's steps; this bounds it too.                                       *)
FewLoads == Cardinality(loads) <= MaxLoads
=============================================================================
