---------------------------- MODULE MCPackageSync ----------------------------
(* Two tabs on one deployed package. *)
EXTENDS PackageSync, TLC, FiniteSets

CONSTANTS t1, t2

Tabs == {t1, t2}

Symmetry == Permutations(Tabs)

(* Bound: one read of the RootSync is under way. *)
FewReads ==
    LET calls == {t \in Tab : "call" \in page[t].polling}
        searches == {t \in Tab : page[t].searches # {}}
    IN Cardinality(calls) + Cardinality(searches) <= 1
=============================================================================
