-------------------------- MODULE MCModelRegistry --------------------------
(***************************************************************************)
(* Two files, one of them also under the id an older version gave it.      *)
(***************************************************************************)
EXTENDS ModelRegistry, TLC

CONSTANTS f1, f2, i1, i2, m1, m1old, m2

MCPathOf  == m1 :> f1 @@ m1old :> f1 @@ m2 :> f2
MCIdOf    == f1 :> m1 @@ f2 :> m2
Symmetry == Permutations(Actors)

MCIdentOf == m1 :> i1 @@ m1old :> i1 @@ m2 :> i2
=============================================================================
