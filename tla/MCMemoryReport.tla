--------------------------- MODULE MCMemoryReport ---------------------------
(***************************************************************************)
(* Two models on two ports that are reused, two loads.                   *)
(***************************************************************************)
EXTENDS MemoryReport, TLC

Symmetry == Permutations(Served) \union Permutations(Ports) \union Permutations(Launchable)
=============================================================================
