-------------------------- MODULE MCExtensionBuild --------------------------
(***************************************************************************)
(* An extension of two C files, which is enough for one of them to be up   *)
(* to date, defective, removed or added while the other is not.            *)
(***************************************************************************)
EXTENDS ExtensionBuild, TLC

CONSTANTS a, b, temp

MCSource == {a, b}

Symmetry == Permutations(MCSource)
=============================================================================
