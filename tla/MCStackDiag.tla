---------------------------- MODULE MCStackDiag ----------------------------
(***************************************************************************)
(* Instances of StackDiag for TLC: two resources, es and kb, or es alone.  *)
(***************************************************************************)
EXTENDS StackDiag, TLC

CONSTANTS es, kb

\* For safety only: the two resources are alike when both have a keystore.
Symmetry == Permutations({es, kb})
=============================================================================
