-------------------------- MODULE MCFileCheckpoints --------------------------
(* The sessions of one directory are alike, and only safety is checked. *)
EXTENDS FileCheckpoints, TLC

Symmetry == Permutations(Sessions)
=============================================================================
