---------------------------- MODULE MCAppUpdate ----------------------------
(* The processes of AppUpdate are interchangeable.                         *)
EXTENDS AppUpdate, TLC

Symmetry == Permutations(Procs)
=============================================================================
