---------------------------- MODULE MCPageSearch ----------------------------
(* TLC instance of PageSearch. *)
EXTENDS PageSearch, TLC

MCNumbers == -2 .. 6

\* Texts are only compared with each other.
Symmetry == Permutations(Texts)
=============================================================================
