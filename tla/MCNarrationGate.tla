--------------------------- MODULE MCNarrationGate ---------------------------
(* TLC instance of NarrationGate.                                           *)
EXTENDS NarrationGate, TLC

Symmetry == Permutations(Actions) \cup Permutations(Operators)
=============================================================================
