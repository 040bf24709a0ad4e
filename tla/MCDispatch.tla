------------------------------ MODULE MCDispatch ------------------------------
(* TLC instance of Dispatch: connections and pages are interchangeable.     *)
EXTENDS Dispatch, TLC

Symmetry == Permutations(Tasks) \cup Permutations(Pages)
=============================================================================
