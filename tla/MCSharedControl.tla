--------------------------- MODULE MCSharedControl ---------------------------
(* TLC instance of SharedControl: one harmless command and one pointer      *)
(* command whose verdict depends on the refs under it.                      *)
EXTENDS SharedControl, TLC

CONSTANTS type, click

MCVerdicts == type :> {FALSE} @@ click :> BOOLEAN
Symmetry == Permutations(Conns)
=============================================================================
