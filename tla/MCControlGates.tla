---------------------------- MODULE MCControlGates ----------------------------
(* TLC instance of ControlGates: one harmless command.                       *)
EXTENDS ControlGates, TLC

MCVerdicts == [c \in Commands |-> {FALSE}]
Symmetry == Permutations(CliOperators)
=============================================================================
