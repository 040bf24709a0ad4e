----------------------------- MODULE MCRecording -----------------------------
(* TLC instance of Recording.                                               *)
EXTENDS Recording, TLC

Symmetry == Permutations(CliTasks)
=============================================================================
