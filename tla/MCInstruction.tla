---------------------------- MODULE MCInstruction ----------------------------
(* TLC instance of Instruction: every kind of instruction, every capability. *)
EXTENDS Instruction

=============================================================================
