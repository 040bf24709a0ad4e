------------------------------ MODULE ActionGate ------------------------------
(***************************************************************************)
(* What the narration gate promises to the agent's actions, without the    *)
(* mutex and the notification that implement it: an action that asks is    *)
(* let through by Running, let through once by Step (which then pauses),   *)
(* turned away once by Aborted (which then runs), and held by Paused.      *)
(*                                                                         *)
(* Code: the contract stated on Control::wait_go                           *)
(* (cli/src/daemon/narration/control.rs:39-40).                            *)
(***************************************************************************)
CONSTANT Actions      \* agent actions that go through the gate

VARIABLES gate,       \* ControlState
          phase       \* "idle", "asking" or "running", per action

vars == <<gate, phase>>

ControlStates == {"Running", "Paused", "Step", "Aborted"}

TypeOK ==
  /\ gate \in ControlStates
  /\ phase \in [Actions -> {"idle", "asking", "running"}]

Init == gate = "Running" /\ phase = [a \in Actions |-> "idle"]

SetGate(s) == gate' = s /\ UNCHANGED phase

Ask(a) ==
  /\ phase[a] = "idle"
  /\ phase' = [phase EXCEPT ![a] = "asking"]
  /\ UNCHANGED gate

\* An action that runs while no viewer was ever started is not gated.
Bypass(a) ==
  /\ phase[a] = "idle"
  /\ phase' = [phase EXCEPT ![a] = "running"]
  /\ UNCHANGED gate

Pass(a) ==
  /\ phase[a] = "asking"
  /\ \/ gate = "Running" /\ UNCHANGED gate
     \/ gate = "Step" /\ gate' = "Paused"
  /\ phase' = [phase EXCEPT ![a] = "running"]

TurnAway(a) ==
  /\ phase[a] = "asking"
  /\ gate = "Aborted"
  /\ gate' = "Running"
  /\ phase' = [phase EXCEPT ![a] = "idle"]

Finish(a) ==
  /\ phase[a] = "running"
  /\ phase' = [phase EXCEPT ![a] = "idle"]
  /\ UNCHANGED gate

Next ==
  \/ \E s \in ControlStates : SetGate(s)
  \/ \E a \in Actions :
       Ask(a) \/ Bypass(a) \/ Pass(a) \/ TurnAway(a) \/ Finish(a)

Spec == Init /\ [][Next]_vars
=============================================================================
