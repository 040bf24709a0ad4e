----------------------------- MODULE ControlGates -----------------------------
(***************************************************************************)
(* The two gates an operator's decision has to close.  Narrated agent      *)
(* actions wait at the narration gate (NarrationGate); page inputs are     *)
(* authorized against the shared-control lease (SharedControl).  They are  *)
(* two locks and nothing ties them together: a CLI command sets the first, *)
(* then the second; a viewer's control command sets only the second; the   *)
(* viewer server's POST /control sets only the first.                      *)
(*                                                                         *)
(* Code: cli/src/daemon/handlers/narration_cmds.rs:23-104 (CLI),           *)
(* view/input.rs:222-279 (viewer socket), view/http.rs:136-146 (POST).     *)
(*                                                                         *)
(* Approvals and annotating mode are left to SharedControl: a command that *)
(* raises no banner never meets them.                                      *)
(***************************************************************************)
EXTENDS Integers, NarrationGate

CONSTANTS
  Commands, Verdicts, Conns, None, MaxVersion, MaxFrame,  \* SharedControl
  CliOperators,     \* connections running CLI control commands
  ViewerOperators,  \* viewer sockets sending control commands
  HttpOperators     \* clients of POST /control

\* Who may set the narration gate; the viewer sockets never do.
ASSUME OperatorsAssumption ==
  Operators = CliOperators \cup ViewerOperators \cup HttpOperators

VARIABLES
  owner, mode, sensitive, controlVersion, frameSeq, pendingApproval,
  approvalExpired, pendingInput, approvedHash, conn, held, agentSince,
  gateMoved, approvalBalance,
  doing,    \* the CLI command each operator is in the middle of, or "none"
  disturbed,\* history: operators whose command met another on its way
  decided,  \* history: the last decision completed with none begun since
  whole,    \* history: it set both gates, and no command came in between
  effects   \* history: agent effects begun since then, capped at 2

Lease == INSTANCE SharedControl

\* What SharedControl assumes of its constants.
ASSUME LeaseAssumption ==
  /\ Verdicts \in [Commands -> SUBSET BOOLEAN]
  /\ MaxVersion \in Nat /\ MaxFrame \in Nat
  /\ None \notin Commands /\ None \notin Lease!Inputs

lease == <<owner, mode, sensitive, controlVersion, frameSeq, pendingApproval,
           approvalExpired, pendingInput, approvedHash, conn, held, agentSince,
           gateMoved, approvalBalance>>
gates == <<active, gate, pc, setter, lastSet, letThrough>>
own == <<doing, disturbed, decided, whole, effects>>
controlVars == <<lease, gates, own>>

\* Mutant of GateOf: step opens the narration gate.
StepOpensGate == [pause |-> "Paused", resume |-> "Running", step |-> "Running",
                  abort |-> "Aborted", release |-> "Running"]

\* What each CLI command stores in the narration gate.
GateOf == [pause |-> "Paused", resume |-> "Running", step |-> "Step",
           abort |-> "Aborted", release |-> "Running"]
CliCommands == DOMAIN GateOf

ControlInit ==
  /\ Lease!Init
  /\ Init
  /\ doing = [o \in CliOperators |-> "none"]
  /\ disturbed = {}
  /\ decided = "free"
  /\ whole = FALSE
  /\ effects = 0

Decision(c) == IF c \in {"pause", "step"} THEN c ELSE "free"
InProgress == {o \in CliOperators : doing[o] # "none"}

\* Any command disturbs the CLI commands that are between their two calls.
Decided(d, w) ==
  /\ decided' = d
  /\ whole' = (w /\ d # "free")
  /\ effects' = 0
Undecided == Decided("free", FALSE)
Effect ==
  effects' = IF decided # "free" /\ effects < 2 THEN effects + 1 ELSE effects

-----------------------------------------------------------------------------
(* CLI commands: narrator.set_control(..).await, then the lease.           *)

CliBegin(o, c) ==
  /\ doing[o] = "none"
  /\ controlVersion < MaxVersion
  /\ Store(o, GateOf[c])
  /\ doing' = [doing EXCEPT ![o] = c]
  /\ disturbed' = IF InProgress = {} THEN disturbed
                  ELSE disturbed \cup InProgress \cup {o}
  /\ Undecided
  /\ UNCHANGED lease

OnLease(c) ==
  \/ c = "pause" /\ Lease!Pause
  \/ c \in {"resume", "release"} /\ Lease!Release
  \/ c = "step" /\ Lease!StepOnce
  \/ c = "abort" /\ Lease!Abort

CliFinish(o) ==
  /\ doing[o] # "none"
  /\ setter[o] = "idle"
  /\ OnLease(doing[o])
  /\ doing' = [doing EXCEPT ![o] = "none"]
  /\ disturbed' = disturbed \ {o}
  /\ Decided(Decision(doing[o]), o \notin disturbed)
  /\ UNCHANGED gates

\* takeover and sensitive touch only the lease, from the CLI as well.
LeaseOnly(o) ==
  /\ o \in CliOperators => doing[o] = "none"
  /\ Lease!Takeover \/ Lease!SensitiveOn \/ Lease!SensitiveOff
  /\ disturbed' = disturbed \cup InProgress
  /\ Undecided
  /\ UNCHANGED <<gates, doing>>

-----------------------------------------------------------------------------
(* The viewer.                                                             *)

ViewerControl(c) ==
  /\ OnLease(c)
  /\ disturbed' = disturbed \cup InProgress
  /\ Decided(Decision(c), FALSE)
  /\ UNCHANGED <<gates, doing>>

PostControl(o, s) ==
  /\ Store(o, s)
  /\ disturbed' = disturbed \cup InProgress
  /\ Undecided
  /\ UNCHANGED <<lease, doing>>

Notify(o) ==
  /\ NotifyWaiters(o)
  /\ UNCHANGED <<lease, own>>

-----------------------------------------------------------------------------
(* The agent.                                                              *)

NarratedPass(a) ==
  /\ Pass(a)
  /\ Effect
  /\ UNCHANGED <<lease, doing, disturbed, decided, whole>>

NarratedOther(a) ==
  /\ \/ StartInactive(a) \/ StartGated(a) \/ TurnAway(a)
     \/ FindPaused(a) \/ Register(a) \/ Finish(a)
  /\ UNCHANGED <<lease, own>>

InputAdmitted(c) ==
  /\ Lease!Admit(c)
  /\ IF conn[c].owner = "agent" THEN Effect ELSE UNCHANGED effects
  /\ UNCHANGED <<gates, doing, disturbed, decided, whole>>

InputOther(c) ==
  /\ Lease!Send(c) \/ Lease!Reject(c) \/ Lease!Dispatch(c)
  /\ UNCHANGED <<gates, own>>

ViewerStarts == Activate /\ UNCHANGED <<lease, own>>

-----------------------------------------------------------------------------
ControlNext ==
  \/ \E o \in CliOperators :
       (\E c \in CliCommands : CliBegin(o, c)) \/ CliFinish(o)
  \/ \E o \in CliOperators \cup ViewerOperators : LeaseOnly(o)
  \/ \E o \in ViewerOperators, c \in CliCommands \ {"resume"} : ViewerControl(c)
  \/ \E o \in HttpOperators, s \in ControlStates : PostControl(o, s)
  \/ \E o \in Operators : Notify(o)
  \/ \E a \in Actions : NarratedPass(a) \/ NarratedOther(a)
  \/ \E c \in Conns : InputAdmitted(c) \/ InputOther(c)
  \/ ViewerStarts

ControlSpec == ControlInit /\ [][ControlNext]_controlVars

-----------------------------------------------------------------------------
\* Once a CLI pause has completed that met no other command between its two
\* calls, and until the next decision begins, no agent effect begins at
\* either gate: the two-step command leaves no moment at which it is complete
\* and a gate still open.
PauseHoldsTheAgent == decided = "pause" /\ whole => effects = 0

\* After such a step each gate admits at most one agent effect.
StepAdmitsOnePerGate ==
  decided = "step" /\ whole => letThrough <= 1 /\ agentSince <= 1
=============================================================================
