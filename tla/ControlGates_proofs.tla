-------------------------- MODULE ControlGates_proofs --------------------------
(***************************************************************************)
(* Proofs about ControlGates and the narration gate in it, for any         *)
(* operators, actions and connections.  The composition is a restriction   *)
(* of its two parts: each of its steps is a step of the lease, of the      *)
(* narration gate, of both or of neither (LeaseRefined, GateRefined), so   *)
(* what is proved of a part holds here. What only the composition can say, *)
(* that a decision which takes two calls closes both gates, needs two      *)
(* strengthenings: the first call of a command that met no other is still  *)
(* what the gate was set to last (FirstCallStands), and a decision that    *)
(* stands was made at both gates (WholeDecision).                          *)
(***************************************************************************)
EXTENDS ControlGates, TLAPS

LeaseP == INSTANCE SharedControl_proofs

-----------------------------------------------------------------------------
(* The narration gate by itself: its types, the promise of module          *)
(* NarrationGate that one decision is one action, and that it refines its  *)
(* contract, module ActionGate.  None of it depends on who the operators   *)
(* are.                                                                    *)

\* What the gate shows of the latest decision: a pause stays until the next
\* set(); a step or an abort stays until one action has consumed it.
DecisionShows ==
  /\ lastSet = "Paused" => gate = "Paused" /\ letThrough = 0
  /\ lastSet = "Step" => \/ gate = "Step" /\ letThrough = 0
                         \/ gate = "Paused" /\ letThrough <= 1
  /\ lastSet = "Aborted" => \/ gate = "Aborted" /\ letThrough = 0
                            \/ gate = "Running"

GateIInv == TypeOK /\ DecisionShows

\* activate() only ever stores true.
LEMMA GateActiveStep ==
  active \in BOOLEAN /\ [Next]_vars => active' \in BOOLEAN
PROOF
  <1> SUFFICES ASSUME active \in BOOLEAN, [Next]_vars
               PROVE  active' \in BOOLEAN
    OBVIOUS
  <1>1. CASE Activate
    BY <1>1, Zenon DEF Activate
  <1>2. ASSUME NEW a \in Actions, StartInactive(a)
        PROVE  active' \in BOOLEAN
    BY <1>2, Zenon DEF StartInactive
  <1>3. ASSUME NEW a \in Actions, StartGated(a) PROVE active' \in BOOLEAN
    BY <1>3, Zenon DEF StartGated
  <1>4. ASSUME NEW a \in Actions, Pass(a) PROVE active' \in BOOLEAN
    BY <1>4, Zenon DEF Pass
  <1>5. ASSUME NEW a \in Actions, TurnAway(a) PROVE active' \in BOOLEAN
    BY <1>5, Zenon DEF TurnAway
  <1>6. ASSUME NEW a \in Actions, FindPaused(a) PROVE active' \in BOOLEAN
    BY <1>6, Zenon DEF FindPaused
  <1>7. ASSUME NEW a \in Actions, Register(a) PROVE active' \in BOOLEAN
    BY <1>7, Zenon DEF Register
  <1>8. ASSUME NEW a \in Actions, Finish(a) PROVE active' \in BOOLEAN
    BY <1>8, Zenon DEF Finish
  <1>9. ASSUME NEW o \in Operators, NEW s \in ControlStates,
               Store(o, s)
        PROVE  active' \in BOOLEAN
    BY <1>9, Zenon DEF Store
  <1>10. ASSUME NEW o \in Operators, NotifyWaiters(o)
        PROVE  active' \in BOOLEAN
    BY <1>10, Zenon DEF NotifyWaiters
  <1>11. CASE UNCHANGED vars
    BY <1>11, Zenon DEF vars
  <1> QED
    BY <1>1, <1>2, <1>3, <1>4, <1>5, <1>6, <1>7, <1>8, <1>9, <1>10, <1>11
    DEF Next, ActionStep, WaitGo, OperatorStep

\* Every step keeps every variable in its type.
LEMMA GateTypeStep == TypeOK /\ [Next]_vars => TypeOK'
PROOF
  <1> SUFFICES ASSUME TypeOK, [Next]_vars PROVE TypeOK'
    OBVIOUS
  <1>0. active' \in BOOLEAN
    BY GateActiveStep DEF TypeOK
  <1>1. CASE Activate
    BY <1>0, <1>1 DEF TypeOK, Places, Blocked,
       ControlStates, Goto, Count, Activate
  <1>2. ASSUME NEW a \in Actions, StartInactive(a) PROVE TypeOK'
    BY <1>0, <1>2 DEF TypeOK, Places, Blocked,
       ControlStates, Goto, Count, StartInactive
  <1>3. ASSUME NEW a \in Actions, StartGated(a) PROVE TypeOK'
    BY <1>0, <1>3 DEF TypeOK, Places, Blocked,
       ControlStates, Goto, Count, StartGated
  <1>4. ASSUME NEW a \in Actions, Pass(a) PROVE TypeOK'
    BY <1>0, <1>4 DEF TypeOK, Places, Blocked,
       ControlStates, Goto, Count, Pass
  <1>5. ASSUME NEW a \in Actions, TurnAway(a) PROVE TypeOK'
    BY <1>0, <1>5 DEF TypeOK, Places, Blocked,
       ControlStates, Goto, Count, TurnAway
  <1>6. ASSUME NEW a \in Actions, FindPaused(a) PROVE TypeOK'
    BY <1>0, <1>6 DEF TypeOK, Places, Blocked,
       ControlStates, Goto, Count, FindPaused
  <1>7. ASSUME NEW a \in Actions, Register(a) PROVE TypeOK'
    BY <1>0, <1>7 DEF TypeOK, Places, Blocked,
       ControlStates, Goto, Count, Register
  <1>8. ASSUME NEW a \in Actions, Finish(a) PROVE TypeOK'
    BY <1>0, <1>8 DEF TypeOK, Places, Blocked,
       ControlStates, Goto, Count, Finish
  <1>9. ASSUME NEW o \in Operators, NEW s \in ControlStates,
               Store(o, s)
        PROVE  TypeOK'
    BY <1>0, <1>9 DEF TypeOK, Places, Blocked,
       ControlStates, Goto, Count, Store
  <1>10. ASSUME NEW o \in Operators, NotifyWaiters(o) PROVE TypeOK'
    BY <1>0, <1>10 DEF TypeOK, Places, Blocked,
       ControlStates, Goto, Count, NotifyWaiters
  <1>11. CASE UNCHANGED vars
    BY <1>0, <1>11 DEF TypeOK, vars
  <1> QED
    BY <1>1, <1>2, <1>3, <1>4, <1>5, <1>6, <1>7, <1>8, <1>9, <1>10, <1>11
    DEF Next, ActionStep, WaitGo, OperatorStep

\* Every step keeps the decision visible.
LEMMA GateDecisionStep == GateIInv /\ [Next]_vars => DecisionShows'
PROOF
  <1> SUFFICES ASSUME TypeOK, DecisionShows, [Next]_vars
               PROVE  DecisionShows'
    BY DEF GateIInv
  <1>1. CASE Activate
    BY <1>1 DEF TypeOK, DecisionShows, ControlStates, Count,
       Activate
  <1>2. ASSUME NEW a \in Actions, StartInactive(a) PROVE DecisionShows'
    BY <1>2 DEF TypeOK, DecisionShows, ControlStates, Count,
       StartInactive
  <1>3. ASSUME NEW a \in Actions, StartGated(a) PROVE DecisionShows'
    BY <1>3 DEF TypeOK, DecisionShows, ControlStates, Count,
       StartGated
  <1>4. ASSUME NEW a \in Actions, Pass(a) PROVE DecisionShows'
    BY <1>4 DEF TypeOK, DecisionShows, ControlStates, Count,
       Pass
  <1>5. ASSUME NEW a \in Actions, TurnAway(a) PROVE DecisionShows'
    BY <1>5 DEF TypeOK, DecisionShows, ControlStates, Count,
       TurnAway
  <1>6. ASSUME NEW a \in Actions, FindPaused(a) PROVE DecisionShows'
    BY <1>6 DEF TypeOK, DecisionShows, ControlStates, Count,
       FindPaused
  <1>7. ASSUME NEW a \in Actions, Register(a) PROVE DecisionShows'
    BY <1>7 DEF TypeOK, DecisionShows, ControlStates, Count,
       Register
  <1>8. ASSUME NEW a \in Actions, Finish(a) PROVE DecisionShows'
    BY <1>8 DEF TypeOK, DecisionShows, ControlStates, Count,
       Finish
  <1>9. ASSUME NEW o \in Operators, NEW s \in ControlStates,
               Store(o, s)
        PROVE  DecisionShows'
    BY <1>9 DEF TypeOK, DecisionShows, ControlStates, Count,
       Store
  <1>10. ASSUME NEW o \in Operators, NotifyWaiters(o) PROVE DecisionShows'
    BY <1>10 DEF TypeOK, DecisionShows, ControlStates, Count,
       NotifyWaiters
  <1>11. CASE UNCHANGED vars
    BY <1>11 DEF TypeOK, DecisionShows, ControlStates, Count,
       vars
  <1> QED
    BY <1>1, <1>2, <1>3, <1>4, <1>5, <1>6, <1>7, <1>8, <1>9, <1>10, <1>11
    DEF Next, ActionStep, WaitGo, OperatorStep

\* The gate, the actions and the operators keep their types.
THEOREM GateTypeCorrect == Spec => []TypeOK
PROOF
  <1>1. Init => TypeOK
    <2>1. Init => active \in BOOLEAN
      BY Zenon DEF Init
    <2> QED BY <2>1
            DEF Init, TypeOK, ControlStates, Places,
                Blocked
  <1> QED BY <1>1, GateTypeStep, PTL DEF Spec

\* The decision stays visible in the gate, in every behaviour.
THEOREM GateInvariance == Spec => []GateIInv
PROOF
  <1>1. Init => DecisionShows
    BY DEF Init, DecisionShows
  <1>2. TypeOK /\ DecisionShows /\ [Next]_vars
          => DecisionShows'
    BY GateDecisionStep DEF GateIInv
  <1>3. TypeOK /\ DecisionShows => GateIInv
    BY DEF GateIInv
  <1> QED BY <1>1, <1>2, <1>3, GateTypeCorrect, PTL DEF Spec

\* Any number of actions and operators: no action passes after a pause, at
\* most one after a step, and an abort is consumed by the first it turns away.
THEOREM GateDecisionSafety == Spec => []OneDecisionOneAction
PROOF
  <1>1. GateIInv => OneDecisionOneAction
    BY DEF GateIInv, DecisionShows, OneDecisionOneAction, TypeOK
  <1> QED BY <1>1, GateInvariance, PTL

-----------------------------------------------------------------------------
(* Refinement.                                                             *)

\* The contract's phase of every action.
GatePhases == [a \in Actions |-> Phase(pc[a])]

\* Moving one action changes its phase alone.
LEMMA GatePhaseOfGoto ==
  ASSUME TypeOK, NEW a \in Actions, NEW p \in Places, Goto(a, p)
  PROVE  GatePhases' = [GatePhases EXCEPT ![a] = Phase(p)]
PROOF BY DEF TypeOK, Goto, GatePhases

\* Every step of the implementation is a step of the contract or changes
\* nothing the contract talks about.
LEMMA GateContractStep ==
  TypeOK /\ [Next]_vars
    => [Contract!Next]_(Contract!vars)
PROOF
  <1> SUFFICES ASSUME TypeOK, [Next]_vars
               PROVE  [Contract!Next]_(Contract!vars)
    OBVIOUS
  <1>1. CASE Activate
    <2>1. GatePhases' = GatePhases /\ gate' = gate
      BY <1>1 DEF Activate, GatePhases
    <2> QED BY <2>1 DEF Contract!vars, GatePhases
  <1>2. ASSUME NEW a \in Actions, StartInactive(a)
        PROVE  [Contract!Next]_(Contract!vars)
    <2>1. GatePhases' = [GatePhases EXCEPT ![a] = Phase("running")]
      BY <1>2, GatePhaseOfGoto DEF StartInactive, Places,
         Blocked
    <2>2. Contract!Bypass(a)
      BY <1>2, <2>1 DEF StartInactive, Contract!Bypass, GatePhases,
         Phase, Blocked
    <2> QED BY <2>2 DEF Contract!Next
  <1>3. ASSUME NEW a \in Actions, StartGated(a)
        PROVE  [Contract!Next]_(Contract!vars)
    <2>1. GatePhases' = [GatePhases EXCEPT ![a] = Phase("asking")]
      BY <1>3, GatePhaseOfGoto DEF StartGated, Places, Blocked
    <2>2. Contract!Ask(a)
      BY <1>3, <2>1 DEF StartGated, Contract!Ask, GatePhases,
         Phase, Blocked
    <2> QED BY <2>2 DEF Contract!Next
  <1>4. ASSUME NEW a \in Actions, Pass(a)
        PROVE  [Contract!Next]_(Contract!vars)
    <2>1. GatePhases' = [GatePhases EXCEPT ![a] = Phase("running")]
      BY <1>4, GatePhaseOfGoto DEF Pass, Places, Blocked
    <2>2. Contract!Pass(a)
      BY <1>4, <2>1 DEF Pass, Contract!Pass, GatePhases, Phase,
         Blocked
    <2> QED BY <2>2 DEF Contract!Next
  <1>5. ASSUME NEW a \in Actions, TurnAway(a)
        PROVE  [Contract!Next]_(Contract!vars)
    <2>1. GatePhases' = [GatePhases EXCEPT ![a] = Phase("idle")]
      BY <1>5, GatePhaseOfGoto DEF TurnAway, Places, Blocked
    <2>2. Contract!TurnAway(a)
      BY <1>5, <2>1 DEF TurnAway, Contract!TurnAway, GatePhases,
         Phase, Blocked
    <2> QED BY <2>2 DEF Contract!Next
  <1>6. ASSUME NEW a \in Actions, FindPaused(a)
        PROVE  [Contract!Next]_(Contract!vars)
    <2>1. GatePhases' = GatePhases /\ gate' = gate
      BY <1>6 DEF FindPaused, Goto, TypeOK, GatePhases,
         Phase, Blocked
    <2> QED BY <2>1 DEF Contract!vars, GatePhases
  <1>7. ASSUME NEW a \in Actions, Register(a)
        PROVE  [Contract!Next]_(Contract!vars)
    <2>1. GatePhases' = GatePhases /\ gate' = gate
      BY <1>7 DEF Register, Goto, TypeOK, GatePhases,
         Phase, Blocked
    <2> QED BY <2>1 DEF Contract!vars, GatePhases
  <1>8. ASSUME NEW a \in Actions, Finish(a)
        PROVE  [Contract!Next]_(Contract!vars)
    <2>1. GatePhases' = [GatePhases EXCEPT ![a] = Phase("idle")]
      BY <1>8, GatePhaseOfGoto DEF Finish, Places, Blocked
    <2>2. Contract!Finish(a)
      BY <1>8, <2>1 DEF Finish, Contract!Finish, GatePhases,
         Phase, Blocked
    <2> QED BY <2>2 DEF Contract!Next
  <1>9. ASSUME NEW o \in Operators, NEW s \in ControlStates,
               Store(o, s)
        PROVE  [Contract!Next]_(Contract!vars)
    <2>1. Contract!SetGate(s)
      BY <1>9 DEF Store, Contract!SetGate
    <2> QED BY <2>1
            DEF Contract!Next, Contract!ControlStates,
                ControlStates
  <1>10. ASSUME NEW o \in Operators, NotifyWaiters(o)
        PROVE  [Contract!Next]_(Contract!vars)
    <2>1. GatePhases' = GatePhases /\ gate' = gate
      BY <1>10 DEF NotifyWaiters, TypeOK, GatePhases, Phase,
         Blocked
    <2> QED BY <2>1 DEF Contract!vars, GatePhases
  <1>11. CASE UNCHANGED vars
    <2>1. GatePhases' = GatePhases /\ gate' = gate
      BY <1>11 DEF vars, GatePhases
    <2> QED BY <2>1 DEF Contract!vars, GatePhases
  <1> QED
    BY <1>1, <1>2, <1>3, <1>4, <1>5, <1>6, <1>7, <1>8, <1>9, <1>10, <1>11
    DEF Next, ActionStep, WaitGo, OperatorStep

\* The mutex and the notification implement the contract: no behaviour of
\* wait_go and set is one that ActionGate forbids.
THEOREM GateRefinement == Spec => ImplementsActionGate
PROOF
  <1>1. Init => Contract!Init
    BY DEF Init, Contract!Init, Phase, Blocked
  <1> QED BY <1>1, GateContractStep, GateTypeCorrect, PTL
          DEF Spec, ImplementsActionGate, Contract!Spec

-----------------------------------------------------------------------------
(* The composition.                                                        *)

\* The commands of this composition never meet the risk gate.
NeverMoved == gateMoved = FALSE

FirstCallStands ==
  \A o \in CliOperators :
    doing[o] # "none" /\ o \notin disturbed => lastSet = GateOf[doing[o]]

WholeDecision ==
  whole = TRUE =>
    /\ decided = "pause" => lastSet = "Paused" /\ held = "pause" /\ effects = 0
    /\ decided = "step" => lastSet = "Step" /\ held = "step"

OwnTypes ==
  /\ doing \in [CliOperators -> CliCommands \cup {"none"}]
  /\ effects \in 0 .. 2

IInv == OwnTypes /\ NeverMoved /\ FirstCallStands /\ WholeDecision

-----------------------------------------------------------------------------
(* The composition restricts its parts.                                    *)

\* A control command on the lease is one of the lease's operations.
LEMMA OnLeaseIsOperator ==
  ASSUME NEW c, OnLease(c)
  PROVE  Lease!Operator
PROOF BY DEF OnLease, Lease!Operator

\* Every step is a step of the lease or leaves it alone.
LEMMA LeaseSteps == [ControlNext]_controlVars => [Lease!Next]_(Lease!vars)
PROOF
  <1> SUFFICES ASSUME [ControlNext]_controlVars PROVE [Lease!Next]_(Lease!vars)
    OBVIOUS
  <1>0. ASSUME UNCHANGED lease PROVE [Lease!Next]_(Lease!vars)
    BY <1>0 DEF lease, Lease!vars, Lease!lease, Lease!control, Lease!approval,
       Lease!history
  <1>1. ASSUME NEW o \in CliOperators, NEW c \in CliCommands, CliBegin(o, c)
        PROVE  [Lease!Next]_(Lease!vars)
    BY <1>0, <1>1 DEF CliBegin
  <1>2. ASSUME NEW o \in CliOperators, CliFinish(o)
        PROVE  [Lease!Next]_(Lease!vars)
    BY <1>2, OnLeaseIsOperator DEF CliFinish, Lease!Next
  <1>3. ASSUME NEW o \in CliOperators \cup ViewerOperators, LeaseOnly(o)
        PROVE  [Lease!Next]_(Lease!vars)
    BY <1>3 DEF LeaseOnly, Lease!Next, Lease!Operator
  <1>4. ASSUME NEW c \in CliCommands \ {"resume"}, ViewerControl(c)
        PROVE  [Lease!Next]_(Lease!vars)
    BY <1>4, OnLeaseIsOperator DEF ViewerControl, Lease!Next
  <1>5. ASSUME NEW o \in HttpOperators, NEW s \in ControlStates,
               PostControl(o, s)
        PROVE  [Lease!Next]_(Lease!vars)
    BY <1>0, <1>5 DEF PostControl
  <1>6. ASSUME NEW o \in Operators, Notify(o) PROVE [Lease!Next]_(Lease!vars)
    BY <1>0, <1>6 DEF Notify
  <1>7. ASSUME NEW a \in Actions, NarratedPass(a) \/ NarratedOther(a)
        PROVE  [Lease!Next]_(Lease!vars)
    BY <1>0, <1>7 DEF NarratedPass, NarratedOther
  <1>8. ASSUME NEW c \in Conns, InputAdmitted(c)
        PROVE  [Lease!Next]_(Lease!vars)
    BY <1>8 DEF InputAdmitted, Lease!Next, Lease!Arrive
  <1>9. ASSUME NEW c \in Conns, InputOther(c) PROVE [Lease!Next]_(Lease!vars)
    BY <1>9 DEF InputOther, Lease!Next, Lease!Arrive
  <1>10. CASE ViewerStarts
    BY <1>0, <1>10 DEF ViewerStarts
  <1>11. CASE UNCHANGED controlVars
    BY <1>0, <1>11 DEF controlVars
  <1> QED
    BY <1>1, <1>2, <1>3, <1>4, <1>5, <1>6, <1>7, <1>8, <1>9, <1>10, <1>11
    DEF ControlNext

\* Every step is a step of the narration gate or leaves it alone.
LEMMA GateSteps == [ControlNext]_controlVars => [Next]_vars
PROOF
  <1> SUFFICES ASSUME [ControlNext]_controlVars PROVE [Next]_vars
    OBVIOUS
  <1>0. ASSUME UNCHANGED gates PROVE [Next]_vars
    BY <1>0 DEF gates, vars
  <1>s. ASSUME NEW o \in Operators, NEW s \in ControlStates,
               Store(o, s)
        PROVE  [Next]_vars
    BY <1>s DEF Next, OperatorStep
  <1>1. ASSUME NEW o \in CliOperators, NEW c \in CliCommands, CliBegin(o, c)
        PROVE  [Next]_vars
    <2>1. GateOf[c] \in ControlStates
      BY DEF CliCommands, GateOf, ControlStates
    <2> QED BY <1>1, <1>s, <2>1, OperatorsAssumption DEF CliBegin
  <1>2. ASSUME NEW o \in CliOperators, CliFinish(o)
        PROVE  [Next]_vars
    BY <1>0, <1>2 DEF CliFinish
  <1>3. ASSUME NEW o \in CliOperators \cup ViewerOperators, LeaseOnly(o)
        PROVE  [Next]_vars
    BY <1>0, <1>3 DEF LeaseOnly
  <1>4. ASSUME NEW c \in CliCommands \ {"resume"}, ViewerControl(c)
        PROVE  [Next]_vars
    BY <1>0, <1>4 DEF ViewerControl
  <1>5. ASSUME NEW o \in HttpOperators, NEW s \in ControlStates,
               PostControl(o, s)
        PROVE  [Next]_vars
    BY <1>5, <1>s, OperatorsAssumption DEF PostControl
  <1>6. ASSUME NEW o \in Operators, Notify(o) PROVE [Next]_vars
    BY <1>6 DEF Notify, Next, OperatorStep
  <1>7. ASSUME NEW a \in Actions, NarratedPass(a) \/ NarratedOther(a)
        PROVE  [Next]_vars
    BY <1>7 DEF NarratedPass, NarratedOther, Next, ActionStep,
       WaitGo
  <1>8. ASSUME NEW c \in Conns, InputAdmitted(c) \/ InputOther(c)
        PROVE  [Next]_vars
    BY <1>0, <1>8 DEF InputAdmitted, InputOther
  <1>9. CASE ViewerStarts
    BY <1>9 DEF ViewerStarts, Next
  <1>10. CASE UNCHANGED controlVars
    BY <1>0, <1>10 DEF controlVars
  <1> QED
    BY <1>1, <1>2, <1>3, <1>4, <1>5, <1>6, <1>7, <1>8, <1>9, <1>10
    DEF ControlNext

\* The commands of both gates together make the lease do nothing it could not
\* do alone.
THEOREM LeaseRefined == ControlSpec => Lease!Spec
PROOF
  <1>1. ControlInit => Lease!Init
    BY DEF ControlInit
  <1> QED BY <1>1, LeaseSteps, PTL DEF ControlSpec, Lease!Spec

\* And so of the narration gate.
THEOREM GateRefined == ControlSpec => Spec
PROOF
  <1>1. ControlInit => Init
    BY DEF ControlInit
  <1> QED BY <1>1, GateSteps, PTL DEF ControlSpec, Spec

-----------------------------------------------------------------------------
(* What is proved of the parts is proved of the composition.               *)

\* The proofs about the lease speak of the same lease.
LEMMA SameLease ==
  /\ Lease!Init <=> LeaseP!Init
  /\ [Lease!Next]_(Lease!vars) <=> [LeaseP!Next]_(LeaseP!vars)
PROOF
  <1> USE DEF Lease!Modes, LeaseP!Modes, Lease!Inputs, LeaseP!Inputs,
          Lease!Owners, LeaseP!Owners, Lease!control, LeaseP!control,
          Lease!lease, LeaseP!lease, Lease!approval, LeaseP!approval,
          Lease!history, LeaseP!history, Lease!vars, LeaseP!vars
  <1>1. Lease!Init <=> LeaseP!Init
    BY DEF Lease!Init, LeaseP!Init
  <1>2. Lease!Operator <=> LeaseP!Operator
    BY DEF Lease!Operator, LeaseP!Operator,
       Lease!Takeover, LeaseP!Takeover, Lease!Release, LeaseP!Release,
       Lease!Pause, LeaseP!Pause, Lease!StepOnce, LeaseP!StepOnce,
       Lease!Annotate, LeaseP!Annotate, Lease!Abort, LeaseP!Abort,
       Lease!SensitiveOn, LeaseP!SensitiveOn, Lease!SensitiveOff,
       LeaseP!SensitiveOff, Lease!Deny, LeaseP!Deny, Lease!ApproveExpired,
       LeaseP!ApproveExpired, Lease!Command, LeaseP!Command,
       Lease!Decide, LeaseP!Decide
  <1>3. ASSUME NEW c \in Conns PROVE Lease!Arrive(c) <=> LeaseP!Arrive(c)
    BY DEF Lease!Arrive, LeaseP!Arrive, Lease!Reject, LeaseP!Reject,
       Lease!Admit, LeaseP!Admit, Lease!AskApproval, LeaseP!AskApproval,
       Lease!Authorizes, LeaseP!Authorizes, Lease!ConsumesStep,
       LeaseP!ConsumesStep, Lease!CountAgent, LeaseP!CountAgent
  <1>4. ASSUME NEW c \in Conns
        PROVE  /\ Lease!ViewerApprove(c) <=> LeaseP!ViewerApprove(c)
               /\ Lease!Send(c) <=> LeaseP!Send(c)
               /\ Lease!Dispatch(c) <=> LeaseP!Dispatch(c)
    BY DEF Lease!ViewerApprove, LeaseP!ViewerApprove, Lease!Send, LeaseP!Send,
       Lease!Dispatch, LeaseP!Dispatch, Lease!Command, LeaseP!Command,
       Lease!Decide, LeaseP!Decide, Lease!ApprovedJob, LeaseP!ApprovedJob
  <1>5. /\ Lease!DeadlinePasses <=> LeaseP!DeadlinePasses
        /\ \A n : Lease!FrameCaptured(n) <=> LeaseP!FrameCaptured(n)
    BY DEF Lease!DeadlinePasses, LeaseP!DeadlinePasses, Lease!FrameCaptured,
       LeaseP!FrameCaptured
  <1>6. Lease!Next <=> LeaseP!Next
    BY <1>2, <1>3, <1>4, <1>5 DEF Lease!Next, LeaseP!Next
  <1> QED BY <1>1, <1>6

\* What SharedControl's proofs assume of the constants.
LEMMA LeaseConstants ==
  /\ Verdicts \in [Commands -> SUBSET BOOLEAN]
  /\ MaxVersion \in Nat /\ MaxFrame \in Nat
  /\ None \notin Commands /\ None \notin LeaseP!Inputs
PROOF BY LeaseAssumption
      DEF LeaseP!Inputs, Lease!Inputs, LeaseP!Owners, Lease!Owners

\* The inductive invariants of the two parts.
LEMMA PartsInvariant == ControlSpec => [](LeaseP!IInv /\ GateIInv)
PROOF
  <1>1. ControlSpec => []LeaseP!IInv
    <2>1. Lease!Init => LeaseP!Init
      BY SameLease
    <2>2. [Lease!Next]_(Lease!vars) => [LeaseP!Next]_(LeaseP!vars)
      BY SameLease
    <2>3. Lease!Spec => LeaseP!Spec
      BY <2>1, <2>2, PTL DEF Lease!Spec, LeaseP!Spec
    <2>4. LeaseP!Spec => []LeaseP!IInv
      BY LeaseConstants, LeaseP!Invariance
    <2> QED BY <2>3, <2>4, LeaseRefined, PTL
  <1>2. ControlSpec => []GateIInv
    BY GateInvariance, GateRefined, PTL
  <1> QED BY <1>1, <1>2, PTL

-----------------------------------------------------------------------------
(* A decision that takes two calls.                                        *)

\* What an operation of the lease decides about the agent.
LEMMA LeaseDecides ==
  /\ \A c : OnLease(c) => held' = Decision(c) /\ gateMoved' = FALSE
  /\ Lease!Takeover \/ Lease!SensitiveOn \/ Lease!SensitiveOff
       => held' = "free" /\ gateMoved' = FALSE
PROOF BY DEF OnLease, Decision, Lease!Decide, Lease!Pause, Lease!Release,
         Lease!StepOnce, Lease!Abort, Lease!Takeover, Lease!SensitiveOn,
         Lease!SensitiveOff

\* What an input does to the decision: nothing.
LEMMA InputKeepsDecision ==
  ASSUME NEW c,
         Lease!Admit(c) \/ Lease!Send(c) \/ Lease!Reject(c) \/ Lease!Dispatch(c)
  PROVE  held' = held /\ gateMoved' = gateMoved
PROOF BY DEF Lease!Admit, Lease!Send, Lease!Reject, Lease!Dispatch,
         Lease!history

\* What an action does to the decision stored in the narration gate: nothing.
LEMMA ActionKeepsDecision ==
  ASSUME NEW a,
         \/ Pass(a) \/ StartInactive(a) \/ StartGated(a)
         \/ TurnAway(a) \/ FindPaused(a) \/ Register(a)
         \/ Finish(a) \/ NotifyWaiters(a)
  PROVE  lastSet' = lastSet
PROOF BY DEF Pass, StartInactive, StartGated, TurnAway,
         FindPaused, Register, Finish, NotifyWaiters

\* The types of what the composition adds, and a risk gate at rest.
LEMMA OwnStep ==
  OwnTypes /\ NeverMoved /\ [ControlNext]_controlVars
    => OwnTypes' /\ NeverMoved'
PROOF
  <1> SUFFICES ASSUME OwnTypes, NeverMoved, [ControlNext]_controlVars
               PROVE  OwnTypes' /\ NeverMoved'
    OBVIOUS
  <1>0. ASSUME UNCHANGED lease PROVE NeverMoved'
    BY <1>0 DEF lease, NeverMoved
  <1>e. ASSUME Effect PROVE effects' \in 0 .. 2
    BY <1>e DEF Effect, OwnTypes
  <1>1. ASSUME NEW o \in CliOperators, NEW c \in CliCommands, CliBegin(o, c)
        PROVE  OwnTypes' /\ NeverMoved'
    BY <1>0, <1>1 DEF CliBegin, OwnTypes, Undecided, Decided
  <1>2. ASSUME NEW o \in CliOperators, CliFinish(o)
        PROVE  OwnTypes' /\ NeverMoved'
    BY <1>2, LeaseDecides DEF CliFinish, OwnTypes, NeverMoved, Decided
  <1>3. ASSUME NEW o \in CliOperators \cup ViewerOperators, LeaseOnly(o)
        PROVE  OwnTypes' /\ NeverMoved'
    BY <1>3, LeaseDecides DEF LeaseOnly, OwnTypes, NeverMoved, Undecided,
       Decided
  <1>4. ASSUME NEW c \in CliCommands \ {"resume"}, ViewerControl(c)
        PROVE  OwnTypes' /\ NeverMoved'
    BY <1>4, LeaseDecides DEF ViewerControl, OwnTypes, NeverMoved, Decided
  <1>5. ASSUME NEW o \in HttpOperators, NEW s \in ControlStates,
               PostControl(o, s)
        PROVE  OwnTypes' /\ NeverMoved'
    BY <1>0, <1>5 DEF PostControl, OwnTypes, Undecided, Decided
  <1>6. ASSUME NEW o \in Operators, Notify(o) PROVE OwnTypes' /\ NeverMoved'
    BY <1>0, <1>6 DEF Notify, OwnTypes, own
  <1>7. ASSUME NEW a \in Actions, NarratedPass(a)
        PROVE  OwnTypes' /\ NeverMoved'
    BY <1>0, <1>e, <1>7 DEF NarratedPass, OwnTypes
  <1>8. ASSUME NEW a \in Actions, NarratedOther(a)
        PROVE  OwnTypes' /\ NeverMoved'
    BY <1>0, <1>8 DEF NarratedOther, OwnTypes, own
  <1>9. ASSUME NEW c \in Conns, InputAdmitted(c)
        PROVE  OwnTypes' /\ NeverMoved'
    BY <1>9, <1>e, InputKeepsDecision DEF InputAdmitted, OwnTypes, NeverMoved
  <1>10. ASSUME NEW c \in Conns, InputOther(c)
        PROVE  OwnTypes' /\ NeverMoved'
    BY <1>10, InputKeepsDecision DEF InputOther, OwnTypes, NeverMoved, own
  <1>11. CASE ViewerStarts
    BY <1>0, <1>11 DEF ViewerStarts, OwnTypes, own
  <1>12. CASE UNCHANGED controlVars
    BY <1>0, <1>12 DEF controlVars, own, OwnTypes
  <1> QED
    BY <1>1, <1>2, <1>3, <1>4, <1>5, <1>6, <1>7, <1>8, <1>9, <1>10, <1>11,
       <1>12 DEF ControlNext

\* Every store in the narration gate disturbs the CLI commands under way, so
\* the one that is undisturbed made the last of them.
LEMMA FirstCallStep ==
  OwnTypes /\ FirstCallStands /\ [ControlNext]_controlVars => FirstCallStands'
PROOF
  <1> SUFFICES ASSUME OwnTypes, FirstCallStands, [ControlNext]_controlVars
               PROVE  FirstCallStands'
    OBVIOUS
  <1>0. ASSUME UNCHANGED gates \/ lastSet' = lastSet, UNCHANGED doing,
               disturbed \subseteq disturbed'
        PROVE  FirstCallStands'
    BY <1>0 DEF gates, FirstCallStands
  <1>1. ASSUME NEW o \in CliOperators, NEW c \in CliCommands, CliBegin(o, c)
        PROVE  FirstCallStands'
    BY <1>1 DEF CliBegin, Store, FirstCallStands, OwnTypes, InProgress
  <1>2. ASSUME NEW o \in CliOperators, CliFinish(o) PROVE FirstCallStands'
    BY <1>2 DEF CliFinish, gates, FirstCallStands, OwnTypes
  <1>3. ASSUME NEW o \in CliOperators \cup ViewerOperators, LeaseOnly(o)
        PROVE  FirstCallStands'
    BY <1>0, <1>3 DEF LeaseOnly
  <1>4. ASSUME NEW c \in CliCommands \ {"resume"}, ViewerControl(c)
        PROVE  FirstCallStands'
    BY <1>0, <1>4 DEF ViewerControl
  <1>5. ASSUME NEW o \in HttpOperators, NEW s \in ControlStates,
               PostControl(o, s)
        PROVE  FirstCallStands'
    BY <1>5 DEF PostControl, FirstCallStands, InProgress
  <1>6. ASSUME NEW o \in Operators, Notify(o) PROVE FirstCallStands'
    BY <1>0, <1>6, ActionKeepsDecision DEF Notify, own
  <1>7. ASSUME NEW a \in Actions, NarratedPass(a) PROVE FirstCallStands'
    BY <1>0, <1>7, ActionKeepsDecision DEF NarratedPass
  <1>8. ASSUME NEW a \in Actions, NarratedOther(a) PROVE FirstCallStands'
    BY <1>0, <1>8, ActionKeepsDecision DEF NarratedOther, own
  <1>9. ASSUME NEW c \in Conns, InputAdmitted(c) PROVE FirstCallStands'
    BY <1>0, <1>9 DEF InputAdmitted
  <1>10. ASSUME NEW c \in Conns, InputOther(c) PROVE FirstCallStands'
    BY <1>0, <1>10 DEF InputOther, own
  <1>11. CASE ViewerStarts
    BY <1>0, <1>11 DEF ViewerStarts, Activate, own
  <1>12. CASE UNCHANGED controlVars
    BY <1>0, <1>12 DEF controlVars, own
  <1> QED
    BY <1>1, <1>2, <1>3, <1>4, <1>5, <1>6, <1>7, <1>8, <1>9, <1>10, <1>11,
       <1>12 DEF ControlNext

\* A pause that stands at both gates lets no agent effect begin at either.
LEMMA PauseBlocks ==
  ASSUME LeaseP!IInv, GateIInv, NeverMoved,
         held = "pause", lastSet = "Paused"
  PROVE  /\ \A a : ~Pass(a)
         /\ \A c : Lease!Admit(c) => conn[c].owner # "agent"
PROOF
  <1>1. gate = "Paused" /\ mode = "Paused"
    BY DEF GateIInv, DecisionShows, LeaseP!IInv,
       LeaseP!HeldShowsInMode, NeverMoved
  <1> QED BY <1>1 DEF Pass, Lease!Admit, Lease!Authorizes

\* A decision that stands was made at both gates, and after a pause nothing
\* has begun since.
LEMMA WholeStep ==
  LeaseP!IInv /\ GateIInv /\ IInv /\ [ControlNext]_controlVars => WholeDecision'
PROOF
  <1> SUFFICES ASSUME LeaseP!IInv, GateIInv, IInv, [ControlNext]_controlVars
               PROVE  WholeDecision'
    OBVIOUS
  <1>i. OwnTypes /\ NeverMoved /\ FirstCallStands /\ WholeDecision
    BY DEF IInv
  <1>0. ASSUME lastSet' = lastSet, held' = held, UNCHANGED <<decided, whole>>,
               effects' = effects \/ ~(lastSet = "Paused" /\ held = "pause")
        PROVE  WholeDecision'
    BY <1>0, <1>i DEF WholeDecision
  <1>1. ASSUME Undecided PROVE WholeDecision'
    BY <1>1 DEF Undecided, Decided, WholeDecision
  <1>2. ASSUME NEW o \in CliOperators, NEW c \in CliCommands, CliBegin(o, c)
        PROVE  WholeDecision'
    BY <1>1, <1>2 DEF CliBegin
  <1>3. ASSUME NEW o \in CliOperators, CliFinish(o) PROVE WholeDecision'
    <2>1. /\ held' = Decision(doing[o]) /\ lastSet' = lastSet
          /\ Decided(Decision(doing[o]), o \notin disturbed)
      BY <1>3, LeaseDecides DEF CliFinish, gates
    <2>2. o \notin disturbed => lastSet = GateOf[doing[o]]
      BY <1>3, <1>i DEF CliFinish, FirstCallStands
    <2>3. whole' = TRUE => o \notin disturbed
      BY <2>1, Zenon DEF Decided
    <2>4. /\ held' = Decision(doing[o]) /\ decided' = Decision(doing[o])
          /\ lastSet' = lastSet /\ effects' = 0
      BY <2>1 DEF Decided
    <2>5. /\ Decision(doing[o]) = "pause" => doing[o] = "pause"
          /\ Decision(doing[o]) = "step" => doing[o] = "step"
      BY DEF Decision
    <2> QED BY <2>2, <2>3, <2>4, <2>5 DEF GateOf, WholeDecision
  <1>4. ASSUME NEW o \in CliOperators \cup ViewerOperators, LeaseOnly(o)
        PROVE  WholeDecision'
    BY <1>1, <1>4 DEF LeaseOnly
  <1>5. ASSUME NEW c \in CliCommands \ {"resume"}, ViewerControl(c)
        PROVE  WholeDecision'
    BY <1>5 DEF ViewerControl, Decided, WholeDecision
  <1>6. ASSUME NEW o \in HttpOperators, NEW s \in ControlStates,
               PostControl(o, s)
        PROVE  WholeDecision'
    BY <1>1, <1>6 DEF PostControl
  <1>7. ASSUME NEW o \in Operators, Notify(o) PROVE WholeDecision'
    BY <1>0, <1>7, ActionKeepsDecision DEF Notify, own, lease
  <1>8. ASSUME NEW a \in Actions, NarratedPass(a) PROVE WholeDecision'
    BY <1>0, <1>8, <1>i, ActionKeepsDecision, PauseBlocks
    DEF NarratedPass, lease
  <1>9. ASSUME NEW a \in Actions, NarratedOther(a) PROVE WholeDecision'
    BY <1>0, <1>9, ActionKeepsDecision DEF NarratedOther, own, lease
  <1>10. ASSUME NEW c \in Conns, InputAdmitted(c) PROVE WholeDecision'
    BY <1>0, <1>10, <1>i, InputKeepsDecision, PauseBlocks
    DEF InputAdmitted, gates
  <1>11. ASSUME NEW c \in Conns, InputOther(c) PROVE WholeDecision'
    BY <1>0, <1>11, InputKeepsDecision DEF InputOther, gates, own
  <1>12. CASE ViewerStarts
    BY <1>0, <1>12 DEF ViewerStarts, Activate, own, lease
  <1>13. CASE UNCHANGED controlVars
    BY <1>0, <1>13 DEF controlVars, own, lease, gates
  <1> QED
    BY <1>2, <1>3, <1>4, <1>5, <1>6, <1>7, <1>8, <1>9, <1>10, <1>11, <1>12,
       <1>13 DEF ControlNext

\* The inductive invariant of the composition, on top of those of its parts.
THEOREM Invariance == ControlSpec => [](LeaseP!IInv /\ GateIInv /\ IInv)
PROOF
  <1>1. ControlInit => IInv
    BY DEF ControlInit, Lease!Init, Init, IInv, OwnTypes, NeverMoved,
       FirstCallStands, WholeDecision
  <1>2. LeaseP!IInv /\ GateIInv /\ IInv /\ [ControlNext]_controlVars => IInv'
    BY OwnStep, FirstCallStep, WholeStep DEF IInv
  <1> QED BY <1>1, <1>2, PartsInvariant, PTL DEF ControlSpec

\* From the moment a CLI pause that met no other command completes until the
\* next decision begins, no agent effect begins at either gate.
THEOREM PauseSafety == ControlSpec => []PauseHoldsTheAgent
PROOF
  <1>1. IInv => PauseHoldsTheAgent
    BY DEF IInv, WholeDecision, PauseHoldsTheAgent
  <1> QED BY <1>1, Invariance, PTL

\* After such a step each gate lets at most one agent effect begin.
THEOREM StepSafety == ControlSpec => []StepAdmitsOnePerGate
PROOF
  <1>1. LeaseP!IInv /\ GateIInv /\ IInv => StepAdmitsOnePerGate
    BY DEF IInv, WholeDecision, NeverMoved, StepAdmitsOnePerGate,
       LeaseP!IInv, LeaseP!HeldShowsInMode, GateIInv, DecisionShows
  <1> QED BY <1>1, Invariance, PTL
=============================================================================
