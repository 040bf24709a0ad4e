------------------------- MODULE SharedControl_proofs -------------------------
(***************************************************************************)
(* Proofs about SharedControl, for any commands, verdicts, connections and *)
(* bounds.  The inductive invariant IInv is TypeOK, the three invariants   *)
(* that are inductive as they stand, and two strengthenings: a sent input  *)
(* of the current version has seen the current state (SentSawItsVersion),  *)
(* and a pause or a step still shows in the mode (HeldShowsInMode).        *)
(***************************************************************************)
EXTENDS SharedControl, TLAPS

\* Every change of owner, mode or privacy bumps the version, so an input that
\* carries the current version was composed against the current state.
SentSawItsVersion ==
  \A c \in Conns : conn[c] # None /\ conn[c].stage = "sent" =>
    /\ conn[c].version <= controlVersion
    /\ conn[c].version = controlVersion => conn[c].seen = control

\* Until the risk gate moves the mode, a pause leaves it paused with no agent
\* input admitted, and a step leaves it in step, or paused after one input.
HeldShowsInMode ==
  ~gateMoved =>
    /\ held = "pause" => mode = "Paused" /\ agentSince = 0
    /\ held = "step" => \/ mode = "Step" /\ agentSince = 0
                        \/ mode = "Paused" /\ agentSince <= 1

IInv ==
  /\ TypeOK
  /\ ModeAgreesWithOwner
  /\ BannerMatchesInput
  /\ ApprovalSpentOnce
  /\ SentSawItsVersion
  /\ HeldShowsInMode

-----------------------------------------------------------------------------
(* Type correctness.                                                       *)

\* A job that carries an input of a connection is a job, and so is the one
\* that ViewerApprove makes of the stored input.
LEMMA JobTypes ==
  ASSUME TypeOK, controlVersion < MaxVersion
  PROVE  /\ \A o \in Owners, cmd \in Commands :
              [stage |-> "sent", owner |-> o, cmd |-> cmd,
               version |-> controlVersion, frame |-> frameSeq,
               seen |-> control] \in Jobs
         /\ pendingInput # None => ApprovedJob(pendingInput) \in Jobs
PROOF
  <1>1. control \in Owners \X Modes \X BOOLEAN
    BY DEF TypeOK, control, Owners
  <1>2. /\ controlVersion \in Nat /\ frameSeq \in Nat
        /\ controlVersion + 1 \in Nat
    BY DEF TypeOK
  <1>3. ASSUME NEW o \in Owners, NEW cmd \in Commands
        PROVE  [stage |-> "sent", owner |-> o, cmd |-> cmd,
                version |-> controlVersion, frame |-> frameSeq,
                seen |-> control] \in Jobs
    BY <1>1, <1>2 DEF Jobs
  <1>4. ASSUME pendingInput # None
        PROVE  ApprovedJob(pendingInput) \in Jobs
    <2>1. pendingInput.owner \in Owners /\ pendingInput.cmd \in Commands
      BY <1>4 DEF TypeOK, Inputs
    <2>2. <<"user", "UserTakeover", sensitive>> \in Owners \X Modes \X BOOLEAN
      BY DEF TypeOK, Owners, Modes
    <2> QED BY <2>1, <2>2, <1>2 DEF ApprovedJob, Jobs
  <1> QED BY <1>3, <1>4

\* The three flags stay Boolean.
Flags == sensitive \in BOOLEAN /\ approvalExpired \in BOOLEAN
           /\ gateMoved \in BOOLEAN

LEMMA FlagsStep == TypeOK /\ [Next]_vars => Flags'
PROOF
  <1> SUFFICES ASSUME Flags, [Next]_vars PROVE Flags'
    BY DEF TypeOK, Flags
  <1>1. CASE Takeover
    BY <1>1, Zenon DEF Flags, Takeover, Command, Decide, approval
  <1>2. CASE Release
    BY <1>2, Zenon DEF Flags, Release, Command, Decide, approval
  <1>3. CASE Pause
    BY <1>3, Zenon DEF Flags, Pause, Command, Decide, approval
  <1>4. CASE StepOnce
    BY <1>4, Zenon DEF Flags, StepOnce, Command, Decide, approval
  <1>5. CASE Annotate
    BY <1>5, Zenon DEF Flags, Annotate, Command, Decide, approval
  <1>6. CASE Abort
    BY <1>6, Zenon DEF Flags, Abort, Command, Decide, approval
  <1>7. CASE SensitiveOn
    BY <1>7, Zenon DEF Flags, SensitiveOn, Command, Decide, approval
  <1>8. CASE SensitiveOff
    BY <1>8, Zenon DEF Flags, SensitiveOff, Command, Decide, approval
  <1>9. CASE Deny
    BY <1>9, Zenon DEF Flags, Deny, Command, Decide, approval
  <1>10. CASE ApproveExpired
    BY <1>10, Zenon DEF Flags, ApproveExpired, Command, Decide, approval
  <1>11. CASE DeadlinePasses
    BY <1>11, Zenon DEF Flags, DeadlinePasses, lease, control, history
  <1>12. ASSUME NEW c \in Conns, ViewerApprove(c) PROVE Flags'
    BY <1>12, Zenon DEF Flags, ViewerApprove, Command, Decide
  <1>13. ASSUME NEW c \in Conns, Send(c) PROVE Flags'
    BY <1>13, Zenon DEF Flags, Send, lease, control, approval, history
  <1>14. ASSUME NEW c \in Conns, Reject(c) PROVE Flags'
    BY <1>14, Zenon DEF Flags, Reject, lease, control, approval, history
  <1>15. ASSUME NEW c \in Conns, Admit(c) PROVE Flags'
    BY <1>15, Zenon DEF Flags, Admit
  <1>16. ASSUME NEW c \in Conns, AskApproval(c) PROVE Flags'
    BY <1>16, Zenon DEF Flags, AskApproval
  <1>17. ASSUME NEW c \in Conns, Dispatch(c) PROVE Flags'
    BY <1>17, Zenon DEF Flags, Dispatch, lease, control, approval, history
  <1>18. ASSUME NEW n \in 1..MaxFrame, FrameCaptured(n) PROVE Flags'
    BY <1>18, Zenon DEF Flags, FrameCaptured, control, approval, history
  <1>19. CASE UNCHANGED vars
    BY <1>19, Zenon DEF Flags, vars, lease, control, approval, history
  <1> QED
    BY <1>1, <1>2, <1>3, <1>4, <1>5, <1>6, <1>7, <1>8, <1>9, <1>10, <1>11,
       <1>12, <1>13, <1>14, <1>15, <1>16, <1>17, <1>18, <1>19
    DEF Next, Operator, Arrive

\* Every step keeps every variable in its type.
LEMMA TypeStep == TypeOK /\ [Next]_vars => TypeOK'
PROOF
  <1> SUFFICES ASSUME TypeOK, [Next]_vars PROVE TypeOK'
    OBVIOUS
  <1>0. Flags'
    BY FlagsStep
  <1>1. CASE Operator
    <2>1. CASE Takeover
      BY <1>0, <2>1 DEF TypeOK, Flags, Takeover, Command, Decide, Modes,
         approval
    <2>2. CASE Release
      BY <1>0, <2>2 DEF TypeOK, Flags, Release, Command, Decide, Modes,
         approval
    <2>3. CASE Pause
      BY <1>0, <2>3 DEF TypeOK, Flags, Pause, Command, Decide, Modes, approval
    <2>4. CASE StepOnce
      BY <1>0, <2>4 DEF TypeOK, Flags, StepOnce, Command, Decide, Modes,
         approval
    <2>5. CASE Annotate
      BY <1>0, <2>5 DEF TypeOK, Flags, Annotate, Command, Decide, Modes,
         approval
    <2>6. CASE Abort
      BY <1>0, <2>6 DEF TypeOK, Flags, Abort, Command, Decide, Modes
    <2>7. CASE SensitiveOn
      BY <1>0, <2>7 DEF TypeOK, Flags, SensitiveOn, Command, Decide, Modes,
         approval
    <2>8. CASE SensitiveOff
      BY <1>0, <2>8 DEF TypeOK, Flags, SensitiveOff, Command, Decide, Modes,
         approval
    <2>9. CASE Deny
      BY <1>0, <2>9 DEF TypeOK, Flags, Deny, Command, Decide, Modes
    <2>10. CASE ApproveExpired
      BY <1>0, <2>10 DEF TypeOK, Flags, ApproveExpired, Command, Modes
    <2> QED BY <1>1, <2>1, <2>2, <2>3, <2>4, <2>5, <2>6, <2>7, <2>8, <2>9,
               <2>10 DEF Operator
  <1>2. CASE DeadlinePasses
    BY <1>2 DEF TypeOK, DeadlinePasses, lease, control, history
  <1>3. ASSUME NEW c \in Conns, ViewerApprove(c)
        PROVE  TypeOK'
    <2>1. conn' \in [Conns -> Jobs \cup {None}]
      BY <1>3, JobTypes DEF ViewerApprove, Command, TypeOK
    <2> QED BY <1>0, <1>3, <2>1 DEF TypeOK, Flags, ViewerApprove, Command,
               Decide, Modes
  <1>4. ASSUME NEW c \in Conns, Send(c)
        PROVE  TypeOK'
    <2>1. conn' \in [Conns -> Jobs \cup {None}]
      BY <1>4, JobTypes DEF Send, TypeOK
    <2> QED BY <1>4, <2>1 DEF TypeOK, Send, lease, control, approval, history
  <1>5. ASSUME NEW c \in Conns, Reject(c)
        PROVE  TypeOK'
    BY <1>5 DEF TypeOK, Reject, lease, control, approval, history
  <1>6. ASSUME NEW c \in Conns, Admit(c)
        PROVE  TypeOK'
    <2>1. conn[c] \in Jobs
      BY <1>6 DEF Admit, TypeOK
    <2>2. conn' \in [Conns -> Jobs \cup {None}]
      BY <1>6, <2>1 DEF Admit, TypeOK, Jobs
    <2>3. agentSince' \in 0..2
      BY <1>6 DEF Admit, CountAgent, TypeOK
    <2>4. approvedHash' \in Commands \cup {None} /\ approvalBalance' \in Int
      BY <1>6 DEF Admit, TypeOK
    <2>5. mode' \in Modes /\ controlVersion' \in Nat
      BY <1>6 DEF Admit, TypeOK, Modes
    <2> QED BY <1>6, <2>2, <2>3, <2>4, <2>5 DEF TypeOK, Admit
  <1>7. ASSUME NEW c \in Conns, AskApproval(c)
        PROVE  TypeOK'
    <2>1. conn[c] \in Jobs
      BY <1>7 DEF AskApproval, TypeOK
    <2>2. pendingInput' \in Inputs /\ pendingApproval' \in Commands
      BY <1>7, <2>1 DEF AskApproval, Jobs, Inputs
    <2>3. mode' \in Modes /\ controlVersion' \in Nat
      BY <1>7 DEF AskApproval, TypeOK, Modes
    <2> QED BY <1>7, <2>2, <2>3 DEF TypeOK, AskApproval
  <1>8. ASSUME NEW c \in Conns, Dispatch(c)
        PROVE  TypeOK'
    BY <1>8 DEF TypeOK, Dispatch, lease, control, approval, history
  <1>9. ASSUME NEW n \in 1..MaxFrame, FrameCaptured(n)
        PROVE  TypeOK'
    BY <1>9 DEF TypeOK, FrameCaptured, control, approval, history
  <1>10. CASE UNCHANGED vars
    BY <1>10 DEF TypeOK, vars, lease, control, approval, history
  <1> QED
    BY <1>1, <1>2, <1>3, <1>4, <1>5, <1>6, <1>7, <1>8, <1>9, <1>10
    DEF Next, Arrive

\* The lease, the approval, the inputs in flight and the history variables
\* keep their types, whatever the commands, verdicts and connections.
THEOREM TypeCorrect == Spec => []TypeOK
PROOF
  <1>1. Init => TypeOK
    <2>1. Init => Flags
      BY Zenon DEF Init, Flags
    <2> QED BY <2>1 DEF Init, TypeOK, Flags, Modes
  <1> QED BY <1>1, TypeStep, PTL DEF Spec

-----------------------------------------------------------------------------
(* The invariants that are inductive on top of the types.                  *)

\* Owner, mode and privacy keep agreeing.
LEMMA ModeStep ==
  TypeOK /\ ModeAgreesWithOwner /\ [Next]_vars => ModeAgreesWithOwner'
PROOF
  <1> SUFFICES ASSUME TypeOK, ModeAgreesWithOwner, [Next]_vars
               PROVE  ModeAgreesWithOwner'
    OBVIOUS
  <1>1. CASE Takeover
    BY <1>1 DEF ModeAgreesWithOwner, TypeOK, Takeover, Command, Decide,
       approval
  <1>2. CASE Release
    BY <1>2 DEF ModeAgreesWithOwner, TypeOK, Release, Command, Decide, approval
  <1>3. CASE Pause
    BY <1>3 DEF ModeAgreesWithOwner, TypeOK, Pause, Command, Decide, approval
  <1>4. CASE StepOnce
    BY <1>4 DEF ModeAgreesWithOwner, TypeOK, StepOnce, Command, Decide,
       approval
  <1>5. CASE Annotate
    BY <1>5 DEF ModeAgreesWithOwner, TypeOK, Annotate, Command, Decide,
       approval
  <1>6. CASE Abort
    BY <1>6 DEF ModeAgreesWithOwner, TypeOK, Abort, Command, Decide, approval
  <1>7. CASE SensitiveOn
    BY <1>7 DEF ModeAgreesWithOwner, TypeOK, SensitiveOn, Command, Decide,
       approval
  <1>8. CASE SensitiveOff
    BY <1>8 DEF ModeAgreesWithOwner, TypeOK, SensitiveOff, Command, Decide,
       approval
  <1>9. CASE Deny
    BY <1>9 DEF ModeAgreesWithOwner, TypeOK, Deny, Command, Decide, approval
  <1>10. CASE ApproveExpired
    BY <1>10 DEF ModeAgreesWithOwner, TypeOK, ApproveExpired, Command, Decide,
       approval
  <1>11. CASE DeadlinePasses
    BY <1>11 DEF ModeAgreesWithOwner, TypeOK, DeadlinePasses, lease, control,
       history
  <1>12. ASSUME NEW c \in Conns, ViewerApprove(c) PROVE ModeAgreesWithOwner'
    BY <1>12 DEF ModeAgreesWithOwner, TypeOK, ViewerApprove, Command, Decide
  <1>13. ASSUME NEW c \in Conns, Send(c) PROVE ModeAgreesWithOwner'
    BY <1>13 DEF ModeAgreesWithOwner, TypeOK, Send, lease, control, approval,
       history
  <1>14. ASSUME NEW c \in Conns, Reject(c) PROVE ModeAgreesWithOwner'
    BY <1>14 DEF ModeAgreesWithOwner, TypeOK, Reject, lease, control,
       approval, history
  <1>15. ASSUME NEW c \in Conns, Admit(c) PROVE ModeAgreesWithOwner'
    BY <1>15 DEF ModeAgreesWithOwner, TypeOK, Admit
  <1>16. ASSUME NEW c \in Conns, AskApproval(c) PROVE ModeAgreesWithOwner'
    BY <1>16 DEF ModeAgreesWithOwner, TypeOK, AskApproval
  <1>17. ASSUME NEW c \in Conns, Dispatch(c) PROVE ModeAgreesWithOwner'
    BY <1>17 DEF ModeAgreesWithOwner, TypeOK, Dispatch, lease, control,
       approval, history
  <1>18. ASSUME NEW n \in 1..MaxFrame, FrameCaptured(n)
         PROVE ModeAgreesWithOwner'
    BY <1>18 DEF ModeAgreesWithOwner, TypeOK, FrameCaptured, control,
       approval, history
  <1>19. CASE UNCHANGED vars
    BY <1>19 DEF ModeAgreesWithOwner, TypeOK, vars, lease, control, approval,
       history
  <1> QED
    BY <1>1, <1>2, <1>3, <1>4, <1>5, <1>6, <1>7, <1>8, <1>9, <1>10, <1>11,
       <1>12, <1>13, <1>14, <1>15, <1>16, <1>17, <1>18, <1>19
    DEF Next, Operator, Arrive

\* The stored input stays the one the banner asks about.
LEMMA BannerStep ==
  TypeOK /\ BannerMatchesInput /\ [Next]_vars => BannerMatchesInput'
PROOF
  <1> SUFFICES ASSUME TypeOK, BannerMatchesInput, [Next]_vars
               PROVE  BannerMatchesInput'
    OBVIOUS
  <1>1. CASE Takeover
    BY <1>1 DEF BannerMatchesInput, Takeover, Command, Decide, approval
  <1>2. CASE Release
    BY <1>2 DEF BannerMatchesInput, Release, Command, Decide, approval
  <1>3. CASE Pause
    BY <1>3 DEF BannerMatchesInput, Pause, Command, Decide, approval
  <1>4. CASE StepOnce
    BY <1>4 DEF BannerMatchesInput, StepOnce, Command, Decide, approval
  <1>5. CASE Annotate
    BY <1>5 DEF BannerMatchesInput, Annotate, Command, Decide, approval
  <1>6. CASE Abort
    BY <1>6 DEF BannerMatchesInput, Abort, Command, Decide, approval
  <1>7. CASE SensitiveOn
    BY <1>7 DEF BannerMatchesInput, SensitiveOn, Command, Decide, approval
  <1>8. CASE SensitiveOff
    BY <1>8 DEF BannerMatchesInput, SensitiveOff, Command, Decide, approval
  <1>9. CASE Deny
    BY <1>9 DEF BannerMatchesInput, Deny, Command, Decide, approval
  <1>10. CASE ApproveExpired
    BY <1>10 DEF BannerMatchesInput, ApproveExpired, Command, Decide, approval
  <1>11. CASE DeadlinePasses
    BY <1>11 DEF BannerMatchesInput, DeadlinePasses, lease, control, history
  <1>12. ASSUME NEW c \in Conns, ViewerApprove(c) PROVE BannerMatchesInput'
    BY <1>12 DEF BannerMatchesInput, ViewerApprove, Command, Decide
  <1>13. ASSUME NEW c \in Conns, Send(c) PROVE BannerMatchesInput'
    BY <1>13 DEF BannerMatchesInput, Send, lease, control, approval, history
  <1>14. ASSUME NEW c \in Conns, Reject(c) PROVE BannerMatchesInput'
    BY <1>14 DEF BannerMatchesInput, Reject, lease, control, approval, history
  <1>15. ASSUME NEW c \in Conns, Admit(c) PROVE BannerMatchesInput'
    BY <1>15 DEF BannerMatchesInput, Admit
  <1>16. ASSUME NEW c \in Conns, AskApproval(c) PROVE BannerMatchesInput'
    <2>1. pendingInput' # None
      <3>1. pendingInput' \in Inputs
        BY <1>16 DEF AskApproval, TypeOK, Jobs, Inputs
      <3> QED BY <3>1, NoneAssumption
    <2>2. pendingInput'.cmd = pendingApproval'
      BY <1>16 DEF AskApproval
    <2>3. pendingApproval' # None
      BY <1>16, NoneAssumption DEF AskApproval, TypeOK, Jobs
    <2> QED BY <2>1, <2>2, <2>3 DEF BannerMatchesInput
  <1>17. ASSUME NEW c \in Conns, Dispatch(c) PROVE BannerMatchesInput'
    BY <1>17 DEF BannerMatchesInput, Dispatch, lease, control, approval,
       history
  <1>18. ASSUME NEW n \in 1..MaxFrame, FrameCaptured(n)
         PROVE BannerMatchesInput'
    BY <1>18 DEF BannerMatchesInput, FrameCaptured, control, approval, history
  <1>19. CASE UNCHANGED vars
    BY <1>19 DEF BannerMatchesInput, vars, lease, control, approval, history
  <1> QED
    BY <1>1, <1>2, <1>3, <1>4, <1>5, <1>6, <1>7, <1>8, <1>9, <1>10, <1>11,
       <1>12, <1>13, <1>14, <1>15, <1>16, <1>17, <1>18, <1>19
    DEF Next, Operator, Arrive

\* No approval is left over, and none is spent twice.
LEMMA SpentStep ==
  TypeOK /\ BannerMatchesInput /\ ApprovalSpentOnce /\ [Next]_vars => ApprovalSpentOnce'
PROOF
  <1> SUFFICES ASSUME TypeOK, BannerMatchesInput, ApprovalSpentOnce, [Next]_vars
               PROVE  ApprovalSpentOnce'
    OBVIOUS
  <1>1. CASE Takeover
    BY <1>1 DEF ApprovalSpentOnce, Takeover, Command, Decide, approval
  <1>2. CASE Release
    BY <1>2 DEF ApprovalSpentOnce, Release, Command, Decide, approval
  <1>3. CASE Pause
    BY <1>3 DEF ApprovalSpentOnce, Pause, Command, Decide, approval
  <1>4. CASE StepOnce
    BY <1>4 DEF ApprovalSpentOnce, StepOnce, Command, Decide, approval
  <1>5. CASE Annotate
    BY <1>5 DEF ApprovalSpentOnce, Annotate, Command, Decide, approval
  <1>6. CASE Abort
    BY <1>6 DEF ApprovalSpentOnce, Abort, Command, Decide, approval
  <1>7. CASE SensitiveOn
    BY <1>7 DEF ApprovalSpentOnce, SensitiveOn, Command, Decide, approval
  <1>8. CASE SensitiveOff
    BY <1>8 DEF ApprovalSpentOnce, SensitiveOff, Command, Decide, approval
  <1>9. CASE Deny
    BY <1>9 DEF ApprovalSpentOnce, Deny, Command, Decide, approval
  <1>10. CASE ApproveExpired
    BY <1>10 DEF ApprovalSpentOnce, ApproveExpired, Command, Decide, approval
  <1>11. CASE DeadlinePasses
    BY <1>11 DEF ApprovalSpentOnce, DeadlinePasses, lease, control, history
  <1>12. ASSUME NEW c \in Conns, ViewerApprove(c) PROVE ApprovalSpentOnce'
    BY <1>12 DEF ApprovalSpentOnce, BannerMatchesInput, ViewerApprove
  <1>13. ASSUME NEW c \in Conns, Send(c) PROVE ApprovalSpentOnce'
    BY <1>13 DEF ApprovalSpentOnce, Send, lease, control, approval, history
  <1>14. ASSUME NEW c \in Conns, Reject(c) PROVE ApprovalSpentOnce'
    BY <1>14 DEF ApprovalSpentOnce, Reject, lease, control, approval, history
  <1>15. ASSUME NEW c \in Conns, Admit(c) PROVE ApprovalSpentOnce'
    <2>1. conn[c].cmd \in Commands
      BY <1>15 DEF Admit, TypeOK, Jobs
    <2>2. approvedHash # conn[c].cmd
      BY <2>1, NoneAssumption DEF ApprovalSpentOnce
    <2> QED BY <1>15, <2>2 DEF ApprovalSpentOnce, Admit
  <1>16. ASSUME NEW c \in Conns, AskApproval(c) PROVE ApprovalSpentOnce'
    BY <1>16 DEF ApprovalSpentOnce, AskApproval
  <1>17. ASSUME NEW c \in Conns, Dispatch(c) PROVE ApprovalSpentOnce'
    BY <1>17 DEF ApprovalSpentOnce, Dispatch, lease, control, approval, history
  <1>18. ASSUME NEW n \in 1..MaxFrame, FrameCaptured(n)
         PROVE ApprovalSpentOnce'
    BY <1>18 DEF ApprovalSpentOnce, FrameCaptured, control, approval, history
  <1>19. CASE UNCHANGED vars
    BY <1>19 DEF ApprovalSpentOnce, vars, lease, control, approval, history
  <1> QED
    BY <1>1, <1>2, <1>3, <1>4, <1>5, <1>6, <1>7, <1>8, <1>9, <1>10, <1>11,
       <1>12, <1>13, <1>14, <1>15, <1>16, <1>17, <1>18, <1>19
    DEF Next, Operator, Arrive

-----------------------------------------------------------------------------
(* The two strengthenings.                                                 *)

\* A step that adds no sent input, and that changes the state only with a
\* higher version, keeps SentSawItsVersion.
LEMMA SentKept ==
  ASSUME TypeOK, SentSawItsVersion, controlVersion' \in Nat,
         \/ controlVersion' = controlVersion /\ control' = control
         \/ controlVersion' > controlVersion,
         \A c \in Conns : conn'[c] # None /\ conn'[c].stage = "sent"
                            => conn'[c] = conn[c]
  PROVE  SentSawItsVersion'
PROOF
  <1> SUFFICES ASSUME NEW c \in Conns, conn'[c] # None, conn'[c].stage = "sent"
               PROVE  /\ conn'[c].version <= controlVersion'
                      /\ conn'[c].version = controlVersion' => conn'[c].seen = control'
    BY DEF SentSawItsVersion
  <1>1. conn'[c] = conn[c]
    OBVIOUS
  <1>2. conn[c].version \in Nat /\ controlVersion \in Nat
    BY <1>1 DEF TypeOK, Jobs
  <1>3. /\ conn[c].version <= controlVersion
        /\ conn[c].version = controlVersion => conn[c].seen = control
    BY <1>1 DEF SentSawItsVersion
  <1>4. CASE controlVersion' = controlVersion /\ control' = control
    BY <1>1, <1>3, <1>4
  <1>5. CASE controlVersion' > controlVersion
    BY <1>1, <1>2, <1>3, <1>5
  <1> QED BY <1>4, <1>5

\* A sent input of the current version has seen the current state.
LEMMA SentStep ==
  TypeOK /\ SentSawItsVersion /\ [Next]_vars => SentSawItsVersion'
PROOF
  <1> SUFFICES ASSUME TypeOK, SentSawItsVersion, [Next]_vars
               PROVE  SentSawItsVersion'
    OBVIOUS
  <1>1. CASE Takeover
    BY <1>1, SentKept DEF TypeOK, Takeover, Command, approval
  <1>2. CASE Release
    BY <1>2, SentKept DEF TypeOK, Release, Command, approval
  <1>3. CASE Pause
    BY <1>3, SentKept DEF TypeOK, Pause, Command, approval
  <1>4. CASE StepOnce
    BY <1>4, SentKept DEF TypeOK, StepOnce, Command, approval
  <1>5. CASE Annotate
    BY <1>5, SentKept DEF TypeOK, Annotate, Command, approval
  <1>6. CASE Abort
    BY <1>6, SentKept DEF TypeOK, Abort, Command, approval
  <1>7. CASE SensitiveOn
    BY <1>7, SentKept DEF TypeOK, SensitiveOn, Command, approval
  <1>8. CASE SensitiveOff
    BY <1>8, SentKept DEF TypeOK, SensitiveOff, Command, approval
  <1>9. CASE Deny
    BY <1>9, SentKept DEF TypeOK, Deny, Command, approval
  <1>10. CASE ApproveExpired
    BY <1>10, SentKept DEF TypeOK, ApproveExpired, Command, approval
  <1>11. CASE DeadlinePasses
    BY <1>11, SentKept DEF TypeOK, DeadlinePasses, lease
  <1>12. ASSUME NEW c \in Conns, ViewerApprove(c) PROVE SentSawItsVersion'
    <2>1. \A d \in Conns : conn'[d] # None /\ conn'[d].stage = "sent"
                         => conn'[d] = conn[d]
      BY <1>12 DEF TypeOK, ViewerApprove, ApprovedJob
    <2> QED BY <1>12, <2>1, SentKept DEF TypeOK, ViewerApprove, Command
  <1>13. ASSUME NEW c \in Conns, Send(c) PROVE SentSawItsVersion'
    <2>1. control \in Owners \X Modes \X BOOLEAN
      BY DEF TypeOK, control, Owners
    <2> QED BY <1>13, <2>1 DEF SentSawItsVersion, TypeOK, Send, lease, control
  <1>14. ASSUME NEW c \in Conns, Reject(c) PROVE SentSawItsVersion'
    BY <1>14, SentKept DEF TypeOK, Reject, lease
  <1>15. ASSUME NEW c \in Conns, Admit(c) PROVE SentSawItsVersion'
    <2>1. \A d \in Conns : conn'[d] # None /\ conn'[d].stage = "sent"
                         => conn'[d] = conn[d]
      BY <1>15 DEF TypeOK, Jobs, Admit
    <2>2. \/ controlVersion' = controlVersion /\ control' = control
          \/ controlVersion' > controlVersion
      BY <1>15 DEF TypeOK, Admit, control
    <2>3. controlVersion' \in Nat
      BY <1>15 DEF TypeOK, Admit
    <2> QED BY <2>1, <2>2, <2>3, SentKept
  <1>16. ASSUME NEW c \in Conns, AskApproval(c) PROVE SentSawItsVersion'
    <2>1. \A d \in Conns : conn'[d] # None /\ conn'[d].stage = "sent"
                         => conn'[d] = conn[d]
      BY <1>16 DEF TypeOK, Jobs, AskApproval
    <2>2. \/ controlVersion' = controlVersion /\ control' = control
          \/ controlVersion' > controlVersion
      BY <1>16 DEF TypeOK, AskApproval, control
    <2>3. controlVersion' \in Nat
      BY <1>16 DEF TypeOK, AskApproval
    <2> QED BY <2>1, <2>2, <2>3, SentKept
  <1>17. ASSUME NEW c \in Conns, Dispatch(c) PROVE SentSawItsVersion'
    BY <1>17, SentKept DEF TypeOK, Dispatch, lease
  <1>18. ASSUME NEW n \in 1..MaxFrame, FrameCaptured(n)
         PROVE SentSawItsVersion'
    BY <1>18, SentKept DEF TypeOK, FrameCaptured
  <1>19. CASE UNCHANGED vars
    BY <1>19 DEF SentSawItsVersion, TypeOK, vars, lease, control, approval,
       history
  <1> QED
    BY <1>1, <1>2, <1>3, <1>4, <1>5, <1>6, <1>7, <1>8, <1>9, <1>10, <1>11,
       <1>12, <1>13, <1>14, <1>15, <1>16, <1>17, <1>18, <1>19
    DEF Next, Operator, Arrive

\* A pause or a step shows in the mode until the risk gate moves it.
LEMMA HeldStep ==
  TypeOK /\ ModeAgreesWithOwner /\ HeldShowsInMode /\ [Next]_vars => HeldShowsInMode'
PROOF
  <1> SUFFICES ASSUME TypeOK, ModeAgreesWithOwner, HeldShowsInMode, [Next]_vars
               PROVE  HeldShowsInMode'
    OBVIOUS
  <1>1. CASE Takeover
    BY <1>1 DEF HeldShowsInMode, TypeOK, Takeover, Command, Decide, approval
  <1>2. CASE Release
    BY <1>2 DEF HeldShowsInMode, TypeOK, Release, Command, Decide, approval
  <1>3. CASE Pause
    BY <1>3 DEF HeldShowsInMode, TypeOK, Pause, Command, Decide, approval
  <1>4. CASE StepOnce
    BY <1>4 DEF HeldShowsInMode, TypeOK, StepOnce, Command, Decide, approval
  <1>5. CASE Annotate
    BY <1>5 DEF HeldShowsInMode, TypeOK, Annotate, Command, Decide, approval
  <1>6. CASE Abort
    BY <1>6 DEF HeldShowsInMode, TypeOK, Abort, Command, Decide, approval
  <1>7. CASE SensitiveOn
    BY <1>7 DEF HeldShowsInMode, TypeOK, SensitiveOn, Command, Decide, approval
  <1>8. CASE SensitiveOff
    BY <1>8 DEF HeldShowsInMode, TypeOK, SensitiveOff, Command, Decide,
       approval
  <1>9. CASE Deny
    BY <1>9 DEF HeldShowsInMode, TypeOK, Deny, Command, Decide, approval
  <1>10. CASE ApproveExpired
    BY <1>10 DEF HeldShowsInMode, TypeOK, ApproveExpired, Command, Decide,
       approval
  <1>11. CASE DeadlinePasses
    BY <1>11 DEF HeldShowsInMode, TypeOK, DeadlinePasses, lease, control,
       history
  <1>12. ASSUME NEW c \in Conns, ViewerApprove(c) PROVE HeldShowsInMode'
    BY <1>12 DEF HeldShowsInMode, TypeOK, ViewerApprove, Command, Decide
  <1>13. ASSUME NEW c \in Conns, Send(c) PROVE HeldShowsInMode'
    BY <1>13 DEF HeldShowsInMode, TypeOK, Send, lease, control, approval,
       history
  <1>14. ASSUME NEW c \in Conns, Reject(c) PROVE HeldShowsInMode'
    BY <1>14 DEF HeldShowsInMode, TypeOK, Reject, lease, control, approval,
       history
  <1>15. ASSUME NEW c \in Conns, Admit(c) PROVE HeldShowsInMode'
    <2>1. mode = "Step" => owner = "agent"
      BY DEF ModeAgreesWithOwner
    <2> QED BY <1>15, <2>1 DEF HeldShowsInMode, TypeOK, Admit, Authorizes,
                             ConsumesStep, CountAgent
  <1>16. ASSUME NEW c \in Conns, AskApproval(c) PROVE HeldShowsInMode'
    BY <1>16 DEF HeldShowsInMode, TypeOK, AskApproval
  <1>17. ASSUME NEW c \in Conns, Dispatch(c) PROVE HeldShowsInMode'
    BY <1>17 DEF HeldShowsInMode, TypeOK, Dispatch, lease, control, approval,
       history
  <1>18. ASSUME NEW n \in 1..MaxFrame, FrameCaptured(n) PROVE HeldShowsInMode'
    BY <1>18 DEF HeldShowsInMode, TypeOK, FrameCaptured, control, approval,
       history
  <1>19. CASE UNCHANGED vars
    BY <1>19 DEF HeldShowsInMode, TypeOK, vars, lease, control, approval,
       history
  <1> QED
    BY <1>1, <1>2, <1>3, <1>4, <1>5, <1>6, <1>7, <1>8, <1>9, <1>10, <1>11,
       <1>12, <1>13, <1>14, <1>15, <1>16, <1>17, <1>18, <1>19
    DEF Next, Operator, Arrive

-----------------------------------------------------------------------------
(* The inductive invariant and what it implies.                            *)

\* IInv holds initially, every step keeps it, and so it always holds.
THEOREM Invariance == Spec => []IInv
PROOF
  <1>1. Init => IInv
    <2> SUFFICES ASSUME Init PROVE IInv
      OBVIOUS
    <2>1. Flags
      BY Zenon DEF Init, Flags
    <2>2. TypeOK
      BY <2>1 DEF Init, TypeOK, Flags, Modes
    <2>3. ModeAgreesWithOwner /\ BannerMatchesInput /\ ApprovalSpentOnce
      BY DEF Init, ModeAgreesWithOwner, BannerMatchesInput, ApprovalSpentOnce
    <2>4. SentSawItsVersion /\ HeldShowsInMode
      BY DEF Init, SentSawItsVersion, HeldShowsInMode
    <2> QED BY <2>2, <2>3, <2>4 DEF IInv
  <1>2. IInv /\ [Next]_vars => IInv'
    BY TypeStep, ModeStep, BannerStep, SpentStep, SentStep, HeldStep DEF IInv
  <1> QED BY <1>1, <1>2, PTL DEF Spec

\* Owner, mode and privacy never contradict each other, whatever sequence of
\* the operations of control.rs:149-344 runs.
THEOREM ModeSafety == Spec => []ModeAgreesWithOwner
PROOF
  <1>1. IInv => ModeAgreesWithOwner
    BY DEF IInv
  <1> QED BY <1>1, Invariance, PTL

\* The input that an approval releases is always the one its banner shows.
THEOREM BannerSafety == Spec => []BannerMatchesInput
PROOF
  <1>1. IInv => BannerMatchesInput
    BY DEF IInv
  <1> QED BY <1>1, Invariance, PTL

\* No approval outlives the input it released.
THEOREM ApprovalSafety == Spec => []ApprovalSpentOnce
PROOF
  <1>1. IInv => ApprovalSpentOnce
    BY DEF IInv
  <1> QED BY <1>1, Invariance, PTL

\* However many connections submit inputs, a pause admits no agent input and
\* a step at most one, until the operator or the risk gate moves the mode.
THEOREM HeldSafety == Spec => []HeldAgentBudget
PROOF
  <1>1. IInv => HeldAgentBudget
    BY DEF IInv, HeldShowsInMode, HeldAgentBudget, TypeOK
  <1> QED BY <1>1, Invariance, PTL

\* An input is admitted only under the owner, mode and privacy its author saw.
THEOREM AdmissionSafety == Spec => AdmittedAsSeen
PROOF
  <1>1. ASSUME IInv, [Next]_vars, NEW c \in Conns,
               conn[c] # None, conn[c].stage = "sent",
               conn'[c] # None, conn'[c].stage = "admitted"
        PROVE  conn[c].seen = control
    <2>0. /\ TypeOK /\ SentSawItsVersion
          /\ conn[c] # None /\ conn[c].stage = "sent"
          /\ conn'[c] # None /\ conn'[c].stage = "admitted"
      BY <1>1 DEF IInv
    <2>1. CASE Takeover
      BY <2>0, <2>1 DEF Takeover, Command, approval
    <2>2. CASE Release
      BY <2>0, <2>2 DEF Release, Command, approval
    <2>3. CASE Pause
      BY <2>0, <2>3 DEF Pause, Command, approval
    <2>4. CASE StepOnce
      BY <2>0, <2>4 DEF StepOnce, Command, approval
    <2>5. CASE Annotate
      BY <2>0, <2>5 DEF Annotate, Command, approval
    <2>6. CASE Abort
      BY <2>0, <2>6 DEF Abort, Command, approval
    <2>7. CASE SensitiveOn
      BY <2>0, <2>7 DEF SensitiveOn, Command, approval
    <2>8. CASE SensitiveOff
      BY <2>0, <2>8 DEF SensitiveOff, Command, approval
    <2>9. CASE Deny
      BY <2>0, <2>9 DEF Deny, Command, approval
    <2>10. CASE ApproveExpired
      BY <2>0, <2>10 DEF ApproveExpired, Command, approval
    <2>11. CASE DeadlinePasses
      BY <2>0, <2>11 DEF DeadlinePasses
    <2>12. ASSUME NEW d \in Conns, ViewerApprove(d)
           PROVE conn[c].seen = control
      BY <2>0, <2>12 DEF TypeOK, ViewerApprove
    <2>13. ASSUME NEW d \in Conns, Send(d) PROVE conn[c].seen = control
      BY <2>0, <2>13 DEF TypeOK, Send
    <2>14. ASSUME NEW d \in Conns, Reject(d) PROVE conn[c].seen = control
      BY <2>0, <2>14 DEF TypeOK, Reject
    <2>15. ASSUME NEW d \in Conns, Admit(d) PROVE conn[c].seen = control
      BY <2>0, <2>15 DEF TypeOK, Admit, Authorizes, SentSawItsVersion
    <2>16. ASSUME NEW d \in Conns, AskApproval(d) PROVE conn[c].seen = control
      BY <2>0, <2>16 DEF TypeOK, AskApproval, Jobs
    <2>17. ASSUME NEW d \in Conns, Dispatch(d) PROVE conn[c].seen = control
      BY <2>0, <2>17 DEF TypeOK, Dispatch
    <2>18. ASSUME NEW n \in 1..MaxFrame, FrameCaptured(n)
           PROVE conn[c].seen = control
      BY <2>0, <2>18 DEF FrameCaptured
    <2>19. CASE UNCHANGED vars
      BY <2>0, <2>19 DEF vars
    <2> QED
      BY <1>1, <2>1, <2>2, <2>3, <2>4, <2>5, <2>6, <2>7, <2>8, <2>9, <2>10,
         <2>11, <2>12, <2>13, <2>14, <2>15, <2>16, <2>17, <2>18, <2>19
      DEF Next, Operator, Arrive

  <1>2. IInv /\ [Next]_vars => AdmitsOnlyAsSeen
    BY <1>1 DEF AdmitsOnlyAsSeen
  <1> QED BY <1>2, Invariance, PTL DEF Spec, AdmittedAsSeen
=============================================================================
