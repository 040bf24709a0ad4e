---------------------------- MODULE SharedControl ----------------------------
(***************************************************************************)
(* The shared-control lease of a browser session: who may drive the page,  *)
(* in which mode, and what happens to an input between the moment its      *)
(* author composes it and the moment it reaches Chrome.                    *)
(*                                                                         *)
(* Code: SharedControlStore and authorize_page_effect                      *)
(* (cli/src/daemon/view/control.rs), the viewer's command handler          *)
(* (cli/src/daemon/view/input.rs) and the cloud input handler              *)
(* (cli/src/daemon/handlers/cloud.rs).  Every operation on the store runs  *)
(* under one tokio mutex and is one step here; dispatching an admitted     *)
(* input happens after the mutex is released and is a step of its own.     *)
(*                                                                         *)
(* Abstractions.                                                           *)
(*  - An input is a member of Commands; two inputs with the same content   *)
(*    have the same command_hash.  The risk verdict of a command is a      *)
(*    member of Verdicts[cmd]: a pointer command has both, because its     *)
(*    verdict depends on the refs found under the pointer at that moment.  *)
(*  - reason, requested_by and expires_at_ms of the shared state are only  *)
(*    reported to viewers, no guard reads them, and they are left out.     *)
(*    The expiry of a pending approval is the flag approvalExpired.        *)
(*  - approved_input is set by approve() and taken under the same lock by  *)
(*    the only caller, so it is a local of ViewerApprove.                  *)
(*  - PageEffect is always Input in production, so the other effects are   *)
(*    left out.                                                            *)
(***************************************************************************)
EXTENDS Integers

CONSTANTS
  Commands,    \* contents of page inputs
  Verdicts,    \* risk verdicts evaluate_risk may give a command
  Conns,       \* connections that submit inputs (viewer sockets, cloud RPCs)
  None,        \* no pending approval, no input
  MaxVersion,  \* bound: operators stop issuing commands at this version
  MaxFrame     \* bound: frames captured

ASSUME VerdictsAssumption == Verdicts \in [Commands -> SUBSET BOOLEAN]
ASSUME BoundAssumption == MaxVersion \in Nat /\ MaxFrame \in Nat

Owners == {"agent", "user", "system"}
Modes  == {"AgentRunning", "UserTakeover", "Paused", "Step",
           "ApprovalRequired", "Annotating", "Sensitive", "Aborted"}
Inputs == [owner : Owners, cmd : Commands]

ASSUME NoneAssumption == None \notin Commands /\ None \notin Inputs

VARIABLES
  owner, mode, sensitive,      \* SharedControlStateV1
  controlVersion, frameSeq,
  pendingApproval,             \* command the banner asks about, or None
  approvalExpired,             \* its 30 s have passed
  pendingInput,                \* input stored beside it, or None
  approvedHash,                \* approved_command_hash
  conn,                        \* the input each connection is carrying
  held, agentSince, gateMoved, \* history: last operator decision about the
                               \* agent, agent inputs admitted since, and
                               \* whether the risk gate moved the mode since
  approvalBalance              \* history: approvals minus risky releases

control  == <<owner, mode, sensitive>>
lease    == <<control, controlVersion, frameSeq>>
approval == <<pendingApproval, approvalExpired, pendingInput, approvedHash>>
history  == <<held, agentSince, gateMoved>>
vars     == <<lease, approval, conn, history, approvalBalance>>

Jobs   == [stage : {"sent", "admitted"}, owner : Owners, cmd : Commands,
           version : Nat, frame : Nat, seen : Owners \X Modes \X BOOLEAN]

TypeOK ==
  /\ owner \in {"agent", "user"}
  /\ mode \in Modes
  /\ sensitive \in BOOLEAN
  /\ controlVersion \in Nat
  /\ frameSeq \in Nat
  /\ pendingApproval \in Commands \cup {None}
  /\ approvalExpired \in BOOLEAN
  /\ pendingInput \in Inputs \cup {None}
  /\ approvedHash \in Commands \cup {None}
  /\ conn \in [Conns -> Jobs \cup {None}]
  /\ held \in {"free", "pause", "step"}
  /\ agentSince \in 0..2
  /\ gateMoved \in BOOLEAN
  /\ approvalBalance \in Int

Init ==
  /\ owner = "agent"
  /\ mode = "AgentRunning"
  /\ sensitive = FALSE
  /\ controlVersion = 1
  /\ frameSeq = 1
  /\ pendingApproval = None
  /\ approvalExpired = FALSE
  /\ pendingInput = None
  /\ approvedHash = None
  /\ conn = [c \in Conns |-> None]
  /\ held = "free"
  /\ agentSince = 0
  /\ gateMoved = FALSE
  /\ approvalBalance = 0

-----------------------------------------------------------------------------
(* Operator commands: one lock acquisition each, always accepted.          *)

Decide(h) == held' = h /\ agentSince' = 0 /\ gateMoved' = FALSE

Command(o, m, s) ==
  /\ controlVersion < MaxVersion
  /\ owner' = o
  /\ mode' = m
  /\ sensitive' = s
  /\ controlVersion' = controlVersion + 1
  /\ UNCHANGED frameSeq

Takeover ==
  /\ Command("user", "UserTakeover", sensitive)
  /\ Decide("free")
  /\ UNCHANGED <<approval, conn, approvalBalance>>

\* Mutant of Release: the session stays sensitive.
ReleaseStillSensitive ==
  /\ Command("agent", "AgentRunning", sensitive)
  /\ Decide("free")
  /\ UNCHANGED <<approval, conn, approvalBalance>>

Release ==
  /\ Command("agent", "AgentRunning", FALSE)
  /\ Decide("free")
  /\ UNCHANGED <<approval, conn, approvalBalance>>

Pause ==
  /\ Command(owner, "Paused", sensitive)
  /\ Decide("pause")
  /\ UNCHANGED <<approval, conn, approvalBalance>>

StepOnce ==
  /\ Command("agent", "Step", sensitive)
  /\ Decide("step")
  /\ UNCHANGED <<approval, conn, approvalBalance>>

Annotate ==
  /\ Command("user", "Annotating", sensitive)
  /\ Decide("free")
  /\ UNCHANGED <<approval, conn, approvalBalance>>

\* abort() drops the banner but leaves pending_input behind.
Abort ==
  /\ Command(owner, "Aborted", sensitive)
  /\ pendingApproval' = None
  /\ approvalExpired' = FALSE
  /\ approvedHash' = None
  /\ Decide("free")
  /\ UNCHANGED <<pendingInput, conn, approvalBalance>>

SensitiveOn ==
  /\ Command("user", "Sensitive", TRUE)
  /\ Decide("free")
  /\ UNCHANGED <<approval, conn, approvalBalance>>

SensitiveOff ==
  /\ Command("agent", "AgentRunning", FALSE)
  /\ Decide("free")
  /\ UNCHANGED <<approval, conn, approvalBalance>>

\* Mutant of Deny: the page goes to nobody.
DenyToSystem ==
  /\ Command("system", "UserTakeover", sensitive)
  /\ Decide("free")
  /\ UNCHANGED <<approval, conn, approvalBalance>>

\* Mutant of Deny: the input goes, the banner stays.
DenyKeepsBanner ==
  /\ Command("user", "UserTakeover", sensitive)
  /\ pendingInput' = None
  /\ approvedHash' = None
  /\ Decide("free")
  /\ UNCHANGED <<pendingApproval, approvalExpired, conn, approvalBalance>>

Deny ==
  /\ Command("user", "UserTakeover", sensitive)
  /\ pendingApproval' = None
  /\ approvalExpired' = FALSE
  /\ pendingInput' = None
  /\ approvedHash' = None
  /\ Decide("free")
  /\ UNCHANGED <<conn, approvalBalance>>

-----------------------------------------------------------------------------
(* Approvals.                                                              *)

\* The wall clock passes the expires_at_ms of the pending approval.
DeadlinePasses ==
  /\ pendingApproval # None
  /\ ~approvalExpired
  /\ approvalExpired' = TRUE
  /\ UNCHANGED <<lease, pendingApproval, pendingInput, approvedHash, conn,
                 history, approvalBalance>>

\* approve() after the deadline: the banner goes and the mode changes, the
\* owner and pending_input stay, the caller gets an error.
ApproveExpired ==
  /\ pendingApproval # None
  /\ approvalExpired
  /\ Command(owner, "UserTakeover", sensitive)
  /\ pendingApproval' = None
  /\ approvalExpired' = FALSE
  /\ gateMoved' = TRUE
  /\ UNCHANGED <<pendingInput, approvedHash, conn, held, agentSince,
                 approvalBalance>>

\* The input that take_approved_input hands to the approving connection,
\* stamped with the control state approve() returned.
ApprovedJob(input) ==
  [stage |-> "admitted", owner |-> input.owner, cmd |-> input.cmd,
   version |-> controlVersion + 1, frame |-> frameSeq,
   seen |-> <<"user", "UserTakeover", sensitive>>]

\* Mutant of ViewerApprove: the approval is not spent on the stored input.
ApproveKeepsHash(c) ==
  /\ conn[c] = None
  /\ pendingApproval # None
  /\ ~approvalExpired
  /\ Command("user", "UserTakeover", sensitive)
  /\ pendingApproval' = None
  /\ pendingInput' = None
  /\ approvedHash' = pendingApproval
  /\ conn' = [conn EXCEPT ![c] = ApprovedJob(pendingInput)]
  /\ Decide("free")
  /\ UNCHANGED <<approvalExpired, approvalBalance>>

\* approve() and take_approved_input() under one lock acquisition; the
\* connection that approved dispatches the stored input afterwards.
ViewerApprove(c) ==
  /\ conn[c] = None
  /\ pendingApproval # None
  /\ ~approvalExpired
  /\ Command("user", "UserTakeover", sensitive)
  /\ pendingApproval' = None
  /\ pendingInput' = None
  /\ approvedHash' = None
  /\ conn' = [conn EXCEPT ![c] = IF pendingInput = None THEN None
                                 ELSE ApprovedJob(pendingInput)]
  /\ approvalBalance' = IF pendingInput = None THEN approvalBalance + 1
                        ELSE approvalBalance
  /\ Decide("free")
  /\ UNCHANGED approvalExpired

-----------------------------------------------------------------------------
(* Inputs.                                                                 *)

\* A client composes an input against the control state it has been shown
\* and sends it; the daemon looks at it at some later step.
Send(c) ==
  /\ conn[c] = None
  /\ controlVersion < MaxVersion
  /\ \E o \in Owners, cmd \in Commands :
       conn' = [conn EXCEPT ![c] =
                  [stage |-> "sent", owner |-> o, cmd |-> cmd,
                   version |-> controlVersion, frame |-> frameSeq,
                   seen |-> control]]
  /\ UNCHANGED <<lease, approval, history, approvalBalance>>

\* Mutant of Authorizes: an input composed against an older version passes.
AuthorizesStale(job) ==
  /\ job.frame >= frameSeq
  /\ mode # "Annotating"
  /\ ~(sensitive /\ job.owner = "agent")
  /\ ~(mode = "Paused" /\ job.owner = "agent")
  /\ (mode = "Step" /\ job.owner = "agent") \/ job.owner = owner

\* Mutant of Authorizes: a paused session is not looked at.
AuthorizesWhilePaused(job) ==
  /\ job.version = controlVersion
  /\ job.frame >= frameSeq
  /\ mode # "Annotating"
  /\ ~(sensitive /\ job.owner = "agent")
  /\ (mode = "Step" /\ job.owner = "agent") \/ job.owner = owner

\* SharedControlStore::authorize for PageEffect::Input, in the code's order:
\* version, frame, annotating, sensitive, paused, step, owner.
Authorizes(job) ==
  /\ job.version = controlVersion
  /\ job.frame >= frameSeq
  /\ mode # "Annotating"
  /\ ~(sensitive /\ job.owner = "agent")
  /\ ~(mode = "Paused" /\ job.owner = "agent")
  /\ (mode = "Step" /\ job.owner = "agent") \/ job.owner = owner

ConsumesStep(job) == mode = "Step" /\ job.owner = "agent"

Reject(c) ==
  /\ conn[c] # None
  /\ conn[c].stage = "sent"
  /\ ~Authorizes(conn[c])
  /\ conn' = [conn EXCEPT ![c] = None]
  /\ UNCHANGED <<lease, approval, history, approvalBalance>>

CountAgent(job) ==
  agentSince' = IF job.owner = "agent" /\ held # "free" /\ agentSince < 2
                THEN agentSince + 1 ELSE agentSince

\* authorize_page_effect returns Ok: no approval needed, or the approval of
\* exactly this command is consumed.  An agent input uses up a step.
Admit(c) ==
  /\ conn[c] # None
  /\ conn[c].stage = "sent"
  /\ Authorizes(conn[c])
  /\ \E risky \in Verdicts[conn[c].cmd] :
       /\ risky => approvedHash = conn[c].cmd
       /\ approvedHash' = IF risky THEN None ELSE approvedHash
       /\ approvalBalance' = IF risky THEN approvalBalance - 1
                             ELSE approvalBalance
  /\ mode' = IF ConsumesStep(conn[c]) THEN "Paused" ELSE mode
  /\ controlVersion' = IF ConsumesStep(conn[c]) THEN controlVersion + 1
                       ELSE controlVersion
  /\ conn' = [conn EXCEPT ![c].stage = "admitted"]
  /\ CountAgent(conn[c])
  /\ UNCHANGED <<owner, sensitive, frameSeq, pendingApproval,
                 approvalExpired, pendingInput, held, gateMoved>>

\* authorize_page_effect finds a risky command without an approval: the
\* step, if any, is used up, the banner goes up and the input is stored.
AskApproval(c) ==
  /\ conn[c] # None
  /\ conn[c].stage = "sent"
  /\ Authorizes(conn[c])
  /\ TRUE \in Verdicts[conn[c].cmd]
  /\ approvedHash # conn[c].cmd
  /\ mode' = "ApprovalRequired"
  /\ controlVersion' = IF ConsumesStep(conn[c]) THEN controlVersion + 2
                       ELSE controlVersion + 1
  /\ pendingApproval' = conn[c].cmd
  /\ approvalExpired' = FALSE
  /\ pendingInput' = [owner |-> conn[c].owner, cmd |-> conn[c].cmd]
  /\ conn' = [conn EXCEPT ![c] = None]
  /\ gateMoved' = TRUE
  /\ UNCHANGED <<owner, sensitive, frameSeq, approvedHash, held, agentSince,
                 approvalBalance>>

\* dispatch_user_input: the input reaches Chrome, or fails; the store's lock
\* is not held and its state is not looked at again.
Dispatch(c) ==
  /\ conn[c] # None
  /\ conn[c].stage = "admitted"
  /\ conn' = [conn EXCEPT ![c] = None]
  /\ UNCHANGED <<lease, approval, history, approvalBalance>>

\* record_frame_metadata: update_frame_seq keeps the largest frame number,
\* whatever the order in which captured frames arrive.
FrameCaptured(n) ==
  /\ frameSeq' = IF n > frameSeq THEN n ELSE frameSeq
  /\ UNCHANGED <<control, controlVersion, approval, conn, history,
                 approvalBalance>>

-----------------------------------------------------------------------------
Operator ==
  \/ Takeover \/ Release \/ Pause \/ StepOnce \/ Annotate \/ Abort
  \/ SensitiveOn \/ SensitiveOff \/ Deny \/ ApproveExpired

Arrive(c) == Reject(c) \/ Admit(c) \/ AskApproval(c)

Next ==
  \/ Operator
  \/ DeadlinePasses
  \/ \E c \in Conns : ViewerApprove(c) \/ Send(c) \/ Arrive(c) \/ Dispatch(c)
  \/ \E n \in 1..MaxFrame : FrameCaptured(n)

Spec == Init /\ [][Next]_vars

-----------------------------------------------------------------------------
(* Safety properties that hold.                                            *)

\* The mode never contradicts the owner or the privacy flag: agent-running
\* and step belong to the agent and agent-running is never sensitive;
\* annotating and sensitive belong to the user.  Fourteen operations write
\* these three fields independently (control.rs:149-314).
ModeAgreesWithOwner ==
  /\ mode \in {"AgentRunning", "Step"} => owner = "agent"
  /\ mode = "AgentRunning" => ~sensitive
  /\ mode \in {"Annotating", "Sensitive"} => owner = "user"
  /\ mode = "Sensitive" => sensitive

\* "Approval dispatches only that pending command": whatever was left behind
\* by abort or by an expired approval, the stored input is always the one
\* the banner asks about, and an approval-required mode has a banner.
BannerMatchesInput ==
  /\ pendingApproval # None =>
       pendingInput # None /\ pendingInput.cmd = pendingApproval
  /\ mode = "ApprovalRequired" => pendingApproval # None

\* An approval releases one risky input and is spent by it: no approval
\* survives to release the same command a second time.
ApprovalSpentOnce == approvedHash = None /\ approvalBalance = 0

\* After pause no agent input is admitted, after step at most one, until the
\* operator decides otherwise or the risk gate moves the mode, however many
\* clients submit inputs against the same version.
HeldAgentBudget ==
  ~gateMoved => /\ held = "pause" => agentSince = 0
                /\ held = "step"  => agentSince <= 1

\* "Takeover invalidates stale input": an input is admitted only if owner,
\* mode and privacy are those its author saw when composing it.
AdmitsOnlyAsSeen ==
  \A c \in Conns :
    (/\ conn[c] # None /\ conn[c].stage = "sent"
     /\ conn'[c] # None /\ conn'[c].stage = "admitted")
    => conn[c].seen = control

AdmittedAsSeen == [][AdmitsOnlyAsSeen]_vars

=============================================================================
