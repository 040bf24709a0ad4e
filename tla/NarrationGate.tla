---------------------------- MODULE NarrationGate ----------------------------
(***************************************************************************)
(* The gate every narrated agent action waits at, as it is implemented: a  *)
(* ControlState behind a mutex and a tokio Notify.                         *)
(*                                                                         *)
(* Code: cli/src/daemon/narration/control.rs (Control) and                 *)
(* cli/src/daemon/narration/mod.rs (Narrator).  Actions run concurrently,  *)
(* one task per connection, and so do the operators' commands.             *)
(*                                                                         *)
(* wait_go reads the state under the mutex, releases it, and only then     *)
(* creates the Notified future: the two are separate steps here            *)
(* ("asking" -> "deciding" -> "waiting").  set() stores the state under    *)
(* the mutex and calls notify_waiters afterwards; notify_waiters wakes the *)
(* futures that exist at that moment and leaves no permit behind.          *)
(*                                                                         *)
(* Left out: labels, history and bus events, the probe and the lead time,  *)
(* none of which the gate depends on.                                      *)
(***************************************************************************)
EXTENDS Naturals

CONSTANTS Actions,    \* tasks that run agent actions
          Operators   \* tasks that run control commands

VARIABLES
  active,      \* Narrator.active: a viewer has been started
  gate,        \* Control.state
  pc,          \* where each action is
  setter,      \* "idle", or "stored": set() has stored but not notified yet
  lastSet,     \* history: the state stored by the latest set()
  letThrough   \* history: gated actions let through (or, after Aborted,
               \* turned away) since then, capped at 2

vars == <<active, gate, pc, setter, lastSet, letThrough>>

ControlStates == {"Running", "Paused", "Step", "Aborted"}
Blocked == {"asking", "deciding", "waiting"}
Places == {"idle", "running"} \cup Blocked

TypeOK ==
  /\ active \in BOOLEAN
  /\ gate \in ControlStates
  /\ pc \in [Actions -> Places]
  /\ setter \in [Operators -> {"idle", "stored"}]
  /\ lastSet \in ControlStates
  /\ letThrough \in 0..2

Init ==
  /\ active = FALSE
  /\ gate = "Running"
  /\ pc = [a \in Actions |-> "idle"]
  /\ setter = [o \in Operators |-> "idle"]
  /\ lastSet = "Running"
  /\ letThrough = 0

Goto(a, p) == pc' = [pc EXCEPT ![a] = p]
Count == letThrough' = IF letThrough < 2 THEN letThrough + 1 ELSE letThrough

-----------------------------------------------------------------------------
\* Narrator::activate, called when the viewer server starts.
Activate ==
  /\ ~active
  /\ active' = TRUE
  /\ UNCHANGED <<gate, pc, setter, lastSet, letThrough>>

\* emit_pre without a viewer returns at once.
StartInactive(a) ==
  /\ pc[a] = "idle"
  /\ ~active
  /\ Goto(a, "running")
  /\ UNCHANGED <<active, gate, setter, lastSet, letThrough>>

StartGated(a) ==
  /\ pc[a] = "idle"
  /\ active
  /\ Goto(a, "asking")
  /\ UNCHANGED <<active, gate, setter, lastSet, letThrough>>

\* Mutant of Pass: the step is not consumed.
PassKeepsStep(a) ==
  /\ pc[a] = "asking"
  /\ gate \in {"Running", "Step"}
  /\ Goto(a, "running")
  /\ Count
  /\ UNCHANGED <<active, gate, setter, lastSet>>

\* One pass through wait_go's locked block that lets the action go: Running,
\* or Step, which is consumed.
Pass(a) ==
  /\ pc[a] = "asking"
  /\ gate \in {"Running", "Step"}
  /\ gate' = IF gate = "Step" THEN "Paused" ELSE gate
  /\ Goto(a, "running")
  /\ Count
  /\ UNCHANGED <<active, setter, lastSet>>

\* Mutant of TurnAway: the abort is not consumed.
TurnAwayForGood(a) ==
  /\ pc[a] = "asking"
  /\ gate = "Aborted"
  /\ Goto(a, "idle")
  /\ Count
  /\ UNCHANGED <<active, gate, setter, lastSet>>

\* The locked block finds Aborted and resets it; the action fails.
TurnAway(a) ==
  /\ pc[a] = "asking"
  /\ gate = "Aborted"
  /\ gate' = "Running"
  /\ Goto(a, "idle")
  /\ Count
  /\ UNCHANGED <<active, setter, lastSet>>

\* The locked block finds Paused; the mutex is released here.
FindPaused(a) ==
  /\ pc[a] = "asking"
  /\ gate = "Paused"
  /\ Goto(a, "deciding")
  /\ UNCHANGED <<active, gate, setter, lastSet, letThrough>>

\* notified() registers the waiter.
Register(a) ==
  /\ pc[a] = "deciding"
  /\ Goto(a, "waiting")
  /\ UNCHANGED <<active, gate, setter, lastSet, letThrough>>

\* The action's body has run and emit_post has been sent.
Finish(a) ==
  /\ pc[a] = "running"
  /\ Goto(a, "idle")
  /\ UNCHANGED <<active, gate, setter, lastSet, letThrough>>

-----------------------------------------------------------------------------
\* Mutant of Store: a command without a ControlState is stored as it came.
StoreUnparsed(o, s) ==
  /\ setter[o] = "idle"
  /\ gate' = "takeover"
  /\ setter' = [setter EXCEPT ![o] = "stored"]
  /\ UNCHANGED <<active, pc, lastSet, letThrough>>

\* Control::set, first half: the new state is stored under the mutex.
Store(o, s) ==
  /\ setter[o] = "idle"
  /\ gate' = s
  /\ setter' = [setter EXCEPT ![o] = "stored"]
  /\ lastSet' = s
  /\ letThrough' = 0
  /\ UNCHANGED <<active, pc>>

\* Mutant of NotifyWaiters: nobody is woken.
NotifyNobody(o) ==
  /\ setter[o] = "stored"
  /\ setter' = [setter EXCEPT ![o] = "idle"]
  /\ UNCHANGED <<active, gate, pc, lastSet, letThrough>>

\* Control::set, second half: notify_waiters wakes every registered waiter.
NotifyWaiters(o) ==
  /\ setter[o] = "stored"
  /\ setter' = [setter EXCEPT ![o] = "idle"]
  /\ pc' = [a \in Actions |-> IF pc[a] = "waiting" THEN "asking" ELSE pc[a]]
  /\ UNCHANGED <<active, gate, lastSet, letThrough>>

-----------------------------------------------------------------------------
WaitGo(a) == Pass(a) \/ TurnAway(a) \/ FindPaused(a) \/ Register(a)

ActionStep(a) == StartInactive(a) \/ StartGated(a) \/ WaitGo(a) \/ Finish(a)

OperatorStep(o) ==
  \/ \E s \in ControlStates : Store(o, s)
  \/ NotifyWaiters(o)

Next ==
  \/ Activate
  \/ \E a \in Actions : ActionStep(a)
  \/ \E o \in Operators : OperatorStep(o)

Spec == Init /\ [][Next]_vars

\* The runtime schedules every task that can run; operators owe no command,
\* but a set() that has stored its state reaches notify_waiters.
FairSpec ==
  /\ Spec
  /\ \A a \in Actions : WF_vars(WaitGo(a)) /\ WF_vars(Finish(a))
  /\ \A o \in Operators : WF_vars(NotifyWaiters(o))

-----------------------------------------------------------------------------
(* Properties.                                                             *)

\* Whatever the interleaving of actions and operators: since the latest
\* pause no action was let through, since the latest step at most one, and
\* the latest abort turned away at most one before the gate was Running
\* again (wait_go consumes Step and Aborted under the mutex, control.rs:44-53).
OneDecisionOneAction ==
  /\ lastSet = "Paused" => letThrough = 0
  /\ lastSet = "Step" => letThrough <= 1
  /\ lastSet = "Aborted" /\ gate = "Aborted" => letThrough = 0

\* The implementation has no behaviour its contract forbids: the mutex and
\* the notification only delay an action that is asking.
Phase(p) == IF p \in Blocked THEN "asking" ELSE p

Contract == INSTANCE ActionGate WITH phase <- [a \in Actions |-> Phase(pc[a])]
ImplementsActionGate == Contract!Spec

\* A waiter whose notification was lost is not lost for good: as long as the
\* gate stays Running and somebody keeps issuing resume, it leaves wait_go.
RepeatedResumeFrees ==
  \A a \in Actions :
    (/\ <>[](gate = "Running")
     /\ []<><<\E o \in Operators : Store(o, "Running")>>_vars)
    => []<>(pc[a] \notin Blocked)

-----------------------------------------------------------------------------
(* A statement of the source that the code does not satisfy.               *)

\* "Block until the gate opens" (control.rs:39): an action does not stay
\* blocked for ever while the gate stays Running.
UnblocksWhenGateOpens ==
  \A a \in Actions :
    <>[](gate = "Running") => []<>(pc[a] \notin Blocked)
=============================================================================
