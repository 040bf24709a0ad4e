------------------------------ MODULE Instruction ------------------------------
(***************************************************************************)
(* act_instruction (cli/src/daemon/handlers/instruction.rs): one sentence  *)
(* is planned, the plan executed, its alternates tried when it fails, and  *)
(* the effect judged by comparing the page before and after.  The planners *)
(* are in InstructionPlans; the runtimes of the actions, which this module *)
(* runs step by step, are in InstructionScripts.                           *)
(*                                                                         *)
(* Abstractions.                                                           *)
(*  - The sentence is its kind, whether it asks for several actions, and   *)
(*    dry_run; max_steps and the confidence are chosen where they are read.*)
(*  - Of the page is kept what the running attempt did to it.              *)
(*  - Alternates are chosen when they are tried, among the capabilities    *)
(*    that may have been sorted behind the current one.                    *)
(*  - The narration gate is its pending abort; its pauses are in module    *)
(*    NarrationGate.                                                       *)
(***************************************************************************)
EXTENDS Integers, Sequences, InstructionPlans, InstructionScripts

CONSTANTS
  KindsAsked,   \* kinds of instructions that are given
  StepLimits,   \* values of max_steps
  Fallbacks,    \* bound: capabilities that come up as alternates
  MaxTimeouts,  \* bound: in-page scripts that do not answer in time
  MaxAborts     \* bound: aborts by the operator

ASSUME InstructionAssumption ==
  /\ KindsAsked \subseteq Kinds
  /\ StepLimits \subseteq Nat \ {0}
  /\ Fallbacks \subseteq Capabilities
  /\ MaxTimeouts \in Nat /\ MaxAborts \in Nat

CaptureTries == 3   \* capture_instruction_page_model_with_retry
MaxAlternates == 3  \* of chooseCapabilityPlan and of the engine

VARIABLES
  request,         \* the instruction: kind, multi, dryRun
  pc,              \* where handle_act_instruction is
  tries,           \* captures of the page model that failed in a row
  plan,            \* the plan being executed, its capability and its rank
  attempt,         \* 0 before any execution, 1 the plan, 2 .. an alternate
  tried,           \* capabilities tried that could be sorted behind "plan"
  step,            \* of the plan
  action,          \* the action of that step
  at,              \* where its script is
  touched, acted,  \* what the step did to the page
  earlier,         \* what the steps before it did, in this attempt
  missed,          \* actions of this attempt that were Ok without acting
  signals,         \* what the results of this attempt say
  failure,         \* why the attempt failed
  timeouts, late,  \* scripts left behind; one can still change the page
  aborts, abort,   \* the operator's abort: none or pending
  answer, verdict

script == <<step, action, at, touched, acted, earlier>>
gate == <<aborts, abort>>
left == <<timeouts, late>>
reply == <<answer, verdict>>
results == <<missed, signals>>
planned == <<plan, attempt, tried>>
vars == <<request, pc, tries, planned, script, results, failure, left, gate, reply>>

Deeds == [touched : BOOLEAN, acted : BOOLEAN]
Nothing == [touched |-> FALSE, acted |-> FALSE]
NoPlan == [capability |-> "none", rank |-> 0, sequence |-> FALSE, steps |-> <<>>]
Causes == {"fail", "timeout", "navigated", "turned_away"}

TypeOK ==
  /\ request \in [kind : KindsAsked, multi : BOOLEAN, dryRun : BOOLEAN]
  /\ pc \in {"asked", "before", "plan", "decide", "step", "run", "failed",
             "after", "answered"}
  /\ tries \in 0 .. CaptureTries - 1
  /\ plan.capability \in Capabilities \cup {"none"}
  /\ attempt \in 0 .. 1 + MaxAlternates /\ tried \subseteq Capabilities
  /\ step \in 0 .. Len(plan.steps)
  /\ pc = "run" => action \in plan.steps[step] /\ at \in Labels(action)
  /\ touched \in BOOLEAN /\ acted \in BOOLEAN /\ earlier \in Deeds
  /\ missed \subseteq Actions
  /\ failure \in Causes \cup {"none"}
  /\ timeouts \in 0 .. MaxTimeouts /\ late \in BOOLEAN
  /\ aborts \in 0 .. MaxAborts /\ abort \in {"none", "pending"}
  /\ answer \in {"none", "error", "blocked", "dry_run", "done"}
  /\ verdict \in {"none", "observed", "not_observed", "executed_unverified"}

Init ==
  /\ request \in [kind : KindsAsked, multi : BOOLEAN, dryRun : BOOLEAN]
  /\ pc = "asked" /\ tries = 0
  /\ plan = NoPlan /\ attempt = 0 /\ tried = {}
  /\ step = 0 /\ action = "none" /\ at = "none"
  /\ touched = FALSE /\ acted = FALSE /\ earlier = Nothing
  /\ missed = {} /\ signals = {}
  /\ failure = "none" /\ timeouts = 0 /\ late = FALSE
  /\ aborts = 0 /\ abort = "none"
  /\ answer = "none" /\ verdict = "none"

Answer(a) == pc' = "answered" /\ answer' = a

-----------------------------------------------------------------------------
(* handle_act_instruction, up to the execution.                            *)

\* The sentence is understood, and a page is active; otherwise an Err.
Analyze ==
  /\ pc = "asked"
  /\ \/ request.kind # "unknown" /\ pc' = "before" /\ UNCHANGED answer
     \/ Answer("error")
  /\ UNCHANGED <<request, tries, planned, script, results, failure, left, gate,
                 verdict>>

\* A capture that fails because the session is gone is tried again on the
\* refreshed page, three times in all; any other error is the answer's.
CaptureAgain ==
  /\ tries < CaptureTries - 1 /\ tries' = tries + 1 /\ UNCHANGED <<pc, answer>>
CaptureFails == tries' = 0 /\ Answer("error")

CaptureBefore ==
  /\ pc = "before"
  /\ \/ pc' = "plan" /\ tries' = 0 /\ UNCHANGED answer
     \/ CaptureAgain
     \/ CaptureFails
  /\ UNCHANGED <<request, planned, script, results, failure, left, gate, verdict>>

Planned(c, rank, p) ==
  [capability |-> c, rank |-> rank, sequence |-> p.sequence, steps |-> p.steps]
\* What the capabilities may have come up with, and how it ranks.
Ranked(multi) ==
  UNION {UNION {{Planned(c, EffectivePlanRank(c, n, multi), p) :
                   n \in PlanStepCount(p)} : p \in Capability[c].plans} :
           c \in Capabilities}
RankedForOne == Ranked(FALSE)
RankedForSeveral == Ranked(TRUE)
Candidates ==
  {p \in IF request.multi THEN RankedForSeveral ELSE RankedForOne :
     request.kind \in Capability[p.capability].kinds}

\* build_plan: by the daemon, or by the planner in the page, where a
\* capability goes before the plain plan of the kind.
MakePlan ==
  /\ pc = "plan"
  /\ \/ \E p \in PlainPlan(request.kind) :
          plan' = Planned("none", 0, p) /\ pc' = "decide" /\ UNCHANGED answer
     \/ \E p \in Candidates : plan' = p /\ pc' = "decide" /\ UNCHANGED answer
     \/ Answer("error") /\ UNCHANGED plan
  /\ UNCHANGED <<request, tries, attempt, tried, script, results, failure, left,
                 gate, verdict>>

\* A plan too long or not confident enough is only described, and so is every
\* plan of a dry run.
Blocked == (\E max \in StepLimits : DaemonStepCount(plan) > max) /\ Answer("blocked")
BelowConfidence == Answer("blocked")
\* Mutant of Decide: the plan of a dry run is executed.
DecideToRun ==
  /\ pc = "decide"
  /\ \/ (Blocked \/ BelowConfidence) /\ UNCHANGED <<step, attempt>>
     \/ pc' = "step" /\ step' = 1 /\ attempt' = 1 /\ UNCHANGED answer
  /\ UNCHANGED <<request, tries, plan, tried, action, at, touched, acted,
                 earlier, results, failure, left, gate, verdict>>
Decide ==
  /\ pc = "decide"
  /\ \/ (Blocked \/ BelowConfidence) /\ UNCHANGED <<step, attempt>>
     \/ request.dryRun /\ Answer("dry_run") /\ UNCHANGED <<step, attempt>>
     \/ /\ ~request.dryRun
        /\ pc' = "step" /\ step' = 1 /\ attempt' = 1 /\ UNCHANGED answer
  /\ UNCHANGED <<request, tries, plan, tried, action, at, touched, acted,
                 earlier, results, failure, left, gate, verdict>>

-----------------------------------------------------------------------------
(* dispatch_planned_action, execute_plan_without_fallbacks: the steps of   *)
(* the plan one after the other, the first Err ends them.                  *)

StartStep ==
  /\ pc = "step" /\ pc' = "run"
  /\ action' \in plan.steps[step] /\ at' = "start"
  /\ touched' = FALSE /\ acted' = FALSE
  /\ earlier' = IF step = 1 THEN Nothing
                ELSE [touched |-> earlier.touched \/ touched,
                      acted |-> earlier.acted \/ acted]
  /\ UNCHANGED <<request, tries, planned, step, results, failure, left, gate, reply>>

Here == Script[action][at]
Running == pc = "run" /\ at \notin {"ok", "fail"}

RunNode ==
  /\ Running /\ Here.does # "ask"
  /\ at' \in Here.next
  /\ touched' = (touched \/ Here.does = "touch")
  /\ acted' = (acted \/ Here.does = "act")
  /\ UNCHANGED <<request, pc, tries, planned, step, action, earlier, results,
                 failure, left, gate, reply>>

\* narration_gate_or_err: a pending abort turns this one action away.
TurnedAway == Here.next \cap {"fail", "missed"}
PassGate ==
  /\ Running /\ Here.does = "ask"
  /\ IF abort = "pending"
     THEN at' \in TurnedAway /\ abort' = "none" /\ failure' = "turned_away"
     ELSE at' \in Here.next \ {"fail"} /\ UNCHANGED <<abort, failure>>
  /\ UNCHANGED <<request, pc, tries, planned, step, action, touched, acted,
                 earlier, results, left, aborts, reply>>

StepOk ==
  /\ pc = "run" /\ at = "ok"
  /\ failure' = "none"
  /\ missed' = (IF acted THEN missed ELSE missed \cup {action})
  /\ signals' = signals \cup SignalsOf(action, plan.sequence)
  /\ IF step < Len(plan.steps)
     THEN pc' = "step" /\ step' = step + 1
     ELSE pc' = "after" /\ UNCHANGED step
  /\ UNCHANGED <<request, tries, planned, action, at, touched, acted, earlier,
                 left, gate, reply>>

StepFails ==
  /\ pc = "run" /\ at = "fail"
  /\ pc' = "failed" /\ failure' = (IF failure = "none" THEN "fail" ELSE failure)
  /\ UNCHANGED <<request, tries, planned, script, results, left, gate, reply>>

\* The daemon waits PLAN_TIMEOUT for a script in the page; nothing stops the
\* script then.
ScriptTimesOut ==
  /\ Running /\ InPage(action, at)
  /\ timeouts < MaxTimeouts /\ timeouts' = timeouts + 1
  /\ late' = (late \/ <<action, at>> \in StillChanges)
  /\ pc' = "failed" /\ failure' = "timeout"
  /\ UNCHANGED <<request, tries, planned, script, results, gate, reply>>

\* A change of the page that loads another one ends a script that waits.
ContextLost ==
  /\ Running /\ InPage(action, at) /\ Here.does = "wait" /\ (touched \/ acted)
  /\ pc' = "failed" /\ failure' = "navigated"
  /\ UNCHANGED <<request, tries, planned, script, results, left, gate, reply>>

-----------------------------------------------------------------------------
(* execute_planned_action_with_fallbacks.                                  *)

\* Only the plan of a capability carries alternates, and a failed sequence
\* does not use them.
GiveUp ==
  /\ pc = "failed" /\ Answer("error")
  /\ UNCHANGED <<request, tries, planned, script, results, failure, left, gate,
                 verdict>>

Behind(p) ==
  /\ p.capability \notin tried \cup {plan.capability}
  /\ p.rank <= plan.rank
\* Mutant of TryAlternate: the engine takes all alternates there are.
TryAlternateWithoutEnd ==
  /\ pc = "failed" /\ plan.capability # "none" /\ ~(attempt = 1 /\ plan.sequence)
  /\ \E p \in {q \in Candidates : q.capability \in Fallbacks} :
       Behind(p) /\ plan' = p /\ tried' = tried \cup {plan.capability}
  /\ attempt' = attempt + 1
  /\ pc' = "step" /\ step' = 1 /\ missed' = {} /\ signals' = {}
  /\ failure' = "none"
  /\ UNCHANGED <<request, tries, action, at, touched, acted, earlier, left, gate,
                 reply>>
\* Mutant of TryAlternate: a failed sequence is retried like any other plan.
TryAlternateAfterSequence ==
  /\ pc = "failed" /\ plan.capability # "none"
  /\ attempt <= MaxAlternates
  /\ \E p \in {q \in Candidates : q.capability \in Fallbacks} :
       /\ Behind(p) /\ plan' = p
       /\ tried' = {c \in tried \cup {plan.capability} :
                      EffectivePlanRank(c, 0, request.multi) <= p.rank}
  /\ attempt' = attempt + 1
  /\ pc' = "step" /\ step' = 1 /\ missed' = {} /\ signals' = {}
  /\ failure' = "none"
  /\ UNCHANGED <<request, tries, action, at, touched, acted, earlier, left, gate,
                 reply>>
TryAlternate ==
  /\ pc = "failed"
  /\ plan.capability # "none" /\ ~(attempt = 1 /\ plan.sequence)
  /\ attempt <= MaxAlternates
  /\ \E p \in {q \in Candidates : q.capability \in Fallbacks} :
       /\ Behind(p) /\ plan' = p
       /\ tried' = {c \in tried \cup {plan.capability} :
                      EffectivePlanRank(c, 0, request.multi) <= p.rank}
  /\ attempt' = attempt + 1
  /\ pc' = "step" /\ step' = 1 /\ missed' = {} /\ signals' = {}
  /\ failure' = "none"
  /\ UNCHANGED <<request, tries, action, at, touched, acted, earlier, left, gate,
                 reply>>

-----------------------------------------------------------------------------
(* The page is captured again, and the effect judged.                      *)

CaptureAfter ==
  /\ pc = "after"
  /\ \/ /\ tries' = 0 /\ Answer("done")
        /\ \E shown \in {{}} \cup {{s} : s \in PageSignals} :
             verdict' = Verdict(plan.capability, signals \cup shown)
     \/ CaptureAgain /\ UNCHANGED verdict
     \/ CaptureFails /\ UNCHANGED verdict
  /\ UNCHANGED <<request, planned, script, results, failure, left, gate>>

\* The operator aborts, meaning the next action that asks the gate.
Abort ==
  /\ pc # "answered" /\ aborts < MaxAborts
  /\ aborts' = aborts + 1 /\ abort' = "pending"
  /\ UNCHANGED <<request, pc, tries, planned, script, results, failure, left, reply>>

Answered == pc = "answered" /\ UNCHANGED vars

Execute ==
  \/ StartStep \/ RunNode \/ PassGate \/ StepOk \/ StepFails
  \/ ScriptTimesOut \/ ContextLost
Next ==
  \/ Analyze \/ CaptureBefore \/ MakePlan \/ Decide
  \/ Execute \/ GiveUp \/ TryAlternate
  \/ CaptureAfter \/ Abort \/ Answered

Spec == Init /\ [][Next]_vars

-----------------------------------------------------------------------------
(* What act_instruction promises.                                          *)

\* The scripts that cannot fail of themselves once they changed the page.
FailsClean ==
  {"click_ordered_values", "set_checkbox_grid", "format_text", "scroll_element",
   "conditional_value_action", "command_surface_action"} \cup Observers
\* Those that may fail on their way, but not after acting on the target.
ActsLast ==
  FailsClean
    \cup {"select_text", "select_menu_path", "scoped_menu_click",
          "scroll_text_extract", "derive_and_act", "record_property_click",
          "tree_search_click", "visual_feedback_search", "discover_click",
          "date_picker"}

\* An alternate starts on a page that the failed attempt, all its steps
\* together, has left alone, or at least on one where no target was acted on,
\* so that an instruction does not click, fill or submit twice: a plan that
\* got through a part of its sequence gets no alternate at all.  It holds for
\* the scripts named above when they fail of themselves, and for an action
\* the operator turned away.  Three alternates run on whatever is left: after
\* another script, after a timeout or a navigation, and after an alternate
\* that was itself a sequence and failed behind its first step.  (The error
\* returns of the runtimes, against execute_planned_action_with_fallbacks.)
RetriesOnCleanPage ==
  [][/\ attempt' > attempt /\ attempt >= 1
     /\ attempt = 1 \/ step = 1
     => /\ (failure = "fail" /\ action \in FailsClean) \/ failure = "turned_away"
             => ~touched /\ ~acted /\ earlier = Nothing
        /\ failure = "fail" /\ action \in ActsLast
             => ~acted /\ ~earlier.acted]_vars

\* The scripts that may be Ok without having acted on their target: a form
\* counts a field it preserved, or could not write, as filled.
MayMiss ==
  Observers \cup {"orient_visual", "discover_click", "form_workflow"}

\* An answer that says the plan was executed comes from an attempt whose every
\* step, of the scripts above excepted, acted on its target, whichever
\* alternates failed before it; a dry run and a blocked plan have not touched
\* the page.
DoneMeansActed ==
  /\ answer = "done" => missed \subseteq MayMiss
  /\ request.dryRun \/ answer = "blocked" => ~touched /\ ~acted /\ ~late

\* The plans whose own result is not among the signals that are looked for: a
\* text formatted; a date, a path or a turned object that is a step of a
\* sequence; fields that are all sliders and files.
BlindSpot ==
  \/ signals = {"text_formatted"}
  \/ plan.sequence /\ plan.steps[1] \subseteq TopLevelOnly
  \/ /\ plan.capability \in {"scoped-multi-action", "slider-checkbox-sequence",
                             "scoped-field-fill", "multi-field-form-fill"}
     /\ signals \subseteq {"slider_value_set", "file_uploaded"}

\* An action of this kind gives a signal, whether or not it was looked for.
Reports == \E n \in 1 .. Len(plan.steps) : plan.steps[n] \subseteq DOMAIN Emits

\* What an action reports as done is recognised as the effect its capability
\* promised: the answer is "observed" even where page text and counts did not
\* change, but for the plans above.  (effect_signal_kinds, against the results
\* of the handlers and the plans of the capabilities.)
EffectIsSeen ==
  answer = "done" /\ Reports => verdict = "observed" \/ BlindSpot
=============================================================================
