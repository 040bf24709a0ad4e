# gsd-browser in TLA+

Specifications of the concurrent core of `gsd-browser`, the TLC models that
check them on small instances, and TLAPS proofs of the properties that must hold
for any number of clients. Paths without a prefix are relative to
`src/cli/src/`; `spec` is
`docs/superpowers/specs/2026-05-02-interactive-browser-workbench-design.md`.

## 1. The system

`gsd-browser` is a CLI that drives Chrome. Every session has a background
**daemon** that owns the browser; the CLI, the MCP server and the cloud RPCs send
it one request per connection over a Unix socket, and a **viewer** (an HTTP and
WebSocket server inside the daemon) lets a person watch, take over, approve and
record. The runtime is multi-threaded tokio (`main.rs:840`): every connection,
every viewer socket, every CDP listener and every capture loop is a task of its
own, and they meet in a few shared stores.

| Component | State | Operations | Talks to |
|---|---|---|---|
| **Shared-control lease** `daemon/view/control.rs` | owner, mode, sensitive flag, `control_version`, `frame_seq`, the pending approval and the input stored beside it, `approved_command_hash` | takeover, release, pause, step, annotate, abort, sensitive on/off, approve, deny, authorize, request_approval | `view/input.rs`, `handlers/cloud.rs` ask before an input; `view/risk.rs` decides which need approval; `input_dispatch.rs` executes |
| **Narration gate** `daemon/narration/control.rs`, `mod.rs` | a `ControlState` under a mutex, a tokio `Notify`, the active flag | `set`, `wait_go`, `emit_pre`, `emit_post` | every narrated page action waits at it; CLI, `POST /control` and shutdown set it |
| **Control commands** `daemon/handlers/narration_cmds.rs`, `view/input.rs`, `view/http.rs` | none of their own | pause, resume, step, abort, takeover, release, sensitive | set the narration gate, the lease, or one after the other |
| **Flow recorder** `daemon/view/recording.rs` | active session, `next_seq`, `pending_seq`, the shared tagger `current_recording_seq`, `events.jsonl` on disk | start, stop, pause, resume, discard, prepare, record_event, clear_pending | `dispatch` and the viewer claim and record; listeners read the tagger |
| **Log buffers, CDP listeners** `daemon/logs.rs` | bounded FIFO buffers of console, network and dialog entries | push, drain, snapshot | the recorder slices the network buffer |
| **Daemon lifecycle** `lifecycle/`, `daemon/mod.rs`, `daemon/idle.rs`, `common/src/session.rs` | PID file, socket, startup lock, session manifest, in-flight counter | start, stop, recover, idle shutdown, request with one retry | files shared by processes that may die at any point |
| **Page registry, target trackers** `daemon/state.rs`, `handlers/pages.rs`, `view/target_follow.rs` | pages by id, the active page, the selected frame | register, remove, switch, close, select a frame, recover a detached page | two trackers and every command |
| **Dispatch, timeline, diff** `daemon/mod.rs`, `daemon/state.rs`, `handlers/batch.rs` | `ActionTimeline` (bounded), `DiffState` | begin, finish, before/after state, diff, batch | every command |
| **Instruction engine** `handlers/instruction.rs`, `handlers/instruction/` | none between requests; a plan, its alternates, the page before and after | parse a sentence, plan it in the page, run the plan's actions, try alternates, judge the effect | page actions (`handlers/interaction.rs`, `navigate.rs`, ...), scripts in the page, narration gate, recovery of the page |
| **Frame capture, privacy** `daemon/view/capture.rs`, `privacy.rs`, `ws.rs`, `handlers/cloud.rs` | frame numbers, capture task, event bus | capture, redact, subscribe, snapshot | lease, viewer sockets |
| **Viewer auth and routes** `view/auth.rs`, `view/http.rs` | token | verify | – |
| **Annotations, refs, settling, mocks, traces, IPC, MCP, formatting** | see `PROJECT.json` | | |

### What is hard, and what makes each part correct

* **Lease.** Clients compose an input against a version they saw some time ago;
  operators move the lease meanwhile; an input that needs approval is stored and
  replayed later by somebody else's click, perhaps after a deadline. Correct: an
  input is admitted only under the control state its author saw; a pause admits
  no agent input and a step at most one; an approval releases the input the banner
  shows, once.
* **Narration gate.** A condition variable made of a mutex and a `Notify`, with
  two states (`Step`, `Aborted`) that one waiter must consume. Correct: one
  decision has one effect; an action that may go on does.
* **Control commands.** Two gates, two locks, three kinds of clients. Correct:
  a completed pause holds the agent at both gates.
* **Recorder.** One claim slot for all connections, a tagger that other tasks read
  without the store's lock, pauses and stops in the middle of actions. Correct:
  `events.jsonl` is ordered and bracketed, no number disappears, network traffic
  is attributed to the right line, a stopped bundle is final.
* **Lifecycle.** Several processes and crashes at any point; the evidence is files
  removed by path. Correct: a session has one daemon; what is cleaned up is dead;
  stop ends what it found; a request is sent again only if its daemon was lost.
* **Page registry.** Check, several awaits, register, while tabs come and go; the
  selected frame is behind another lock. Correct: a tab is listed once and not
  forgotten; the active page exists; a frame selection does not outlive its page.
* **Dispatch.** Bounded history with in-place update, one slot for the diff,
  evidence captured around a handler while other commands run. Correct: a result
  reaches its own entry; evidence brackets the command it belongs to.
* **Instruction engine.** Some seventy planners and forty scripts, each with its own
  error returns; an alternate runs after a failure, on the page the failure left;
  the verdict recognises results by the names of their fields. Correct: an
  alternate does not repeat what was done; "done" means acted; what an action
  reports is seen. Two scripts search a page they do not control, with fixed
  waits: correct, they find what was asked for.
* **Capture.** Decide on privacy, await, take the picture; snapshot, then
  subscribe.

`PROJECT.json` lists these hazards one by one at the line where they bite.

## 2. The modules

### SharedControl — `daemon/view/control.rs`, `view/input.rs`

The store is one mutex, so each of its operations is one action: `Takeover`,
`Release`, `Pause`, `StepOnce`, `Annotate`, `Abort`, `SensitiveOn`,
`SensitiveOff`, `Deny`, `ApproveExpired`. An input is a job carried by a
connection, and its life is several steps because the lock is not held across
them: `Send` (the client reads the published state and composes), then `Reject`,
`Admit` or `AskApproval` (one pass through `authorize_page_effect`), then
`Dispatch`, which looks at no state any more. `ViewerApprove` is the viewer's
approve command: approval, replay of the stored input and its own authorization
happen under one lock. `DeadlinePasses` is the clock. `FrameCaptured` is the only
thing capture does to the lease.

What the risk gate thinks of a command is data: `Verdicts[c]` is the set of
verdicts `evaluate_risk` may give it. In the TLC instance typing is harmless and a
click may or may not be risky, depending on what is under it.

History variables (`held`, `agentSince`, `gateMoved`, `approvalBalance`,
`conn[c].seen`) only serve the properties; no guard reads them.

### ActionGate, NarrationGate — `daemon/narration/control.rs`, `mod.rs`

`ActionGate` is the contract of `wait_go`: an action asks, passes when the gate is
`Running` or `Step` (consuming the step), is turned away when it is `Aborted`
(consuming the abort), and otherwise waits.

`NarrationGate` is the code: `Store` writes the state under the mutex,
`NotifyWaiters` is the second half of `set`; `wait_go` reads the state
(`Pass`, `TurnAway`, `FindPaused`), releases the mutex and only then registers
with the `Notify` (`Register`). `ImplementsActionGate` is the refinement, with the
implementation's four waiting states mapped to `asking`.

### ControlGates — composition

It extends `NarrationGate`, whose operators are the CLI, viewer and HTTP ones, and
instantiates `SharedControl` over variables of its own; its specification is
`ControlSpec`. A CLI command is `CliBegin`
(narration gate) and `CliFinish` (lease), in that order; a viewer's control command
is one lease operation (`ViewerControl`); `POST /control` is one narration
operation (`PostControl`); takeover and sensitive mode touch only the lease
(`LeaseOnly`). `effects` counts what the agent got through either gate since
the last completed decision, and `whole` says that this decision went to both gates
and met no other command on its way. Approvals and annotating mode are left to
`SharedControl`: here the one command is harmless, so no banner is raised.

### Recording — `daemon/view/recording.rs`, `logs.rs`, callers

The recorder's store is a tokio mutex. `start`, `pause`, `resume`, `discard`,
`prepare_for_next_recorded_event` and `clear_pending_recorded_event` are one action
each. `record_event` keeps the mutex but moves the tagger twice around the moment
it takes the network slice, and listeners read the tagger and push entries
without that mutex, so it is three actions, `Arm`, `TakeSlice`, `Write`, with the
lock as the variable `writer`. A listener is two actions, `ReadTag` and `Push`,
because the code builds the entry between them; a line may be written in
between, and then the entry has a number whose slice is final. What holds is that
only such entries are left over (`OrphansWereTaggedEarlier`). `file` is `events.jsonl` of the
latest recording; a line is its number, its kind, its writer and its slice.
`claim` and `lost` are history: what a task claimed, and which claims were given
up.

### Lifecycle — `lifecycle/mod.rs`, `lifecycle/unix.rs`, `daemon/mod.rs`, `common/`

Processes that share nothing but files: `pidFile`, `socket`, `manifest`, and the
advisory `lock`, which alone goes away with its holder. A client walks through
`send_request` and `start_daemon`: `Request`, `TryLock`, a look under the lock
(`FindAlive`, `FindDead`), recovery of a session that was not stopped (`FindStale`,
`KillBrowsers`, `Heal`), `Clean`, `Spawn`, the wait (`ChildReady`, `GiveUpOnChild`),
then `Connect`, `Reply` or `NoAnswer`, and one `Retry`, which recovers and cleans
without the lock before it starts over. `stop_daemon` is `StopBegin` to
`StopFinish`. A daemon goes through `CheckTransport`, `WritePid`, `Launch`, `Bind`
and serves; `SyncManifest` is the task that writes the manifest after its awaits;
`IdleShutdown`, `Close` and `Exit` are its end. `ClientCrash` and `DaemonCrash` may
strike at any place, and a timeout may pass at any time.

What the code reads and decides upon is what the guards say, and nothing else: that
PIDs exist in the file, that a socket file exists, what health the manifest states.
`orphaned` is history: the live daemons that files no longer vouch for, and
children that were left before they wrote their PID. The code cannot know this
set; the properties say what enters it and what holds outside it. `ran` and
`before` record which daemons executed a client's request and which had a PID when
its stop began.

Abstractions: a daemon is its PID and PIDs are not reused; socket and PID file go
in one step; PID file and first manifest are written in one step; files are not
read half-written; a process that ended is gone (in the long-lived MCP server a
crashed daemon stays a zombie, see the hazards); SIGKILL kills; a restart for a
version mismatch is a stop followed by a request.

### PageRegistry — `daemon/state.rs`, `handlers/pages.rs`, `view/target_follow.rs`

`entries`, `active`, `nextId` are the registry, behind one mutex, and its methods are
the operators `Register`, `SetActive`, `Remove`, `ReplacePageHandle`. Everybody who
writes it is a task with a step per await: the core tracker (`AskPages`, `Discover` and
`RegisterFound` at start-up, where the browser may not answer and a tab's url may be
empty or unreadable, so that the tab is passed over for good, `PassOver`; then `CoreLookup`, `CoreRegister`, `CoreClearFrame` for
every `targetCreated`), its second task (`TargetDestroyed`, `DestroyedClearFrame`),
the viewer's follower (`FollowLookup`, `FollowRegister`, `FollowSwitchesViewer`), and
the commands: `SwitchPage`/`ClearFrame`, `ClosePage`/`CloseTarget`, `SelectFrame`, `View`,
and the recovery of a detached page (`Refresh`, `SelectBrowserPage`, `ApplyRefresh`).
`frame` is the page the selected frame was selected in, because the stored name says
nothing about it. `OpenTab` and `CloseTab` are Chrome; events wait in queues.

What the module shows beside its properties: a tab whose destroy event is handled
before its attachment ends is listed although it is gone, and stays; the
destruction of the last listed page is ignored; `close_page` answers `closed: true`
and leaves the tab open and unlisted while somebody else holds the handle; a
recovery may list a tab twice, or turn the active entry into another tab. Only the
follower moves the viewer, so a command that switches pages, or a new tab the core
tracker registers first, leaves it where it was, although
`gsd-browser-skill/workflows/live-viewer-and-narration.md:30` says it follows the
active page "when navigation or tab changes occur".

### Dispatch — `daemon/mod.rs`, `daemon/state.rs`, `handlers/assert_cmd.rs`, `batch.rs`

A connection's command is a walk through `dispatch`: `Accept` (with the page that
is active then), `BeginAction`, `CaptureEvidence`, `CaptureDiffBefore`, `StoreBefore`,
`Claim`, a handler, `FinishAction`, `CaptureDiffAfter`, `StoreAfter` or
`CaptureLastEvidence`, `Record`. Handlers are classes of methods (`RunAct`,
`RunBatchStep`, `RunDiff`/`DiffRead`/`DiffUpdate`, `RunOther`). `entries` is the
timeline; `log` is the abstract one, without a bound, as history. `DiffRead` shows that
the value of `sinceActionId` is not used, and that diff reads and moves the slot in
two critical sections.

### InstructionPlans, InstructionScripts, Instruction — `handlers/instruction/`

`InstructionPlans` says what the planners may answer. A plan is a sequence of
steps, a step the set of actions the planner may choose for it; the planners'
scoring is left out, their structure (which actions, in which order, one or a
sequence, for which kinds of sentence, with which rank) is not. `Capability` is the
registry of `capabilityRegistry`; `EffectivePlanRank` and `PlanStepCount` decide, as in
`chooseCapabilityPlan`, which may come first and which may be an alternate. The other
half of the module is `verification.rs`: which result field each action answers
with (`Emits`), which of them are found in a plan of its own, in a sequence, or in
neither (`SignalsOf`), and what a capability promises (`EffectSignalKinds`).

`InstructionScripts` gives each action its control flow as a small graph. A node
*looks* at the page, *touches* it on the way (opens a menu, scrolls, turns a page),
*acts* on the target, *waits*, or *asks* the narration gate, and has its successors,
`ok` and `fail` among them; the error returns of the code are edges to `fail`. A form
may count a field as filled that it preserved or could not write (`FormMatched`).
`InPage` are the nodes that run as a script in the page, under `PLAN_TIMEOUT`;
`StillChanges` those where such a script still has changes before it.

`Instruction` is `handle_act_instruction`: `Analyze`, `CaptureBefore` (three attempts
on a refreshed page), `MakePlan`, `Decide` (too long, not confident, dry run), then
`StartStep`, `RunNode`, `PassGate`, `StepOk`, `StepFails`, `ScriptTimesOut`,
`ContextLost`, then `TryAlternate` or `GiveUp`, and `CaptureAfter` with the verdict.
`touched` and `acted` say what the step in hand did to the page, `earlier` what the
steps before it did: an attempt is all its steps, also when it is itself an
alternate.

### PageSearch — `workflow_runtime.rs`, `action_runtime.rs`

The data of the two scripts that `Instruction` has as control only:
`chooseOrdinalResult`, with the loop that calls it (`ClickResult`, `TurnPage`,
`BreakOff`, `CallAgain`), over every small list of pages of results, labelled or not;
and `feedback_loop_value` (`Submit`, `ReadFeedback`, `GiveUp`) over every range, secret
and way a page may word its answer, words of success in a refusal among them: an
answer is a set of verdicts, read in the order of `classifyFeedback`. `Arrive` is the
page: what was asked for is shown before or after the script's next look. Where no
results are shown the script takes other links for them, and clicks a Next if there
is one (`site.other`); the last page may have a Next that leads nowhere
(`site.endless`).

## 3. The runs

All bounds are constants of the configurations. Safety instances are small in
numbers and not in behaviour: each is large enough for the races the module is
about to happen at least once with a bystander.

| Run | Instance | Shows |
|---|---|---|
| `SharedControl` | 2 connections, 2 commands (one of uncertain verdict), 4 versions, 2 frames | `TypeOK`, `ModeAgreesWithOwner`, `BannerMatchesInput`, `ApprovalSpentOnce`, `HeldAgentBudget`, `AdmittedAsSeen` |
| `NarrationGate` | 3 actions, 2 operators, complete state space (no bound needed) | `TypeOK`, `OneDecisionOneAction`, the refinement `ImplementsActionGate`, and `RepeatedResumeFrees` |
| `ControlGates` | 2 CLI operators, a viewer, a `POST /control` client, 1 action, 1 connection, 3 versions | `PauseHoldsTheAgent`, `StepAdmitsOnePerGate` |
| `Recording` | 2 command tasks, 1 viewer, 1 listener, buffer of 1, 4 numbers, 2 recordings, 1 network event | `SeqsIncrease`, `OrphansWereTaggedEarlier`, `BracketedByStartAndStop`, `EveryNumberAccounted`, `StoppedBundleIsFrozen` |
| `Lifecycle` | 2 clients, 2 daemons, a named session, crashes anywhere, complete state space | `SoleDaemon`, `OrphanedOnlyBy`, `StopEndsTheDaemon`, `RetriedOnlyAfterLoss` |
| `PageRegistry` | 1 connection, 3 tabs (one there before the daemon, two with one url), a viewer, 1 recovery; otherwise complete | `ActiveListed`, `OneEntryPerTab`, `NoStaleFrame`, `OpenTabsGetListed` |
| `Dispatch` | 2 connections, 2 pages, 3 recorded commands, a timeline of 2, batches of 2, 1 page change | `TimelineIsWindow`, `RunningHasItsTask`, `EvidenceBrackets`, `LoneCommandLeavesAPair` |
| `Instruction` | all 25 kinds, all capabilities, plans of up to 3 steps, 7 capabilities as alternates, 1 timeout, 1 abort | `RetriesOnCleanPage`, `DoneMeansActed`, `EffectIsSeen` |
| `PageSearch` | up to 3 pages of 2 results with 2 texts, up to one other link in their place, 3 pages looked at, 3 calls; ranges within −2..6, 3 attempts | `OrdinalIsExact`, `FeedbackFindsValue` |

Why the bounds suffice: a version bound of 4 allows three operator decisions after
the initial state, enough for one command to raise a banner, one to overtake it
and one to answer; two connections are enough for one input to be stored while
another is on its way. With four numbers a recording has its start event, two
claims that overlap and a stop event, and the second recording meets leftovers
of the first. Two clients and two daemons let a start meet a stop, a retry or
another start, and a successor meet a predecessor that has not gone yet; a daemon
that died is used up, so their number bounds the starts. The invariants proved in
section 5 do not depend on any of these values. Frames beyond `MaxFrame`, versions
beyond `MaxVersion` and claims beyond
`MaxSeq` are cut off in the guards.

Three tabs and the trackers, the follower and one connection meet in every order:
two writers race for one tab while a third goes away; a second connection would
only repeat the first, whose every step interleaves with four tasks already. In
`Dispatch` the third command is the one that evicts an entry whose command still
runs, and a lone command can follow two that overlapped; one change is enough for a
state taken too early or too late to differ from the right one. `Instruction`: any
capability may be planned, and the seven alternates stand for the four ways an
alternate's script begins (at once, after a gate, after touching, as a sequence);
`MaxTimeouts` and `MaxAborts` of 1 because each ends an attempt and nothing counts
them. `PageSearch`: as many pages as the script looks at, so that a count goes on over
two of them and the loop ends with the third, one call more than is
needed to start over twice, ranges that `MaxAttempts` can and cannot search, with
negative numbers, where rounding down and truncating differ. The code looks at 12
pages and tries 16 numbers; nothing depends on these values but where the loops end.

`OrdinalIsExact` and `FeedbackFindsValue` name the pages that defeat the scripts, and
TLC finds a counterexample when any one of these exceptions is taken away (for the last
one of a list, with two pages looked at). Of a list:
a page of results that the script acts on before it has come (late first results do no
harm as long as nothing is shown that can be clicked, no link that is taken for the
result and no Next, and another call follows); labels that start anew on each page; a
Next that never ends; two pages that read the same, after which the script
starts counting on the page it has reached; a result beyond the pages it looks
at. Of a secret number: an answer that comes after it was read; a refusal or a standing
text with words of success, which are looked for first, so that the number of a "not
quite right" is reported; other words in them that read like a verdict; an acceptance in
words that are not known; old messages that stay; and a page that says "wrong" without a
direction, which the script takes for "too high".

`Lifecycle` uses a view that leaves out which browsers run and which profile is
known: no guard reads either, they only decide which browsers are killed, and no
property of that run speaks of browsers. (The proof uses no view.) It also identifies states that differ by a permutation of
clients or of daemons, which none of its properties names.

`PageRegistry` uses a view too. It leaves out which tab the viewer shows (the guards
ask only whether it shows one), the fields of a command that is only starting,
whether a tab that is closed by now had been taken off the list before (a closed tab
does not come back, so nothing later depends on it), and, while the active page is a
listed one, the ids of the entries but for their order: new ids only grow. No property
names any of these.

`ControlGates` is checked without deadlock detection: operators stop issuing
commands at the version bound, and an action that waits at a paused gate then has
nobody left to free it, which is not a fault of the program.

### Fairness

Only `NarrationGate` has liveness. `FairSpec` is weak fairness of `wait_go`'s
steps and of an action's end, because the runtime polls every task that is ready,
and of `NotifyWaiters`, because an operator's task that has stored the state goes on
to notify. Operators owe nothing: no command is fair.

### Statements the code does not satisfy

Each of these runs checks one sentence of the repository and TLC finds it
violated; `PROJECT.json` "findings" quotes the sentence.

| Run | What happens |
|---|---|
| `LostWakeup` | `set` stores and notifies between `wait_go`'s look at the state and its `notified()`: the action sleeps although the gate is open (`narration/control.rs:57-58`). A later resume frees it (`RepeatedResumeFrees`), time alone does not. |
| `StolenClaim` | Two commands in flight: the second claim replaces the first, the first event is written under the second's number. |
| `PollutedSlice` | Numbers restart at 1, the network buffer keeps the previous recording's entries: they land in new slices. |

The positive properties are stated around these: `HeldAgentBudget` holds until the
risk gate moves the mode, `PauseHoldsTheAgent` for CLI pauses that meet no other
command, `EveryNumberAccounted` names the two ways a claim is given up, and
`SoleDaemon` holds of daemons nobody orphaned, while `OrphanedOnlyBy` lists what
orphans one.

More disagreements are visible in the modules and have no run of their own:

* "step grants exactly one agent action" (spec:37): a risky agent input uses up the
  step and raises a banner; the mode is then not one that `authorize` tests, the
  agent still owns the page, and its next inputs are admitted (`control.rs:131`).
* "Timeout defaults to deny" (spec:311): approving after the deadline sets
  user-takeover and leaves the agent as owner (`control.rs:223`).
* The viewer's pause "blocks before the next narrated action"
  (`live-viewer-and-narration.md:49`): it closes the lease only (`input.rs:222`).
* "nothing live would be clobbered" (`lifecycle/mod.rs:93`): a starter gives up on a
  slow child and removes its PID file (274-277); the child comes up and serves; the
  next start reads no PID, takes the daemon for dead and kills its browser.
* Closing the window "eliminates orphans that would otherwise be stamped with a seq
  whose slice was already finalized" (`view/recording.rs:283-286`): a listener that read
  the tag before the window was closed and pushes its entry afterwards
  (`logs.rs:211-233`) leaves one; `OrphansWereTaggedEarlier` says that nobody else does.
* An abort turns away the action that asks; to the instruction engine that is a
  failure like any other, and an alternate whose script asks no gate goes on.

And two smaller ones: a step in sensitive mode makes the agent the owner and leaves the flag
(`control.rs:173-179`), so that nobody can drive the page; and a recording that is
stopped while paused has no stop event (`recording.rs:255-261`), although the
workbench design says start and stop events are inside the artifact (spec:565).

## 4. Mutants

Beside a definition that models code stands, where a property needs it, a variant of
it with a plausible bug, named for the bug (`ReleaseStillSensitive`,
`WriteKeepsWindow`, `NotifyNobody`, ...) and marked as a mutant. `PROJECT.json`
pairs every property of every passing run with the variant that breaks it.

## 5. What is proved

For every number of connections, commands, actions, operators, tasks and listeners
and every value of the bounds:

* **SharedControl_proofs**: `TypeCorrect`, `ModeSafety`, `BannerSafety`,
  `ApprovalSafety`, `HeldSafety`, `AdmissionSafety`. None of the safety
  properties is inductive alone. `HeldAgentBudget` needs to know that an input
  which could still be admitted carries the current version, that the mode decides
  what such an input may do, and that a step still unspent means no agent input
  was admitted since; `AdmittedAsSeen` needs that an input carrying the current
  version was composed against the current control state. `IInv` collects these
  and `Invariance` proves it.
* **Recording_proofs**: `TypeCorrect`, `OrderSafety`, `WindowSafety`,
  `BracketSafety`, `AccountSafety`, `FrozenSafety`. `SeqsIncrease` holds because the
  claim, the number `record_event` has taken and the next free number are all above
  the lines of the file (`NumbersOrdered`); `OrphansWereTaggedEarlier` because the tagger
  belongs to the claim or to the line being written (`WindowBelongs`), so that nothing
  is tagged with the number of a line after it; the brackets
  because lines are written only while recording and the start event first
  (`WriterRecords`); and accounting because a paused recording has no claim
  (`PausedUnclaimed`).
* **ControlGates_proofs**: first the narration gate by itself: `GateTypeCorrect`,
  `GateDecisionSafety`, and `GateRefinement`: initial states map to initial states,
  every step maps to a step of `ActionGate` or to a stutter. The mapping is a function
  over the actions, so each step of one action is shown to change one value of the
  mapped function. Then the composition: `LeaseRefined` and `GateRefined`,
  `PauseSafety`, `StepSafety`. Every step of it is a step of each
  gate or leaves it alone, so the gates' own theorems hold of it as they stand. From
  them and the invariant that relates a decision still standing to the two gates
  (what the last command stored at each, and what each has let through since) follow
  the two promises of a completed command.
* **PageRegistry_proofs**: `TypeCorrect`, `ActiveSafety`, `EntrySafety`, `FrameSafety`,
  `OpenTabsSafety`. First what each method of the registry does to any list that
  satisfies `RegistryOK` (`RegisterKeeps`, `SetActiveKeeps`, `RemoveKeeps`,
  `ReplaceKeeps`), then, once for all steps, what may come of the registry
  (`Outcome`): which tabs are listed after it, which twice, and whether the active
  page moved. The invariants are read off that. `OneEntryPerTab` and
  `OpenTabsGetListed` also need what a task keeps between two awaits (`Holding`): who
  is under way with a tab has one, the core tracker one that was opened, and the tab
  it has just made active stays listed until `close_page` or a recovery takes it off;
  that an event's tab was opened (`Announced`); and that a closed tab does not come
  back (`Gone`).
* **Dispatch_proofs**: `TypeCorrect`, `WindowSafety`, `RunningSafety`, `EvidenceSafety`,
  `LoneSafety`. An entry is found by its number because numbers and positions in the
  full history agree (`Numbered`) and no two commands in flight have the same one
  (`Apart`); updating an entry that has left the window changes the history only.
  Each command carries its own share (`Fits`): which fields are filled at which
  point, and that its states were captured before and after its handler; page
  versions only grow. A command that is alone keeps both slots of `DiffState`.
* **Instruction_proofs**: `TypeCorrect`, `RetriesSafety`, `DoneSafety`, `EffectSafety`,
  for plans of any length, any alternates, timeouts and aborts. Scripts and plans are
  data, and the proof says of them once what it needs. Of a script: which labels it
  enters only by acting (`Done`), and which it does not leave any more once it acted, or
  once it changed anything where it fails clean (`Firm`); `ScriptsFit` shows this
  of all forty-seven. Of a plan: that what its steps report is looked for as an
  effect of its capability, or that it is a blind spot (`Good`); `CapabilityPlans` and
  `PlainPlans` show this of every plan of every capability. The invariant then names no
  script and no capability: where the engine is (`Placed`), what may have happened to
  the page by then (`Phases`), which plan it runs (`PlanFits`), and that the steps behind
  it have given the signals they promise (`Speaks`). That an alternate finds what
  the whole attempt before it left is a property of the step to it: such an attempt
  failed in its first step, or it was an alternate itself.
* **PageSearch_proofs**: `FeedbackSafety` and `OrdinalSafety`. While answers come in time
  and in plain words, what is left of the range holds the secret and no number already tried, so every guess
  is its middle, and it is narrower than 2 to the power of the attempts left
  (`RangeBeforeGuess`, `RangeAfterGuess`); therefore the search neither runs out of
  attempts nor out of numbers before it has found the secret. The search by ordinal has
  counted exactly the pages before the one it stands on, and the result is not on them
  (`Counting`), or it has come to the end of a list that is too short (`Beyond`); a call
  that is repeated starts in one of the two. That the count is the rank of a result is
  shown without induction: the results of the first pages are a finite set, to which each
  page adds as many as it is long (`TotalStep`, `RankOf`, `RankOrders`).
* **Lifecycle_proofs**: `TypeCorrect`, `OneDaemon`, `StopEnds`, `RetryAfterLoss`,
  `OnlyTheseOrphan`. That a session has one daemon rests on what each place of the
  protocol knows: a daemon that counts is in the PID file (`Vouched`) or is the
  child of a client that waits for it (`Awaited`); that client holds the lock
  (`LockDiscipline`), and between its look under the lock and the end of its wait
  no other daemon counts (`NobodyElse`). Stop and retry are proved from histories:
  a daemon that had a PID when stop began is the one stop waits for, or lost
  (`StopProgress`); a daemon a request went to is the one still asked, or lost
  (`RetryProgress`).

The inductive invariants of `Dispatch`, `PageRegistry`, `PageSearch` and `Instruction`
were checked with TLC on the instances of their runs before they were proved.

Assumptions, all named in the component modules and all about constants: verdicts
are sets of Booleans, bounds are naturals, a log buffer holds at least one entry,
sentinels are not members of the sets they stand beside, task names differ from the
recorder's own event kinds, the narration gate's operators are the CLI, the viewers and
the HTTP routes. `PowersOfTwo` of `PageSearch` is a fact of arithmetic, not a
restriction: the provers know `^` only for given numbers.

Only model-checked: `RepeatedResumeFrees`, because it is a liveness property, and the
violated statements. Every other property of a run is also a theorem.

## 6. What is not modelled yet, and the plan

Left out of the existing modules: reasons and wording, requesters, screenshots,
redaction, risk rules (a verdict per command), I/O errors of the recorder, frames
and export of bundles; the Windows side of the lifecycle and attached browsers.
`expire_approval` is dead code.

The order of the plan is the order in which a failure would hurt.

1. *Done, with proofs*: SharedControl, NarrationGate with its contract, ControlGates, Recording.
2. *Done, with proofs*: **Lifecycle**. Left for it: daemons that stay zombies of the
   MCP server that spawned them, the health command's manifest writes, and the
   abstract specification of one owner per session.
3. *Done, with proofs*: **PageRegistry**, **Dispatch**.
4. *Done, with proofs*: **Instruction**, **PageSearch**.
5. **Capture**: privacy decision, picture and publication as separate steps; capture
   tasks aborted at their awaits; sockets that take a snapshot before they
   subscribe.
6. **Network mocks, settling, refs** as small modules of their own.
7. The abstract specification of one owner per session, and that `Lifecycle` implements it
   as far as nobody is orphaned.

Left out of the new modules. Instruction: how a sentence is parsed into a kind and
hints, how elements are scored, and confidence (each a choice of what may come out);
the keyword rules by which the verdict looks at text. The scripts' own blind spots
are in the model and named by its properties: `EffectIsSeen` excepts a formatted text,
a date, path or turned object that is a step of a sequence, and fields that are
all sliders and files (`BlindSpot`), because no rule looks for their results;
`DoneMeansActed` excepts `discover_click` and `orient_visual`, which answer ok without
having reached their target, and `form_workflow`, which counts a preserved or refused
field as filled (`MayMiss`), and takes for granted what Chrome says it did,
so that `set_checked` counts when the control refused. `RetriesOnCleanPage` names the
scripts for which an alternate starts clean; the others, every timeout and
navigation, and an alternate that is a sequence and fails behind its first step, leave
the next alternate a page that has changed. Dispatch: a capture
that fails stores an empty state. PageRegistry: titles, urls kept fresh by
`targetInfoChanged`, tabs that are not pages, a tracker whose subscription failed and
that never starts. PageSearch: what the other links of a page lead to.

Not planned: HTTP parsing, token verification (a pure check), annotations (a map
behind one mutex), IPC framing, MCP translation and output formatting.
