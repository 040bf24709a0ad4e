------------------------------- MODULE Dispatch -------------------------------
(***************************************************************************)
(* What dispatch (cli/src/daemon/mod.rs) does around every command it      *)
(* records: an entry of the action timeline, the before and after states   *)
(* of DiffState, the evidence of the recorder's event.  Connections run    *)
(* side by side, each on the page that was active when its request came,   *)
(* and every capture is an await.                                          *)
(*                                                                         *)
(* Abstractions.                                                           *)
(*  - A compact page state is the page and how often it has changed; that  *)
(*    of a capture which failed, which is empty, is left out.              *)
(*  - The methods fall into classes: "act" has its states stored in        *)
(*    DiffState, "plain" (snapshot, assert, wait_for, but also scroll,     *)
(*    drag, select_option, set_checked) has not, "diff" and "batch" are    *)
(*    handlers of their own, "other" is not recorded.                      *)
(*  - Claim and writing of the recorder's event are module Recording; here *)
(*    is what the event is made from.                                      *)
(***************************************************************************)
EXTENDS Integers, Sequences, FiniteSets, FiniteSetsExt

CONSTANTS
  Tasks,       \* connections
  Pages,
  None,
  MaxTimeline, \* MAX_TIMELINE_ENTRIES
  BatchSteps,  \* steps of a batch
  MaxActions,  \* bound: commands recorded
  MaxChanges   \* bound: changes of all pages together

ASSUME BoundsAssumption ==
  {MaxTimeline, BatchSteps, MaxActions, MaxChanges} \subseteq Nat \ {0}
ASSUME PagesAssumption == Pages # {} /\ None \notin Pages

VARIABLES
  page,     \* changes of each page so far
  active,   \* the active page
  entries, nextId,  \* ActionTimeline
  diff,     \* DiffState
  task,     \* the command of each connection
  log       \* history: the timeline without a bound

timeline == <<entries, nextId>>
vars     == <<page, active, timeline, diff, task, log>>

Recorded == {"act", "plain", "diff", "batch"}
Methods  == Recorded \cup {"other"}

\* A captured state, and the id of the command it was captured for.
States == [page : Pages, v : Nat, by : Nat]
NoState == [page |-> None, v |-> 0, by |-> 0]
Capture(t) == [page |-> task[t].page, v |-> page[task[t].page],
               by |-> task[t].id]

Idle == [pc |-> "idle", method |-> "other", page |-> None, id |-> 0,
         status |-> "ok", before |-> NoState, after |-> NoState,
         prev |-> NoState, from |-> 0, to |-> 0, steps |-> 0, alone |-> FALSE]

\* The command's own steps, in the order dispatch takes them.
Points == {"idle", "begin", "evidence", "diffBefore", "storeBefore", "claim",
           "run", "compare", "update", "finish", "diffAfter", "storeAfter",
           "lastEvidence", "record"}

\* An entry of the timeline.
Entries == [id : Nat \ {0}, status : {"running", "ok", "error"}]

Commands == [pc : Points, method : Methods, page : Pages \cup {None},
             id : Nat, status : {"ok", "error"},
             before : States \cup {NoState}, after : States \cup {NoState},
             prev : States \cup {NoState}, from : Nat, to : Nat,
             steps : 0 .. BatchSteps - 1, alone : BOOLEAN]

TypeOK ==
  /\ page \in [Pages -> Nat]
  /\ active \in Pages
  /\ Len(entries) <= MaxTimeline
  /\ entries \in Seq(Entries)
  /\ nextId \in Nat \ {0}
  /\ diff \in [before : States \cup {NoState}, after : States \cup {NoState}]
  /\ task \in [Tasks -> Commands]

-----------------------------------------------------------------------------
(* ActionTimeline.                                                         *)

\* Mutant of PushBack: one entry too many is kept.
PushBackTooMany(e) ==
  IF Len(entries) > MaxTimeline THEN Append(Tail(entries), e)
  ELSE Append(entries, e)

PushBack(e) ==
  IF Len(entries) >= MaxTimeline THEN Append(Tail(entries), e)
  ELSE Append(entries, e)

\* The entry with the id, if it is still there, gets its outcome.
Settle(seq, id, status) ==
  [i \in DOMAIN seq |->
     IF seq[i].id = id THEN [seq[i] EXCEPT !.status = status] ELSE seq[i]]

\* Mutant of Outcome: the newest entry is the one that finishes.
OutcomeOfNewest(t) ==
  /\ entries' = [entries EXCEPT ![Len(entries)].status = task[t].status]
  /\ log' = Settle(log, task[t].id, task[t].status)

Outcome(t) ==
  /\ entries' = Settle(entries, task[t].id, task[t].status)
  /\ log' = Settle(log, task[t].id, task[t].status)

-----------------------------------------------------------------------------
Init ==
  /\ page = [p \in Pages |-> 0]
  /\ active \in Pages
  /\ entries = << >> /\ nextId = 1
  /\ diff = [before |-> NoState, after |-> NoState]
  /\ task = [t \in Tasks |-> Idle]
  /\ log = << >>

At(t, pc) == task[t].pc = pc
Goto(t, pc) == task' = [task EXCEPT ![t].pc = pc]

MayChange == MapThenSumSet(LAMBDA p : page[p], Pages) < MaxChanges

\* The page changes by itself.
PageChanges(p) ==
  /\ MayChange
  /\ page' = [page EXCEPT ![p] = @ + 1]
  /\ UNCHANGED <<active, timeline, diff, task, log>>

\* A request comes in and is given the page that is active now.
Accept(t, m) ==
  /\ At(t, "idle")
  /\ m \in Recorded =>
       nextId + Cardinality({u \in Tasks : At(u, "begin")}) <= MaxActions
  /\ task' = [u \in Tasks |->
       IF u = t
       THEN [Idle EXCEPT !.pc = IF m \in Recorded THEN "begin" ELSE "run",
                         !.method = m, !.page = active,
                         !.alone = \A w \in Tasks \ {t} : At(w, "idle")]
       ELSE [task[u] EXCEPT !.alone = FALSE]]
  /\ UNCHANGED <<page, active, timeline, diff, log>>

\* Commands that are not recorded include those that switch pages.
RunOther(t) ==
  /\ At(t, "run") /\ task[t].method = "other"
  /\ active' \in Pages
  /\ task' = [task EXCEPT ![t] = Idle]
  /\ UNCHANGED <<page, timeline, diff, log>>

BeginAction(t) ==
  LET e == [id |-> nextId, status |-> "running"] IN
  /\ At(t, "begin")
  /\ entries' = PushBack(e)
  /\ log' = Append(log, e)
  /\ nextId' = nextId + 1
  /\ task' = [task EXCEPT ![t].pc = "evidence", ![t].id = nextId]
  /\ UNCHANGED <<page, active, diff>>

\* recording_before, captured for this command alone.
CaptureEvidence(t) ==
  /\ At(t, "evidence")
  /\ task' = [task EXCEPT ![t].before = Capture(t),
       ![t].pc = IF task[t].method = "act" THEN "diffBefore" ELSE "claim"]
  /\ UNCHANGED <<page, active, timeline, diff, log>>

CaptureDiffBefore(t) ==
  /\ At(t, "diffBefore")
  /\ task' = [task EXCEPT ![t].prev = Capture(t), ![t].pc = "storeBefore"]
  /\ UNCHANGED <<page, active, timeline, diff, log>>

\* Mutant of StoreBefore: only a first command stores its before-state.
StoreBeforeOnce(t) ==
  /\ At(t, "storeBefore")
  /\ diff' = IF diff.before = NoState
             THEN [diff EXCEPT !.before = task[t].prev] ELSE diff
  /\ task' = [task EXCEPT ![t].pc = "claim", ![t].prev = NoState]
  /\ UNCHANGED <<page, active, timeline, log>>

StoreBefore(t) ==
  /\ At(t, "storeBefore")
  /\ diff' = [diff EXCEPT !.before = task[t].prev]
  /\ task' = [task EXCEPT ![t].pc = "claim", ![t].prev = NoState]
  /\ UNCHANGED <<page, active, timeline, log>>

\* The recorder's number is claimed and the handler begins.
Claim(t) ==
  /\ At(t, "claim")
  /\ task' = [task EXCEPT ![t].pc = "run", ![t].from = page[task[t].page]]
  /\ UNCHANGED <<page, active, timeline, diff, log>>

-----------------------------------------------------------------------------
(* Handlers (dispatch_inner).                                              *)

\* The handler's locals (what diff compared, the steps of a batch) are gone.
Respond(t, status) ==
  task' = [task EXCEPT ![t].pc = "finish", ![t].status = status,
                       ![t].to = page'[task[t].page],
                       ![t].prev = NoState, ![t].after = NoState,
                       ![t].steps = 0]

\* A command may fail before or after it has changed the page.
RunAct(t, status) ==
  /\ At(t, "run") /\ task[t].method \in {"act", "plain"}
  /\ \/ UNCHANGED page
     \/ /\ MayChange
        /\ page' = [page EXCEPT ![task[t].page] = @ + 1]
  /\ Respond(t, status)
  /\ UNCHANGED <<active, timeline, diff, log>>

\* A batch goes on after a step that passed, and after one that failed if it
\* was not told to stop; it answers without an error either way.
RunBatchStep(t, passes, stop) ==
  LET last == task[t].steps + 1 = BatchSteps \/ (~passes /\ stop) IN
  /\ At(t, "run") /\ task[t].method = "batch"
  /\ \/ UNCHANGED page
     \/ /\ MayChange
        /\ page' = [page EXCEPT ![task[t].page] = @ + 1]
  /\ IF last THEN Respond(t, "ok")
     ELSE task' = [task EXCEPT ![t].steps = @ + 1]
  /\ UNCHANGED <<active, timeline, diff, log>>

\* diff, also as the step of a batch: the page is captured, ...
RunDiff(t) ==
  /\ At(t, "run") /\ task[t].method \in {"diff", "batch"}
  /\ task' = [task EXCEPT ![t].pc = "compare", ![t].after = Capture(t)]
  /\ UNCHANGED <<page, active, timeline, diff, log>>

\* ... the state to compare with is read, by an id or the latest one, ...
DiffRead(t, since) ==
  LET prev == IF since \/ diff.after = NoState THEN diff.before ELSE diff.after
  IN
  /\ At(t, "compare")
  /\ task' = [task EXCEPT ![t].prev = prev, ![t].pc = "update"]
  /\ UNCHANGED <<page, active, timeline, diff, log>>

\* ... and the stored states move on, or begin here if there was none.
DiffUpdate(t) ==
  /\ At(t, "update")
  /\ diff' = [before |-> IF task[t].prev = NoState THEN task[t].after
                         ELSE diff.after,
              after  |-> task[t].after]
  /\ UNCHANGED page
  /\ IF task[t].method = "diff" \/ task[t].steps + 1 = BatchSteps
     THEN Respond(t, "ok")
     ELSE task' = [task EXCEPT ![t].pc = "run", ![t].steps = @ + 1,
                               ![t].prev = NoState, ![t].after = NoState]
  /\ UNCHANGED <<active, timeline, log>>

-----------------------------------------------------------------------------
\* An acting command's states are stored for diff next, the evidence of any
\* other is captured.
Finished(t) ==
  task' = [task EXCEPT ![t].status = "ok",
             ![t].pc = IF task[t].method = "act" THEN "diffAfter"
                       ELSE "lastEvidence"]

\* Mutant of FinishAction: a failed command is not finished.
FinishOnlyOk(t) ==
  /\ At(t, "finish")
  /\ IF task[t].status = "ok" THEN Outcome(t) ELSE UNCHANGED <<entries, log>>
  /\ Finished(t)
  /\ UNCHANGED <<page, active, nextId, diff>>

FinishAction(t) ==
  /\ At(t, "finish")
  /\ Outcome(t)
  /\ Finished(t)
  /\ UNCHANGED <<page, active, nextId, diff>>

CaptureDiffAfter(t) ==
  /\ At(t, "diffAfter")
  /\ task' = [task EXCEPT ![t].after = Capture(t), ![t].pc = "storeAfter"]
  /\ UNCHANGED <<page, active, timeline, diff, log>>

\* The event of an acting command reuses the state stored for diff.
StoreAfter(t) ==
  /\ At(t, "storeAfter")
  /\ diff' = [diff EXCEPT !.after = task[t].after]
  /\ Goto(t, "record")
  /\ UNCHANGED <<page, active, timeline, log>>

\* Mutant of CaptureLastEvidence: what DiffState holds is reused.
CaptureLastFromDiff(t) ==
  /\ At(t, "lastEvidence")
  /\ task' = [task EXCEPT ![t].pc = "record",
       ![t].after = IF diff.after = NoState THEN Capture(t) ELSE diff.after]
  /\ UNCHANGED <<page, active, timeline, diff, log>>

CaptureLastEvidence(t) ==
  /\ At(t, "lastEvidence")
  /\ task' = [task EXCEPT ![t].after = Capture(t), ![t].pc = "record"]
  /\ UNCHANGED <<page, active, timeline, diff, log>>

\* The event is handed to the recorder and the response sent.
Record(t) ==
  /\ At(t, "record")
  /\ task' = [task EXCEPT ![t] = Idle]
  /\ UNCHANGED <<page, active, timeline, diff, log>>

Around(t) ==
  \/ \E m \in Methods : Accept(t, m)
  \/ BeginAction(t) \/ CaptureEvidence(t)
  \/ CaptureDiffBefore(t) \/ StoreBefore(t) \/ Claim(t)
  \/ FinishAction(t) \/ CaptureDiffAfter(t) \/ StoreAfter(t)
  \/ CaptureLastEvidence(t) \/ Record(t)

Handler(t) ==
  \/ RunOther(t)
  \/ \E s \in {"ok", "error"} : RunAct(t, s)
  \/ \E passes, stop \in BOOLEAN : RunBatchStep(t, passes, stop)
  \/ RunDiff(t) \/ DiffUpdate(t)
  \/ \E since \in BOOLEAN : DiffRead(t, since)

Next ==
  \/ \E p \in Pages : PageChanges(p)
  \/ \E t \in Tasks : Around(t) \/ Handler(t)

Spec == Init /\ [][Next]_vars

-----------------------------------------------------------------------------
(* Properties.                                                             *)

\* Commands finish in another order than they began, some after their entry
\* was evicted: the timeline is still the last MaxTimeline actions in the
\* order they began, each with its own outcome, and an outcome whose entry is
\* gone changes no other.
TimelineIsWindow ==
  /\ entries = SubSeq(log, Len(log) - Len(entries) + 1, Len(log))
  /\ Len(entries) = IF Len(log) < MaxTimeline THEN Len(log) ELSE MaxTimeline
  /\ \A i \in DOMAIN log : log[i].id = i

\* No entry is left "running" behind a command that has answered, whichever
\* way it failed, and no entry is finished ahead of its command.
RunningHasItsTask ==
  \A i \in DOMAIN entries :
    entries[i].status = "running"
      <=> \E t \in Tasks :
            /\ task[t].id = entries[i].id
            /\ task[t].pc \notin {"diffAfter", "storeAfter", "lastEvidence",
                                  "record"}

\* "race-free, correctly-paired before/after": whatever other commands do, the
\* two states in a command's event are of the page the command ran on, one
\* from before its handler began and one from after it ended.
EvidenceBrackets ==
  \A t \in Tasks :
    At(t, "record") =>
      /\ task[t].before.page = task[t].page
      /\ task[t].after.page = task[t].page
      /\ task[t].before.by = task[t].id
      /\ task[t].after.by = task[t].id
      /\ task[t].before.v <= task[t].from
      /\ task[t].to <= task[t].after.v

\* A command that acts while no other is in flight leaves its own before and
\* after states in DiffState, also when it failed; only commands that overlap
\* have theirs compared crosswise.
LoneCommandLeavesAPair ==
  \A t \in Tasks :
    At(t, "record") /\ task[t].method = "act" /\ task[t].alone =>
      /\ diff.before.by = task[t].id
      /\ diff.after.by = task[t].id
      /\ diff.before.page = diff.after.page
=============================================================================
