------------------------------- MODULE Recording -------------------------------
(***************************************************************************)
(* The flow recorder: how an action claims the sequence number of its      *)
(* event, how network traffic is attributed to it, and what ends up in     *)
(* events.jsonl while actions, operators and the CDP listeners run         *)
(* concurrently.                                                           *)
(*                                                                         *)
(* Code: RecordingStore (cli/src/daemon/view/recording.rs) behind a tokio  *)
(* mutex; its callers dispatch (cli/src/daemon/mod.rs), the record_*       *)
(* handlers (handlers/narration_cmds.rs) and the viewer's input and        *)
(* recording commands (view/input.rs); LogBuffer and the network listeners *)
(* (cli/src/daemon/logs.rs), which read the tagger and push their entry    *)
(* without that mutex.                                                     *)
(*                                                                         *)
(* Abstractions.                                                           *)
(*  - file is events.jsonl of the latest recording; a line is its seq, its *)
(*    kind, the task that wrote it and its networkSlice.  Page states,     *)
(*    urls, redaction, hashes and frames are left out, and so are write    *)
(*    errors and the directories of earlier recordings.                    *)
(*  - A store operation is one step while no listener can tell; the body   *)
(*    of record_event, which moves the tagger twice around the snapshot,   *)
(*    is the three steps Arm, TakeSlice and Write under the store's mutex  *)
(*    (writer # Free).                                                     *)
(***************************************************************************)
EXTENDS Integers, Sequences

CONSTANTS
  CliTasks,    \* connections running recorded commands
  Viewers,     \* viewer sockets dispatching user input
  Listeners,   \* network listener tasks
  Free,        \* nobody holds the store's mutex; an idle listener
  BufferSize,  \* LogBuffer's MAX_BUFFER_SIZE
  MaxSeq,      \* bound: no claim beyond this sequence number
  MaxRec,      \* bound: recordings started
  MaxTraffic   \* bound: network events

Tasks == CliTasks \cup Viewers

ASSUME BufferAssumption == BufferSize \in Nat \ {0}
ASSUME BoundAssumption == {MaxSeq, MaxRec, MaxTraffic} \subseteq Nat

VARIABLES
  phase,     \* "none", "recording", "paused" or "stopped"
  rec,       \* number of the latest recording
  nextSeq,
  pendingSeq,\* 0 is None
  tagger,    \* current_recording_seq, shared with the listeners
  writer,    \* the record_event in progress, or Free
  task,      \* where each task is
  claim,     \* history: the seq of this recording it holds, 0 if none
  lost,      \* history: claims of this recording replaced or cleared
  file,      \* events.jsonl of recording rec
  network,   \* LogBuffer of network entries
  listener,  \* the entry each listener has tagged but not pushed, or Free
  traffic    \* history: network events seen

store == <<phase, rec, nextSeq, pendingSeq>>
tasks == <<task, claim, lost>>
net   == <<network, listener, traffic>>
vars  == <<store, tagger, writer, tasks, file, net>>

Phases  == {"none", "recording", "paused", "stopped"}
Active  == phase \in {"recording", "paused"}
\* lines is history: how long the file was when the listener read the tag.
Entries == [id : Nat, rec : Nat, seq : Nat, lines : Nat]
Kinds   == {"start", "stop", "skipped"} \cup Tasks
Lines   == [seq : Nat, kind : Kinds, slice : SUBSET Entries]
Writes  == [seq : Nat \ {0}, kind : Kinds \ {"skipped"}, slice : SUBSET Entries,
            sliced : BOOLEAN]

ASSUME FreeAssumption == Free \notin Writes
ASSUME TasksAssumption == Tasks \cap {"start", "stop", "skipped"} = {}

TypeOK ==
  /\ phase \in Phases
  /\ rec \in Nat
  /\ nextSeq \in Nat \ {0}
  /\ pendingSeq \in Nat
  /\ tagger \in Nat
  /\ writer \in Writes \cup {Free}
  /\ task \in [Tasks -> {"idle", "dispatched"}]
  /\ claim \in [Tasks -> Nat]
  /\ lost \in SUBSET Nat
  /\ file \in Seq(Lines)
  /\ network \in Seq(Entries)
  /\ listener \in [Listeners -> Entries \cup {Free}]
  /\ traffic \in Nat

Init ==
  /\ phase = "none"
  /\ rec = 0
  /\ nextSeq = 1
  /\ pendingSeq = 0
  /\ tagger = 0
  /\ writer = Free
  /\ task = [t \in Tasks |-> "idle"]
  /\ claim = [t \in Tasks |-> 0]
  /\ lost = {}
  /\ file = << >>
  /\ network = << >>
  /\ listener = [l \in Listeners |-> Free]
  /\ traffic = 0

Line(s, k, entries) == [seq |-> s, kind |-> k, slice |-> entries]

Dispatched(t, s) ==
  /\ task' = [task EXCEPT ![t] = "dispatched"]
  /\ claim' = [claim EXCEPT ![t] = s]

\* A claim that is still pending when this happens is given up.
Abandoned == lost' = IF pendingSeq = 0 THEN lost ELSE lost \cup {pendingSeq}

Done(t) ==
  /\ task' = [task EXCEPT ![t] = "idle"]
  /\ claim' = [claim EXCEPT ![t] = 0]

-----------------------------------------------------------------------------
(* record_event.                                                           *)

\* It takes the claimed seq, whoever claimed it, or the next one.
TakenSeq == IF pendingSeq # 0 THEN pendingSeq ELSE nextSeq

\* Mutant of Arm: a stopped recording still records.
ArmAnyPhase(k) ==
  /\ writer = Free
  /\ phase # "none"
  /\ pendingSeq = 0 => nextSeq <= MaxSeq
  /\ writer' = [seq |-> TakenSeq, kind |-> k, slice |-> {}, sliced |-> FALSE]
  /\ nextSeq' = IF pendingSeq # 0 THEN nextSeq ELSE nextSeq + 1
  /\ pendingSeq' = 0
  /\ tagger' = TakenSeq
  /\ UNCHANGED <<phase, rec, tasks, file, net>>

Arm(k) ==
  /\ writer = Free
  /\ phase = "recording"
  /\ pendingSeq = 0 => nextSeq <= MaxSeq
  /\ writer' = [seq |-> TakenSeq, kind |-> k, slice |-> {}, sliced |-> FALSE]
  /\ nextSeq' = IF pendingSeq # 0 THEN nextSeq ELSE nextSeq + 1
  /\ pendingSeq' = 0
  /\ tagger' = TakenSeq
  /\ UNCHANGED <<phase, rec, tasks, file, net>>

\* extract_network_slice: every buffered entry with this seq.
Tagged(s) == {network[i] : i \in {j \in 1..Len(network) : network[j].seq = s}}

TakeSlice ==
  /\ writer # Free
  /\ ~writer.sliced
  /\ writer' = [writer EXCEPT !.slice = Tagged(writer.seq), !.sliced = TRUE]
  /\ UNCHANGED <<store, tagger, tasks, file, net>>

\* Mutant of Write: the window stays open after the line.
WriteKeepsWindow ==
  /\ writer # Free
  /\ writer.sliced
  /\ file' = Append(file, Line(writer.seq, writer.kind, writer.slice))
  /\ phase' = IF writer.kind = "stop" THEN "stopped" ELSE phase
  /\ IF writer.kind \in Tasks THEN Done(writer.kind) ELSE UNCHANGED <<task, claim>>
  /\ writer' = Free
  /\ UNCHANGED <<rec, nextSeq, pendingSeq, lost, tagger, net>>

\* Mutant of Write: the stop event does not stop the recording.
WriteKeepsPhase ==
  /\ writer # Free
  /\ writer.sliced
  /\ tagger' = 0
  /\ file' = Append(file, Line(writer.seq, writer.kind, writer.slice))
  /\ IF writer.kind \in Tasks THEN Done(writer.kind) ELSE UNCHANGED <<task, claim>>
  /\ writer' = Free
  /\ UNCHANGED <<phase, rec, nextSeq, pendingSeq, lost, net>>

\* The window closes and the line is appended; stop() follows a stop event
\* under the same lock.
Write ==
  /\ writer # Free
  /\ writer.sliced
  /\ tagger' = 0
  /\ file' = Append(file, Line(writer.seq, writer.kind, writer.slice))
  /\ phase' = IF writer.kind = "stop" THEN "stopped" ELSE phase
  /\ IF writer.kind \in Tasks THEN Done(writer.kind) ELSE UNCHANGED <<task, claim>>
  /\ writer' = Free
  /\ UNCHANGED <<rec, nextSeq, pendingSeq, lost, net>>

-----------------------------------------------------------------------------
(* Operator commands.                                                      *)

\* Mutant of Start: numbering starts at 0.
StartAtZero ==
  /\ writer = Free
  /\ ~Active
  /\ rec < MaxRec
  /\ phase' = "recording"
  /\ rec' = rec + 1
  /\ nextSeq' = 1
  /\ pendingSeq' = 0
  /\ tagger' = 0
  /\ writer' = [seq |-> 0, kind |-> "start", slice |-> {}, sliced |-> FALSE]
  /\ file' = << >>
  /\ claim' = [t \in Tasks |-> 0]
  /\ lost' = {}
  /\ UNCHANGED <<task, net>>

\* start() resets the counters and record_event writes "recording.start";
\* the buffer keeps its entries.
Start ==
  /\ writer = Free
  /\ ~Active
  /\ rec < MaxRec
  /\ phase' = "recording"
  /\ rec' = rec + 1
  /\ nextSeq' = 2
  /\ pendingSeq' = 0
  /\ tagger' = 1
  /\ writer' = [seq |-> 1, kind |-> "start", slice |-> {}, sliced |-> FALSE]
  /\ file' = << >>
  /\ claim' = [t \in Tasks |-> 0]
  /\ lost' = {}
  /\ UNCHANGED <<task, net>>

\* The stop event takes whatever seq is pending.
Stop == Arm("stop")

\* record_event drops the stop event of a paused recording.
StopPaused ==
  /\ writer = Free
  /\ phase = "paused"
  /\ phase' = "stopped"
  /\ pendingSeq' = 0
  /\ tagger' = 0
  /\ UNCHANGED <<rec, nextSeq, writer, tasks, file, net>>

\* Mutant of Pause: no marker is left for the claim.
PauseWithoutMarker ==
  /\ writer = Free
  /\ phase = "recording"
  /\ phase' = "paused"
  /\ tagger' = 0
  /\ pendingSeq' = 0
  /\ UNCHANGED <<rec, nextSeq, writer, tasks, file, net>>

\* pause() closes the window and leaves a marker for a claimed seq.
Pause ==
  /\ writer = Free
  /\ phase = "recording"
  /\ phase' = "paused"
  /\ tagger' = 0
  /\ pendingSeq' = 0
  /\ file' = IF pendingSeq = 0 THEN file
             ELSE Append(file, Line(pendingSeq, "skipped", {}))
  /\ UNCHANGED <<rec, nextSeq, writer, tasks, net>>

Resume ==
  /\ writer = Free
  /\ phase = "paused"
  /\ phase' = "recording"
  /\ UNCHANGED <<rec, nextSeq, pendingSeq, tagger, writer, tasks, file, net>>

\* discard() forgets the session and its directory and nothing else.
Discard ==
  /\ writer = Free
  /\ phase # "none"
  /\ phase' = "none"
  /\ file' = << >>
  /\ UNCHANGED <<rec, nextSeq, pendingSeq, tagger, writer, tasks, net>>

-----------------------------------------------------------------------------
(* Recorded actions.                                                       *)

\* Mutant of Prepare: the claimed seq stays free for the next claim.
PrepareInPlace(t) ==
  /\ writer = Free
  /\ task[t] = "idle"
  /\ phase = "recording"
  /\ nextSeq <= MaxSeq
  /\ pendingSeq' = nextSeq
  /\ tagger' = nextSeq
  /\ Dispatched(t, nextSeq)
  /\ Abandoned
  /\ UNCHANGED <<phase, rec, nextSeq, writer, file, net>>

\* prepare_for_next_recorded_event, before the page sees the action.
Prepare(t) ==
  /\ writer = Free
  /\ task[t] = "idle"
  /\ phase = "recording"
  /\ nextSeq <= MaxSeq
  /\ nextSeq' = nextSeq + 1
  /\ pendingSeq' = nextSeq
  /\ tagger' = nextSeq
  /\ Dispatched(t, nextSeq)
  /\ Abandoned
  /\ UNCHANGED <<phase, rec, writer, file, net>>

\* Nothing is claimed without a recording, or while it is paused.
PrepareIdle(t) ==
  /\ writer = Free
  /\ task[t] = "idle"
  /\ phase # "recording"
  /\ IF phase = "paused" THEN tagger' = 0 /\ pendingSeq' = 0
                         ELSE UNCHANGED <<tagger, pendingSeq>>
  /\ Dispatched(t, 0)
  /\ UNCHANGED <<phase, rec, nextSeq, writer, lost, file, net>>

\* The page effect is over and record_event runs.
Record(t) == task[t] = "dispatched" /\ Arm(t)

RecordNothing(t) ==
  /\ writer = Free
  /\ task[t] = "dispatched"
  /\ phase # "recording"
  /\ Done(t)
  /\ UNCHANGED <<store, tagger, writer, lost, file, net>>

\* clear_pending_recorded_event, after a viewer input failed.
ClearPending(t) ==
  /\ writer = Free
  /\ task[t] = "dispatched"
  /\ tagger' = 0
  /\ pendingSeq' = 0
  /\ Done(t)
  /\ Abandoned
  /\ UNCHANGED <<phase, rec, nextSeq, writer, file, net>>

-----------------------------------------------------------------------------
(* Network listeners, concurrent with all of the above.                    *)

ReadTag(l) ==
  /\ listener[l] = Free
  /\ traffic < MaxTraffic
  /\ traffic' = traffic + 1
  /\ listener' = [listener EXCEPT ![l] =
                    [id |-> traffic + 1, rec |-> rec, seq |-> tagger,
                     lines |-> Len(file)]]
  /\ UNCHANGED <<store, tagger, writer, tasks, file, network>>

\* LogBuffer::push drops the oldest entry of a full buffer.
Push(l) ==
  /\ listener[l] # Free
  /\ network' = Append(IF Len(network) >= BufferSize THEN Tail(network)
                       ELSE network, listener[l])
  /\ listener' = [listener EXCEPT ![l] = Free]
  /\ UNCHANGED <<store, tagger, writer, tasks, file, traffic>>

\* The network command drains the buffer when asked to clear it.
Drain ==
  /\ network' = << >>
  /\ UNCHANGED <<store, tagger, writer, tasks, file, listener, traffic>>

-----------------------------------------------------------------------------
RecordEvent == TakeSlice \/ Write

OperatorStep == Start \/ Stop \/ StopPaused \/ Pause \/ Resume \/ Discard

TaskStep(t) == Prepare(t) \/ PrepareIdle(t) \/ Record(t) \/ RecordNothing(t)

Next ==
  \/ RecordEvent
  \/ OperatorStep
  \/ \E t \in Tasks : TaskStep(t)
  \/ \E v \in Viewers : ClearPending(v)
  \/ \E l \in Listeners : ReadTag(l) \/ Push(l)
  \/ Drain

Spec == Init /\ [][Next]_vars

-----------------------------------------------------------------------------
(* Properties of every interleaving.                                       *)

\* "Every event has monotonic sequence": no seq is written twice or out of
\* order, whatever claims, pauses, stolen claims and discards happened
\* between prepare_for_next_recorded_event and record_event.
SeqsIncrease ==
  \A i, j \in 1..Len(file) : i < j => file[i].seq < file[j].seq

\* An entry of this recording that bears the number of a line, or of a
\* marker, and is not in its slice was tagged before that line was written:
\* the attribution window closes with the line, whatever claims, pauses and
\* listeners run around record_event.  That there is such an entry at all, of
\* a listener that read the tag before and pushes after (logs.rs:211-233), is
\* against the comment that no entry pushed after the window closed receives
\* the number and that this eliminates orphans (view/recording.rs:283-286).
OrphansWereTaggedEarlier ==
  \A i \in 1..Len(file), j \in 1..Len(network) :
    (/\ network[j].rec = rec
     /\ network[j].seq = file[i].seq
     /\ network[j] \notin file[i].slice)
    => network[j].lines < i

\* A recording begins with its start event, which is line 1 with seq 1, and
\* nothing follows its stop event (start and stop are each two calls made
\* under one lock).
BracketedByStartAndStop ==
  \A i \in 1..Len(file) :
    /\ file[i].kind = "start" <=> i = 1
    /\ i = 1 => file[i].seq = 1
    /\ file[i].kind = "stop" => i = Len(file) /\ phase = "stopped"

\* A bundle that has been stopped is never written again: a task that was
\* dispatched before the stop records nothing in it.
StoppedBundleIsFrozen ==
  [][phase = "stopped" => file' = file \/ file' = << >>]_vars

\* No number vanishes without a reason: below the next free one, every
\* number of a recording has its line or its marker, is claimed or being
\* written, or was given up in one of two ways: another claim replaced it
\* before its event was recorded, or the viewer input that held it failed.
EveryNumberAccounted ==
  phase # "none" =>
    \A s \in 1..(nextSeq - 1) :
      \/ \E i \in 1..Len(file) : file[i].seq = s
      \/ s = pendingSeq
      \/ writer # Free /\ s = writer.seq
      \/ s \in lost

-----------------------------------------------------------------------------
(* Statements of the source that the code does not satisfy.                *)

\* "The claimed seq is the source of truth for the action's event": an action
\* that claimed a seq writes its line under it, unless a marker says that the
\* claim was abandoned.
EventUsesItsClaim ==
  \A t \in Tasks :
    (/\ writer # Free
     /\ writer.kind = t
     /\ claim[t] # 0
     /\ \A i \in 1..Len(file) : file[i].kind = "skipped" => file[i].seq # claim[t])
    => writer.seq = claim[t]

\* "prevents pollution of future slices": every entry of a slice was tagged
\* during the recording the slice belongs to.
SlicesAreUnpolluted ==
  \A i \in 1..Len(file) : \A e \in file[i].slice : e.rec = rec
=============================================================================
