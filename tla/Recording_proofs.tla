--------------------------- MODULE Recording_proofs ---------------------------
(***************************************************************************)
(* Proofs about the flow recorder, for any number of tasks, viewers and    *)
(* listeners and for every value of the bounds: events.jsonl is numbered   *)
(* in order, no entry is tagged with the number of a written line, a       *)
(* recording is bracketed by its start and stop events, and a stopped      *)
(* bundle is never written again.                                          *)
(*                                                                         *)
(* SeqsIncrease is not inductive: it holds because the claim, the number   *)
(* record_event has taken and the next free number are all above the       *)
(* lines of the file (NumbersOrdered).  Orphans are tagged earlier because *)
(* every entry, tagged or pushed, is (TaggedInTime): the tagger belongs to *)
(* the claim or to the line being written (WindowBelongs), so it is above  *)
(* every written line, and a new line comes after all entries of its       *)
(* recording.  The brackets need to know that a line is written only while *)
(* recording, and the start event first (WriterRecords).  That every       *)
(* number is accounted for needs PausedUnclaimed: stopping a paused        *)
(* recording clears a claim that cannot be there.                          *)
(***************************************************************************)
EXTENDS Recording, TLAPS

NumbersOrdered ==
  /\ \A i \in 1..Len(file) : 0 < file[i].seq /\ file[i].seq < nextSeq
  /\ pendingSeq # 0 =>
       /\ pendingSeq < nextSeq
       /\ \A i \in 1..Len(file) : file[i].seq < pendingSeq
  /\ writer # Free =>
       /\ pendingSeq = 0
       /\ writer.seq < nextSeq
       /\ \A i \in 1..Len(file) : file[i].seq < writer.seq

WindowBelongs ==
  tagger # 0 => tagger = pendingSeq \/ (writer # Free /\ tagger = writer.seq)

WriterRecords ==
  /\ writer # Free => phase = "recording" /\ (writer.kind = "start" <=> file = << >>)
  /\ writer # Free /\ writer.kind = "start" => writer.seq = 1
  /\ writer = Free /\ phase # "none" => file # << >>
  /\ phase = "none" => file = << >>

PausedUnclaimed == phase = "paused" => pendingSeq = 0

\* The entries in the buffer and in the hands of the listeners.
Seen == {network[j] : j \in 1..Len(network)}
        \cup {listener[l] : l \in {k \in Listeners : listener[k] # Free}}

InTime(e) ==
  /\ e.rec <= rec
  /\ e.rec = rec /\ phase # "none" => e.lines <= Len(file)
  /\ \A i \in 1..Len(file) : e.rec = rec /\ e.seq = file[i].seq => e.lines < i

TaggedInTime == \A e \in Seen : InTime(e)

IInv ==
  /\ TypeOK
  /\ SeqsIncrease
  /\ NumbersOrdered
  /\ WindowBelongs
  /\ WriterRecords
  /\ BracketedByStartAndStop
  /\ PausedUnclaimed
  /\ EveryNumberAccounted
  /\ TaggedInTime

-----------------------------------------------------------------------------
(* Lemmas about the data.                                                  *)

LEMMA LineType ==
  ASSUME NEW s \in Nat, NEW k \in Kinds, NEW e \in SUBSET Entries
  PROVE  /\ Line(s, k, e) \in Lines
         /\ Line(s, k, e).seq = s
         /\ Line(s, k, e).kind = k
BY DEF Line, Lines

LEMMA AppendedLine ==
  ASSUME NEW f \in Seq(Lines), NEW x \in Lines
  PROVE  /\ Append(f, x) \in Seq(Lines)
         /\ Len(Append(f, x)) = Len(f) + 1
         /\ \A i \in 1..Len(f) : Append(f, x)[i] = f[i]
         /\ Append(f, x)[Len(f) + 1] = x
         /\ Append(f, x) # << >>
OBVIOUS

LEMMA FileLines ==
  ASSUME NEW f \in Seq(Lines), NEW i \in 1..Len(f)
  PROVE  /\ f[i] \in Lines
         /\ f[i].seq \in Nat
         /\ f[i].kind \in Kinds
<1>1. f[i] \in Lines
  OBVIOUS
<1> QED BY <1>1 DEF Lines

\* A fresh line above all lines of an ordered file leaves it ordered.
LEMMA AppendKeepsOrder ==
  ASSUME NEW f \in Seq(Lines), NEW x \in Lines,
         \A i, j \in 1..Len(f) : i < j => f[i].seq < f[j].seq,
         \A i \in 1..Len(f) : f[i].seq < x.seq
  PROVE  \A i, j \in 1..Len(Append(f, x)) :
           i < j => Append(f, x)[i].seq < Append(f, x)[j].seq
<1> DEFINE g == Append(f, x)
<1>1. /\ Len(g) = Len(f) + 1
      /\ \A i \in 1..Len(f) : g[i] = f[i]
      /\ g[Len(f) + 1] = x
  BY AppendedLine
<1>2. Len(f) \in Nat
  OBVIOUS
<1> HIDE DEF g
<1>3. SUFFICES ASSUME NEW i \in 1..Len(g), NEW j \in 1..Len(g), i < j
               PROVE  g[i].seq < g[j].seq
  BY DEF g
<1>4. i \in 1..Len(f)
  BY <1>1, <1>2, <1>3
<1>5. CASE j \in 1..Len(f)
  BY <1>1, <1>3, <1>4, <1>5
<1>6. CASE j = Len(f) + 1
  BY <1>1, <1>4, <1>6
<1> QED BY <1>1, <1>2, <1>5, <1>6

LEMMA WriterType ==
  ASSUME TypeOK, writer # Free
  PROVE  /\ writer \in Writes
         /\ writer.seq \in Nat \ {0}
         /\ writer.kind \in Kinds \ {"skipped"}
         /\ writer.slice \in SUBSET Entries
         /\ writer.sliced \in BOOLEAN
<1>1. writer \in Writes
  BY DEF TypeOK
<1> QED BY <1>1 DEF Writes

\* What record_event holds when it has taken its number.
LEMMA TakenWrite ==
  ASSUME NEW s \in Nat \ {0}, NEW k \in Kinds \ {"skipped"}
  PROVE  LET w == [seq |-> s, kind |-> k, slice |-> {}, sliced |-> FALSE]
         IN  w \in Writes /\ w # Free /\ w.seq = s /\ w.kind = k
<1> DEFINE w == [seq |-> s, kind |-> k, slice |-> {}, sliced |-> FALSE]
<1>1. FALSE \in BOOLEAN
  OBVIOUS
<1>2. {} \in SUBSET Entries
  OBVIOUS
<1>3. w \in Writes
  BY <1>1, <1>2, Zenon DEF Writes
<1>4. w # Free
  BY <1>3, FreeAssumption
<1>5. w.seq = s /\ w.kind = k
  OBVIOUS
<1> QED BY <1>3, <1>4, <1>5

\* The kinds of tasks and the kinds of the recorder's own events are apart.
LEMMA TaskKinds ==
  ASSUME NEW t \in Tasks
  PROVE  /\ t \in Kinds \ {"skipped"}
         /\ t # "start" /\ t # "stop"
BY TasksAssumption DEF Kinds

LEMMA DispatchedType ==
  ASSUME TypeOK, NEW t \in Tasks, NEW s \in Nat, Dispatched(t, s)
  PROVE  /\ task' \in [Tasks -> {"idle", "dispatched"}]
         /\ claim' \in [Tasks -> Nat]
BY DEF TypeOK, Dispatched

LEMMA DoneType ==
  ASSUME TypeOK, NEW t \in Tasks, Done(t)
  PROVE  /\ task' \in [Tasks -> {"idle", "dispatched"}]
         /\ claim' \in [Tasks -> Nat]
BY DEF TypeOK, Done

-----------------------------------------------------------------------------
(* Type correctness, one step per action.                                  *)

\* Every disjunct of Next by name.
LEMMA NextCases ==
  ASSUME Next
  PROVE  \/ TakeSlice \/ Write \/ Start \/ Stop \/ StopPaused \/ Pause
         \/ Resume \/ Discard \/ Drain
         \/ \E t \in Tasks :
              \/ Prepare(t) \/ PrepareIdle(t) \/ Record(t) \/ RecordNothing(t)
              \/ ClearPending(t)
         \/ \E l \in Listeners : ReadTag(l) \/ Push(l)
BY DEF Next, RecordEvent, OperatorStep, TaskStep, Tasks

LEMMA ArmType ==
  ASSUME TypeOK, NEW k \in Kinds \ {"skipped"}, Arm(k)
  PROVE  TypeOK'
<1>1. TakenSeq \in Nat \ {0}
  BY DEF TypeOK, TakenSeq
<1>2. writer' \in Writes
  BY <1>1, TakenWrite DEF Arm
<1>3. nextSeq' \in Nat \ {0} /\ pendingSeq' \in Nat /\ tagger' \in Nat
  BY <1>1 DEF TypeOK, Arm
<1> QED BY <1>2, <1>3 DEF TypeOK, Arm, tasks, net

LEMMA SlicedWrite ==
  ASSUME TypeOK, TakeSlice
  PROVE  /\ writer' \in Writes /\ writer' # Free
         /\ writer'.seq = writer.seq /\ writer'.kind = writer.kind
<1>1. Tagged(writer.seq) \in SUBSET Entries
  BY DEF TypeOK, Tagged
<1>2. TRUE \in BOOLEAN
  OBVIOUS
<1>3. writer' = [seq |-> writer.seq, kind |-> writer.kind,
                 slice |-> Tagged(writer.seq), sliced |-> TRUE]
  BY WriterType DEF TakeSlice, Writes
<1>4. writer' \in Writes
  BY <1>1, <1>2, <1>3, WriterType, Zenon DEF TakeSlice, Writes
<1>5. writer' # Free
  BY <1>4, FreeAssumption
<1> QED BY <1>3, <1>4, <1>5

LEMMA TypeStep ==
  ASSUME TypeOK, [Next]_vars
  PROVE  TypeOK'
<1>1. CASE UNCHANGED vars
  BY <1>1 DEF TypeOK, vars, store, tasks, net
<1>2. CASE TakeSlice
  BY <1>2, SlicedWrite DEF TypeOK, TakeSlice, store, tasks, net
<1>3. CASE Write
  <2>1. Line(writer.seq, writer.kind, writer.slice) \in Lines
    BY <1>3, WriterType, LineType DEF Write
  <2>2. file' \in Seq(Lines)
    BY <1>3, <2>1, AppendedLine DEF Write, TypeOK
  <2>3. /\ task' \in [Tasks -> {"idle", "dispatched"}]
        /\ claim' \in [Tasks -> Nat]
    BY <1>3, DoneType DEF Write, TypeOK, tasks
  <2>4. phase' \in Phases
    BY <1>3 DEF Write, TypeOK, Phases
  <2> QED BY <1>3, <2>2, <2>3, <2>4 DEF TypeOK, Write, net
<1>4. CASE Start
  <2>1. writer' \in Writes
    BY <1>4, TakenWrite DEF Start, Kinds
  <2>2. claim' \in [Tasks -> Nat]
    BY <1>4 DEF Start
  <2> QED BY <1>4, <2>1, <2>2 DEF TypeOK, Start, Phases, net
<1>5. CASE Stop
  BY <1>5, ArmType DEF Stop, Kinds
<1>6. CASE StopPaused
  BY <1>6 DEF TypeOK, StopPaused, Phases, tasks, net
<1>7. CASE Pause
  <2>1. pendingSeq # 0 => Line(pendingSeq, "skipped", {}) \in Lines
    BY LineType DEF TypeOK, Kinds
  <2>2. file' \in Seq(Lines)
    BY <1>7, <2>1, AppendedLine DEF Pause, TypeOK
  <2> QED BY <1>7, <2>2 DEF TypeOK, Pause, Phases, tasks, net
<1>8. CASE Resume
  BY <1>8 DEF TypeOK, Resume, Phases, tasks, net
<1>9. CASE Discard
  BY <1>9 DEF TypeOK, Discard, Phases, tasks, net
<1>10. CASE Drain
  BY <1>10 DEF TypeOK, Drain, store, tasks
<1>11. ASSUME NEW t \in Tasks, Prepare(t)
       PROVE  TypeOK'
  <2>1. /\ task' \in [Tasks -> {"idle", "dispatched"}]
        /\ claim' \in [Tasks -> Nat]
    BY <1>11, DispatchedType DEF Prepare, TypeOK
  <2>2. lost' \in SUBSET Nat
    BY <1>11 DEF TypeOK, Prepare, Abandoned
  <2> QED BY <1>11, <2>1, <2>2 DEF TypeOK, Prepare, net
<1>12. ASSUME NEW t \in Tasks, PrepareIdle(t)
       PROVE  TypeOK'
  <2>1. /\ task' \in [Tasks -> {"idle", "dispatched"}]
        /\ claim' \in [Tasks -> Nat]
    BY <1>12, DispatchedType DEF PrepareIdle
  <2> QED BY <1>12, <2>1 DEF TypeOK, PrepareIdle, net
<1>13. ASSUME NEW t \in Tasks, Record(t)
       PROVE  TypeOK'
  BY <1>13, TaskKinds, ArmType DEF Record
<1>14. ASSUME NEW t \in Tasks, RecordNothing(t)
       PROVE  TypeOK'
  BY <1>14, DoneType DEF TypeOK, RecordNothing, store, net
<1>15. ASSUME NEW t \in Tasks, ClearPending(t)
       PROVE  TypeOK'
  <2>1. lost' \in SUBSET Nat
    BY <1>15 DEF TypeOK, ClearPending, Abandoned
  <2> QED BY <1>15, <2>1, DoneType DEF TypeOK, ClearPending, net
<1>16. ASSUME NEW l \in Listeners, ReadTag(l)
       PROVE  TypeOK'
  <2>1. [id |-> traffic + 1, rec |-> rec, seq |-> tagger,
         lines |-> Len(file)] \in Entries
    BY DEF TypeOK, Entries
  <2> QED BY <1>16, <2>1 DEF TypeOK, ReadTag, store, tasks
<1>17. ASSUME NEW l \in Listeners, Push(l)
       PROVE  TypeOK'
  <2>1. listener[l] \in Entries
    BY <1>17 DEF TypeOK, Push
  <2>2. Len(network) >= BufferSize => Tail(network) \in Seq(Entries)
    BY BufferAssumption DEF TypeOK
  <2>3. network' \in Seq(Entries)
    BY <1>17, <2>1, <2>2 DEF TypeOK, Push
  <2>4. listener' \in [Listeners -> Entries \cup {Free}]
    BY <1>17 DEF TypeOK, Push
  <2> QED BY <1>17, <2>3, <2>4 DEF TypeOK, Push, store, tasks
<1> QED
  BY <1>1, <1>2, <1>3, <1>4, <1>5, <1>6, <1>7, <1>8, <1>9, <1>10, <1>11,
     <1>12, <1>13, <1>14, <1>15, <1>16, <1>17, NextCases

-----------------------------------------------------------------------------
(* The numbering.                                                          *)

\* record_event takes a number above every line and below the next free one.
LEMMA TakenAbove ==
  ASSUME TypeOK, NumbersOrdered, NEW k, Arm(k)
  PROVE  /\ TakenSeq \in Nat \ {0}
         /\ TakenSeq < nextSeq'
         /\ nextSeq <= nextSeq'
         /\ \A i \in 1..Len(file) : file[i].seq < TakenSeq
BY FileLines DEF TypeOK, NumbersOrdered, Arm, TakenSeq

LEMMA ArmOrder ==
  ASSUME TypeOK, SeqsIncrease, NumbersOrdered,
         NEW k \in Kinds \ {"skipped"}, Arm(k)
  PROVE  SeqsIncrease' /\ NumbersOrdered'
<1>1. file' = file
  BY DEF Arm
<1>2. writer'.seq = TakenSeq
  BY DEF Arm
<1>3. pendingSeq' = 0
  BY DEF Arm
<1>4. \A i \in 1..Len(file) : 0 < file[i].seq /\ file[i].seq < nextSeq'
  BY TakenAbove, FileLines DEF NumbersOrdered, TypeOK, Arm
<1> QED BY <1>1, <1>2, <1>3, <1>4, TakenAbove DEF SeqsIncrease, NumbersOrdered

LEMMA OrderStep ==
  ASSUME TypeOK, SeqsIncrease, NumbersOrdered, [Next]_vars
  PROVE  SeqsIncrease' /\ NumbersOrdered'
<1>1. CASE UNCHANGED <<file, store, writer>>
  BY <1>1 DEF SeqsIncrease, NumbersOrdered, store
<1>2. CASE TakeSlice
  BY <1>2, SlicedWrite DEF TakeSlice, SeqsIncrease, NumbersOrdered, store
<1>3. CASE Write
  <2> DEFINE x == Line(writer.seq, writer.kind, writer.slice)
  <2>1. x \in Lines /\ x.seq = writer.seq
    BY <1>3, WriterType, LineType DEF Write
  <2>2. file' = Append(file, x) /\ file \in Seq(Lines)
    BY <1>3 DEF Write, TypeOK
  <2>3. \A i \in 1..Len(file) : file[i].seq < x.seq
    BY <1>3, <2>1 DEF Write, NumbersOrdered
  <2> HIDE DEF x
  <2>4. SeqsIncrease'
    BY <2>1, <2>2, <2>3, AppendKeepsOrder DEF SeqsIncrease
  <2>5. /\ Len(file') = Len(file) + 1
        /\ \A i \in 1..Len(file) : file'[i] = file[i]
        /\ file'[Len(file) + 1] = x
    BY <2>1, <2>2, AppendedLine
  <2>6. x.seq \in Nat \ {0} /\ x.seq < nextSeq
    BY <1>3, <2>1, WriterType DEF Write, NumbersOrdered
  <2>7. \A i \in 1..Len(file') : 0 < file'[i].seq /\ file'[i].seq < nextSeq
    BY <2>2, <2>5, <2>6 DEF NumbersOrdered
  <2>8. nextSeq' = nextSeq /\ pendingSeq' = 0 /\ writer' = Free
    BY <1>3 DEF Write, NumbersOrdered
  <2> QED BY <2>4, <2>7, <2>8 DEF NumbersOrdered
<1>4. CASE Start
  BY <1>4 DEF Start, SeqsIncrease, NumbersOrdered
<1>5. CASE Stop
  BY <1>5, ArmOrder DEF Stop, Kinds
<1>6. CASE StopPaused
  BY <1>6 DEF StopPaused, SeqsIncrease, NumbersOrdered
<1>7. CASE Pause
  <2>1. CASE pendingSeq = 0
    BY <1>7, <2>1 DEF Pause, SeqsIncrease, NumbersOrdered
  <2>2. CASE pendingSeq # 0
    <3> DEFINE x == Line(pendingSeq, "skipped", {})
    <3>1. x \in Lines /\ x.seq = pendingSeq
      BY LineType DEF TypeOK, Kinds
    <3>2. file' = Append(file, x) /\ file \in Seq(Lines)
      BY <1>7, <2>2 DEF Pause, TypeOK
    <3>3. \A i \in 1..Len(file) : file[i].seq < x.seq
      BY <2>2, <3>1 DEF NumbersOrdered
    <3> HIDE DEF x
    <3>4. SeqsIncrease'
      BY <3>1, <3>2, <3>3, AppendKeepsOrder DEF SeqsIncrease
    <3>5. /\ Len(file') = Len(file) + 1
          /\ \A i \in 1..Len(file) : file'[i] = file[i]
          /\ file'[Len(file) + 1] = x
      BY <3>1, <3>2, AppendedLine
    <3>6. x.seq \in Nat \ {0} /\ x.seq < nextSeq
      BY <2>2, <3>1 DEF TypeOK, NumbersOrdered
    <3>7. \A i \in 1..Len(file') : 0 < file'[i].seq /\ file'[i].seq < nextSeq
      BY <3>2, <3>5, <3>6 DEF NumbersOrdered
    <3>8. nextSeq' = nextSeq /\ pendingSeq' = 0 /\ writer' = Free
      BY <1>7 DEF Pause
    <3> QED BY <3>4, <3>7, <3>8 DEF NumbersOrdered
  <2> QED BY <2>1, <2>2
<1>8. CASE Resume
  BY <1>8 DEF Resume, SeqsIncrease, NumbersOrdered
<1>9. CASE Discard
  BY <1>9 DEF Discard, SeqsIncrease, NumbersOrdered
<1>10. ASSUME NEW t \in Tasks, Prepare(t)
       PROVE  SeqsIncrease' /\ NumbersOrdered'
  <2>1. /\ file' = file /\ writer' = writer /\ writer = Free
        /\ nextSeq' = nextSeq + 1 /\ pendingSeq' = nextSeq
    BY <1>10 DEF Prepare
  <2>2. \A i \in 1..Len(file) :
          /\ 0 < file[i].seq
          /\ file[i].seq < nextSeq
          /\ file[i].seq < nextSeq + 1
    BY FileLines DEF NumbersOrdered, TypeOK
  <2>3. nextSeq \in Nat
    BY DEF TypeOK
  <2> QED BY <2>1, <2>2, <2>3 DEF SeqsIncrease, NumbersOrdered
<1>11. ASSUME NEW t \in Tasks, PrepareIdle(t)
       PROVE  SeqsIncrease' /\ NumbersOrdered'
  BY <1>11 DEF PrepareIdle, SeqsIncrease, NumbersOrdered
<1>12. ASSUME NEW t \in Tasks, Record(t)
       PROVE  SeqsIncrease' /\ NumbersOrdered'
  BY <1>12, TaskKinds, ArmOrder DEF Record
<1>13. ASSUME NEW t \in Tasks, ClearPending(t)
       PROVE  SeqsIncrease' /\ NumbersOrdered'
  BY <1>13 DEF ClearPending, SeqsIncrease, NumbersOrdered
<1>14. CASE UNCHANGED vars
  BY <1>1, <1>14 DEF vars, store
<1>15. CASE Drain
  BY <1>1, <1>15 DEF Drain, store
<1>16. ASSUME NEW t \in Tasks, RecordNothing(t)
       PROVE  SeqsIncrease' /\ NumbersOrdered'
  BY <1>1, <1>16 DEF RecordNothing, store
<1>17. ASSUME NEW l \in Listeners, ReadTag(l) \/ Push(l)
       PROVE  SeqsIncrease' /\ NumbersOrdered'
  BY <1>1, <1>17 DEF ReadTag, Push, store
<1> QED
  BY <1>2, <1>3, <1>4, <1>5, <1>6, <1>7, <1>8, <1>9, <1>10, <1>11, <1>12,
     <1>13, <1>14, <1>15, <1>16, <1>17, NextCases

-----------------------------------------------------------------------------
(* The attribution window.                                                 *)

LEMMA WindowStep ==
  ASSUME TypeOK, NumbersOrdered, WindowBelongs, [Next]_vars
  PROVE  WindowBelongs'
<1>1. CASE UNCHANGED <<tagger, store, writer>>
  BY <1>1 DEF WindowBelongs, store
<1>2. CASE TakeSlice
  BY <1>2, SlicedWrite DEF TakeSlice, WindowBelongs, store
<1>3. ASSUME NEW k \in Kinds \ {"skipped"}, Arm(k)
      PROVE  WindowBelongs'
  <2>1. writer' # Free /\ writer'.seq = TakenSeq
    BY <1>3, TakenWrite, TakenAbove DEF Arm
  <2> QED BY <1>3, <2>1 DEF Arm, WindowBelongs
<1>4. CASE Start
  <2>1. writer' # Free /\ writer'.seq = 1
    BY <1>4, TakenWrite DEF Start, Kinds
  <2> QED BY <1>4, <2>1 DEF Start, WindowBelongs
<1>5. CASE Stop
  BY <1>3, <1>5 DEF Stop, Kinds
<1>6. CASE Write \/ StopPaused \/ Pause
  BY <1>6 DEF Write, StopPaused, Pause, WindowBelongs
<1>7. CASE Resume \/ Discard
  BY <1>7 DEF Resume, Discard, WindowBelongs
<1>8. ASSUME NEW t \in Tasks, Prepare(t) \/ PrepareIdle(t) \/ ClearPending(t)
      PROVE  WindowBelongs'
  BY <1>8 DEF Prepare, PrepareIdle, ClearPending, WindowBelongs
<1>9. ASSUME NEW t \in Tasks, Record(t)
      PROVE  WindowBelongs'
  BY <1>3, <1>9, TaskKinds DEF Record
<1>10. CASE UNCHANGED vars
  BY <1>1, <1>10 DEF vars, store
<1>11. CASE Drain
  BY <1>1, <1>11 DEF Drain, store
<1>12. ASSUME NEW t \in Tasks, RecordNothing(t)
       PROVE  WindowBelongs'
  BY <1>1, <1>12 DEF RecordNothing, store
<1>13. ASSUME NEW l \in Listeners, ReadTag(l) \/ Push(l)
       PROVE  WindowBelongs'
  BY <1>1, <1>13 DEF ReadTag, Push, store
<1> QED
  BY <1>2, <1>4, <1>5, <1>6, <1>7, <1>8, <1>9, <1>10, <1>11, <1>12, <1>13,
     NextCases

-----------------------------------------------------------------------------
(* The brackets.                                                           *)

LEMMA ArmBrackets ==
  ASSUME TypeOK, WriterRecords, BracketedByStartAndStop,
         NEW k \in Kinds \ {"skipped"}, k # "start", Arm(k)
  PROVE  WriterRecords' /\ BracketedByStartAndStop'
<1>1. writer'.kind = k
  BY DEF Arm
<1>2. file # << >> /\ file' = file /\ phase' = phase /\ phase = "recording"
  BY DEF Arm, WriterRecords
<1>3. writer' # Free
  BY TakenWrite DEF Arm, TakenSeq, TypeOK
<1> QED BY <1>1, <1>2, <1>3 DEF WriterRecords, BracketedByStartAndStop

LEMMA BracketStep ==
  ASSUME TypeOK, WriterRecords, BracketedByStartAndStop, [Next]_vars
  PROVE  WriterRecords' /\ BracketedByStartAndStop'
<1>1. CASE UNCHANGED <<file, phase, writer>>
  BY <1>1 DEF WriterRecords, BracketedByStartAndStop
<1>2. CASE TakeSlice
  BY <1>2, SlicedWrite
     DEF TakeSlice, WriterRecords, BracketedByStartAndStop, store
<1>3. CASE Write
  <2> DEFINE x == Line(writer.seq, writer.kind, writer.slice)
  <2>1. x \in Lines /\ x.seq = writer.seq /\ x.kind = writer.kind
    BY <1>3, WriterType, LineType DEF Write
  <2>2. file' = Append(file, x) /\ file \in Seq(Lines)
    BY <1>3 DEF Write, TypeOK
  <2> HIDE DEF x
  <2>3. /\ Len(file') = Len(file) + 1
        /\ \A i \in 1..Len(file) : file'[i] = file[i]
        /\ file'[Len(file) + 1] = x
        /\ file' # << >>
    BY <2>1, <2>2, AppendedLine
  <2>4. /\ phase = "recording"
        /\ writer.kind = "start" <=> file = << >>
        /\ writer.kind = "start" => writer.seq = 1
    BY <1>3 DEF Write, WriterRecords
  <2>5. Len(file) \in Nat /\ (file = << >> <=> Len(file) = 0)
    BY <2>2
  <2>6. \A i \in 1..Len(file) : file[i].kind # "stop"
    BY <2>4 DEF BracketedByStartAndStop
  <2>7. /\ writer' = Free
        /\ phase' = IF x.kind = "stop" THEN "stopped" ELSE phase
    BY <1>3, <2>1 DEF Write
  <2>8. BracketedByStartAndStop'
    BY <2>1, <2>3, <2>4, <2>5, <2>6, <2>7 DEF BracketedByStartAndStop
  <2>9. WriterRecords'
    BY <2>3, <2>4, <2>7 DEF WriterRecords
  <2> QED BY <2>8, <2>9
<1>4. CASE Start
  <2>1. writer' # Free /\ writer'.seq = 1 /\ writer'.kind = "start"
    BY <1>4, TakenWrite DEF Start, Kinds
  <2> QED BY <1>4, <2>1 DEF Start, WriterRecords, BracketedByStartAndStop
<1>5. CASE Stop
  BY <1>5, ArmBrackets DEF Stop, Kinds
<1>6. CASE StopPaused
  BY <1>6 DEF StopPaused, WriterRecords, BracketedByStartAndStop
<1>7. CASE Pause
  <2>1. CASE pendingSeq = 0
    BY <1>7, <2>1 DEF Pause, WriterRecords, BracketedByStartAndStop
  <2>2. CASE pendingSeq # 0
    <3> DEFINE x == Line(pendingSeq, "skipped", {})
    <3>1. x \in Lines /\ x.kind = "skipped"
      BY LineType DEF TypeOK, Kinds
    <3>2. file' = Append(file, x) /\ file \in Seq(Lines) /\ phase' = "paused"
      BY <1>7, <2>2 DEF Pause, TypeOK
    <3> HIDE DEF x
    <3>3. /\ Len(file') = Len(file) + 1
          /\ \A i \in 1..Len(file) : file'[i] = file[i]
          /\ file'[Len(file) + 1] = x
          /\ file' # << >>
      BY <3>1, <3>2, AppendedLine
    <3>4. file # << >> /\ phase = "recording"
      BY <1>7 DEF Pause, WriterRecords
    <3>5. Len(file) \in Nat /\ Len(file) # 0
      BY <3>2, <3>4
    <3>6. \A i \in 1..Len(file) : file[i].kind # "stop"
      BY <3>4 DEF BracketedByStartAndStop
    <3>7. BracketedByStartAndStop'
      BY <3>1, <3>3, <3>5, <3>6 DEF BracketedByStartAndStop
    <3>8. WriterRecords'
      BY <1>7, <3>2, <3>3 DEF Pause, WriterRecords
    <3> QED BY <3>7, <3>8
  <2> QED BY <2>1, <2>2
<1>8. CASE Resume
  BY <1>8 DEF Resume, WriterRecords, BracketedByStartAndStop
<1>9. CASE Discard
  BY <1>9 DEF Discard, WriterRecords, BracketedByStartAndStop
<1>10. ASSUME NEW t \in Tasks, Record(t)
       PROVE  WriterRecords' /\ BracketedByStartAndStop'
  BY <1>10, TaskKinds, ArmBrackets DEF Record
<1>11. ASSUME NEW t \in Tasks,
              Prepare(t) \/ PrepareIdle(t) \/ RecordNothing(t) \/ ClearPending(t)
       PROVE  WriterRecords' /\ BracketedByStartAndStop'
  BY <1>1, <1>11 DEF Prepare, PrepareIdle, RecordNothing, ClearPending, store
<1>12. CASE UNCHANGED vars
  BY <1>1, <1>12 DEF vars, store
<1>13. CASE Drain
  BY <1>1, <1>13 DEF Drain, store
<1>14. ASSUME NEW l \in Listeners, ReadTag(l) \/ Push(l)
       PROVE  WriterRecords' /\ BracketedByStartAndStop'
  BY <1>1, <1>14 DEF ReadTag, Push, store
<1> QED
  BY <1>2, <1>3, <1>4, <1>5, <1>6, <1>7, <1>8, <1>9, <1>10, <1>11, <1>12,
     <1>13, <1>14, NextCases

-----------------------------------------------------------------------------
(* The numbers handed out.                                                 *)

LEMMA ArmAccounts ==
  ASSUME TypeOK, WriterRecords, EveryNumberAccounted,
         NEW k \in Kinds \ {"skipped"}, Arm(k)
  PROVE  PausedUnclaimed' /\ EveryNumberAccounted'
<1>1. /\ writer = Free /\ phase = "recording" /\ phase' = phase
      /\ file' = file /\ lost' = lost /\ pendingSeq' = 0
      /\ nextSeq' = IF pendingSeq # 0 THEN nextSeq ELSE nextSeq + 1
  BY DEF Arm, tasks
<1>2. writer' # Free /\ writer'.seq = TakenSeq
  BY TakenWrite DEF Arm, TakenSeq, TypeOK
<1>3. nextSeq \in Nat \ {0} /\ pendingSeq \in Nat
  BY DEF TypeOK
<1>4. ASSUME NEW s \in 1..(nextSeq' - 1)
      PROVE  \/ \E i \in 1..Len(file) : file[i].seq = s
             \/ s = TakenSeq
             \/ s \in lost
  BY <1>1, <1>3, <1>4 DEF EveryNumberAccounted, TakenSeq
<1> QED BY <1>1, <1>2, <1>4 DEF PausedUnclaimed, EveryNumberAccounted

LEMMA AppendAccounts ==
  ASSUME TypeOK, NEW x \in Lines, file' = Append(file, x)
  PROVE  /\ \E i \in 1..Len(file') : file'[i].seq = x.seq
         /\ \A i \in 1..Len(file) :
              \E j \in 1..Len(file') : file'[j].seq = file[i].seq
<1>1. file \in Seq(Lines)
  BY DEF TypeOK
<1>2. /\ Len(file') = Len(file) + 1
      /\ \A i \in 1..Len(file) : file'[i] = file[i]
      /\ file'[Len(file) + 1] = x
  BY <1>1, AppendedLine
<1>3. Len(file) \in Nat
  BY <1>1
<1> QED BY <1>2, <1>3

LEMMA AccountStep ==
  ASSUME TypeOK, NumbersOrdered, WriterRecords, PausedUnclaimed,
         EveryNumberAccounted, [Next]_vars
  PROVE  PausedUnclaimed' /\ EveryNumberAccounted'
<1>1. CASE UNCHANGED <<file, store, writer, lost>>
  BY <1>1 DEF PausedUnclaimed, EveryNumberAccounted, store
<1>2. CASE TakeSlice
  BY <1>2, SlicedWrite
     DEF TakeSlice, PausedUnclaimed, EveryNumberAccounted, store, tasks
<1>3. CASE Write
  <2> DEFINE x == Line(writer.seq, writer.kind, writer.slice)
  <2>1. x \in Lines /\ x.seq = writer.seq
    BY <1>3, WriterType, LineType DEF Write
  <2>2. file' = Append(file, x)
    BY <1>3 DEF Write
  <2> HIDE DEF x
  <2>3. /\ \E i \in 1..Len(file') : file'[i].seq = writer.seq
        /\ \A i \in 1..Len(file) :
             \E j \in 1..Len(file') : file'[j].seq = file[i].seq
    BY <2>1, <2>2, AppendAccounts
  <2>4. /\ phase = "recording" /\ phase' \in {"recording", "stopped"}
        /\ nextSeq' = nextSeq /\ pendingSeq' = pendingSeq /\ lost' = lost
        /\ writer # Free
    BY <1>3 DEF Write, WriterRecords
  <2> QED BY <2>3, <2>4 DEF PausedUnclaimed, EveryNumberAccounted
<1>4. CASE Start
  <2>1. writer' # Free /\ writer'.seq = 1
    BY <1>4, TakenWrite DEF Start, Kinds
  <2>2. nextSeq' = 2 /\ phase' = "recording"
    BY <1>4 DEF Start
  <2>3. \A s \in 1..(2 - 1) : s = 1
    OBVIOUS
  <2> QED BY <2>1, <2>2, <2>3 DEF PausedUnclaimed, EveryNumberAccounted
<1>5. CASE Stop
  BY <1>5, ArmAccounts DEF Stop, Kinds
<1>6. CASE StopPaused
  BY <1>6 DEF StopPaused, PausedUnclaimed, EveryNumberAccounted, tasks
<1>7. CASE Pause
  <2>1. /\ phase = "recording" /\ phase' = "paused" /\ pendingSeq' = 0
        /\ nextSeq' = nextSeq /\ lost' = lost /\ writer = Free /\ writer' = Free
    BY <1>7 DEF Pause, tasks
  <2>2. CASE pendingSeq = 0
    BY <1>7, <2>1, <2>2 DEF Pause, PausedUnclaimed, EveryNumberAccounted
  <2>3. CASE pendingSeq # 0
    <3> DEFINE x == Line(pendingSeq, "skipped", {})
    <3>1. x \in Lines /\ x.seq = pendingSeq
      BY LineType DEF TypeOK, Kinds
    <3>2. file' = Append(file, x)
      BY <1>7, <2>3 DEF Pause
    <3> HIDE DEF x
    <3>3. /\ \E i \in 1..Len(file') : file'[i].seq = pendingSeq
          /\ \A i \in 1..Len(file) :
               \E j \in 1..Len(file') : file'[j].seq = file[i].seq
      BY <3>1, <3>2, AppendAccounts
    <3> QED BY <2>1, <3>3 DEF PausedUnclaimed, EveryNumberAccounted
  <2> QED BY <2>2, <2>3
<1>8. CASE Resume
  BY <1>8 DEF Resume, PausedUnclaimed, EveryNumberAccounted, tasks
<1>9. CASE Discard
  BY <1>9 DEF Discard, PausedUnclaimed, EveryNumberAccounted
<1>10. ASSUME NEW t \in Tasks, Prepare(t)
       PROVE  PausedUnclaimed' /\ EveryNumberAccounted'
  <2>1. /\ phase = "recording" /\ phase' = phase /\ file' = file
        /\ writer = Free /\ writer' = writer
        /\ nextSeq' = nextSeq + 1 /\ pendingSeq' = nextSeq
        /\ lost' = IF pendingSeq = 0 THEN lost ELSE lost \cup {pendingSeq}
    BY <1>10 DEF Prepare, Abandoned
  <2>2. nextSeq \in Nat \ {0}
    BY DEF TypeOK
  <2>3. ASSUME NEW s \in 1..(nextSeq' - 1)
        PROVE  \/ \E i \in 1..Len(file) : file[i].seq = s
               \/ s = nextSeq
               \/ s \in lost'
    <3>1. CASE s = nextSeq
      BY <3>1
    <3>2. CASE s # nextSeq
      <4>1. s \in 1..(nextSeq - 1)
        BY <2>1, <2>2, <2>3, <3>2
      <4>2. s # 0
        BY <4>1
      <4> QED BY <2>1, <4>1, <4>2 DEF EveryNumberAccounted
    <3> QED BY <3>1, <3>2
  <2> QED BY <2>1, <2>3 DEF PausedUnclaimed, EveryNumberAccounted
<1>11. ASSUME NEW t \in Tasks, PrepareIdle(t)
       PROVE  PausedUnclaimed' /\ EveryNumberAccounted'
  BY <1>11 DEF PrepareIdle, PausedUnclaimed, EveryNumberAccounted
<1>12. ASSUME NEW t \in Tasks, Record(t)
       PROVE  PausedUnclaimed' /\ EveryNumberAccounted'
  BY <1>12, TaskKinds, ArmAccounts DEF Record
<1>13. ASSUME NEW t \in Tasks, ClearPending(t)
       PROVE  PausedUnclaimed' /\ EveryNumberAccounted'
  <2>1. /\ phase' = phase /\ file' = file /\ nextSeq' = nextSeq
        /\ writer = Free /\ writer' = writer /\ pendingSeq' = 0
        /\ lost' = IF pendingSeq = 0 THEN lost ELSE lost \cup {pendingSeq}
    BY <1>13 DEF ClearPending, Abandoned
  <2>2. ASSUME phase # "none", NEW s \in 1..(nextSeq - 1)
        PROVE  (\E i \in 1..Len(file) : file[i].seq = s) \/ s \in lost'
    <3>1. s # 0
      BY <2>2 DEF TypeOK
    <3> QED BY <2>1, <2>2, <3>1 DEF EveryNumberAccounted
  <2> QED BY <2>1, <2>2 DEF PausedUnclaimed, EveryNumberAccounted
<1>14. CASE UNCHANGED vars
  BY <1>1, <1>14 DEF vars, store, tasks
<1>15. CASE Drain
  BY <1>1, <1>15 DEF Drain, store, tasks
<1>16. ASSUME NEW t \in Tasks, RecordNothing(t)
       PROVE  PausedUnclaimed' /\ EveryNumberAccounted'
  BY <1>1, <1>16 DEF RecordNothing, store
<1>17. ASSUME NEW l \in Listeners, ReadTag(l) \/ Push(l)
       PROVE  PausedUnclaimed' /\ EveryNumberAccounted'
  BY <1>1, <1>17 DEF ReadTag, Push, store, tasks
<1> QED
  BY <1>2, <1>3, <1>4, <1>5, <1>6, <1>7, <1>8, <1>9, <1>10, <1>11, <1>12,
     <1>13, <1>14, <1>15, <1>16, <1>17, NextCases

-----------------------------------------------------------------------------
(* The entries and the lines.                                              *)

LEMMA SeenType ==
  ASSUME TypeOK, NEW e \in Seen
  PROVE  e \in Entries /\ e.rec \in Nat /\ e.seq \in Nat /\ e.lines \in Nat
<1>1. e \in Entries
  BY DEF TypeOK, Seen
<1> QED BY <1>1 DEF Entries

\* While nobody is tagged or pushed, only the lines matter.
LEMMA SeenSame ==
  ASSUME UNCHANGED <<network, listener>>
  PROVE  Seen' = Seen
BY DEF Seen

\* A new line comes after every entry of its recording.
LEMMA LineInTime ==
  ASSUME TypeOK, TaggedInTime, NEW x \in Lines, file' = Append(file, x),
         phase # "none", rec' = rec, UNCHANGED <<network, listener>>
  PROVE  TaggedInTime'
<1>1. /\ Len(file') = Len(file) + 1
      /\ \A i \in 1..Len(file) : file'[i] = file[i]
  BY AppendedLine DEF TypeOK
<1>2. Len(file) \in Nat
  BY DEF TypeOK
<1>3. SUFFICES ASSUME NEW e \in Seen
               PROVE  InTime(e)'
  BY SeenSame DEF TaggedInTime
<1>4. InTime(e) /\ e.lines \in Nat
  BY <1>3, SeenType DEF TaggedInTime
<1>5. ASSUME NEW i \in 1..Len(file'), e.rec = rec', e.seq = file'[i].seq
      PROVE  e.lines < i
  <2>1. CASE i \in 1..Len(file)
    BY <1>1, <1>4, <1>5, <2>1 DEF InTime
  <2>2. CASE i = Len(file) + 1
    BY <1>2, <1>4, <1>5, <2>2 DEF InTime
  <2> QED BY <1>1, <1>2, <2>1, <2>2
<1> QED BY <1>1, <1>2, <1>4, <1>5 DEF InTime

\* The tag that a listener reads is not the number of a line.
LEMMA TagIsAbove ==
  ASSUME TypeOK, NumbersOrdered, WindowBelongs, NEW i \in 1..Len(file)
  PROVE  file[i].seq # tagger
<1>1. file[i].seq \in Nat /\ 0 < file[i].seq
  BY FileLines DEF TypeOK, NumbersOrdered
<1>2. CASE tagger = pendingSeq /\ tagger # 0
  BY <1>1, <1>2 DEF TypeOK, NumbersOrdered
<1>3. CASE writer # Free /\ tagger = writer.seq
  BY <1>1, <1>3, WriterType DEF NumbersOrdered
<1>4. CASE tagger = 0
  BY <1>1, <1>4
<1> QED BY <1>2, <1>3, <1>4 DEF WindowBelongs

LEMMA EntryStep ==
  ASSUME TypeOK, NumbersOrdered, WindowBelongs, WriterRecords, TaggedInTime,
         [Next]_vars
  PROVE  TaggedInTime'
<1>1. ASSUME Seen' \subseteq Seen, rec' = rec, file' = file,
             phase' # "none" => phase # "none"
      PROVE  TaggedInTime'
  BY <1>1 DEF TaggedInTime, InTime
<1>2. ASSUME NEW k, Arm(k)
      PROVE  TaggedInTime'
  BY <1>1, <1>2, SeenSame DEF Arm, net
<1>3. CASE Write
  <2>1. Line(writer.seq, writer.kind, writer.slice) \in Lines
    BY <1>3, WriterType, LineType DEF Write
  <2> QED BY <1>3, <2>1, LineInTime DEF Write, WriterRecords, net
<1>4. CASE Pause
  <2>1. CASE pendingSeq = 0
    BY <1>1, <1>4, <2>1, SeenSame DEF Pause, net
  <2>2. CASE pendingSeq # 0
    <3>1. Line(pendingSeq, "skipped", {}) \in Lines
      BY LineType DEF TypeOK, Kinds
    <3> QED BY <1>4, <2>2, <3>1, LineInTime DEF Pause, net
  <2> QED BY <2>1, <2>2
<1>5. CASE Start
  <2>1. rec' = rec + 1 /\ file' = << >> /\ Seen' = Seen
    BY <1>5, SeenSame DEF Start, net
  <2>2. SUFFICES ASSUME NEW e \in Seen
                 PROVE  InTime(e)'
    BY <2>1 DEF TaggedInTime
  <2>3. e.rec \in Nat /\ e.rec <= rec /\ rec \in Nat
    BY <2>2, SeenType DEF TaggedInTime, InTime, TypeOK
  <2>4. e.rec <= rec' /\ e.rec # rec'
    BY <2>1, <2>3
  <2> QED BY <2>4 DEF InTime
<1>6. CASE Discard
  <2>1. rec' = rec /\ file' = << >> /\ Seen' = Seen /\ phase' = "none"
    BY <1>6, SeenSame DEF Discard, net
  <2> QED BY <2>1 DEF TaggedInTime, InTime
<1>7. CASE TakeSlice \/ StopPaused \/ Resume \/ UNCHANGED vars
  BY <1>1, <1>7, SeenSame
     DEF TakeSlice, StopPaused, Resume, vars, store, net
<1>8. CASE Stop
  BY <1>2, <1>8 DEF Stop
<1>9. ASSUME NEW t \in Tasks,
             \/ Prepare(t) \/ PrepareIdle(t) \/ RecordNothing(t)
             \/ ClearPending(t)
      PROVE  TaggedInTime'
  BY <1>1, <1>9, SeenSame
     DEF Prepare, PrepareIdle, RecordNothing, ClearPending, store, net
<1>10. ASSUME NEW t \in Tasks, Record(t)
       PROVE  TaggedInTime'
  BY <1>2, <1>10 DEF Record
<1>11. CASE Drain
  <2>1. Seen' \subseteq Seen
    BY <1>11 DEF Drain, Seen
  <2> QED BY <1>1, <1>11, <2>1 DEF Drain, store
<1>12. ASSUME NEW l \in Listeners, ReadTag(l)
       PROVE  TaggedInTime'
  <2> DEFINE x == [id |-> traffic + 1, rec |-> rec, seq |-> tagger,
                   lines |-> Len(file)]
  <2>1. /\ rec' = rec /\ file' = file /\ phase' = phase /\ network' = network
        /\ listener' = [listener EXCEPT ![l] = x]
    BY <1>12 DEF ReadTag, store
  <2>2. Seen' \subseteq Seen \cup {x}
    BY <2>1 DEF Seen, TypeOK
  <2>3. InTime(x)
    <3>1. x.rec = rec /\ x.seq = tagger /\ x.lines = Len(file)
      OBVIOUS
    <3> QED BY <3>1, TagIsAbove DEF InTime, TypeOK
  <2> HIDE DEF x
  <2> QED BY <2>1, <2>2, <2>3 DEF TaggedInTime, InTime
<1>13. ASSUME NEW l \in Listeners, Push(l)
       PROVE  TaggedInTime'
  <2>1. /\ rec' = rec /\ file' = file /\ phase' = phase
        /\ listener[l] # Free
        /\ listener' = [listener EXCEPT ![l] = Free]
    BY <1>13 DEF Push, store
  <2>2. listener[l] \in Entries /\ network \in Seq(Entries)
    BY <2>1 DEF TypeOK
  <2>3. \A j \in 1..Len(network') :
          network'[j] = listener[l] \/ \E i \in 1..Len(network) : network'[j] = network[i]
    <3>1. CASE Len(network) >= BufferSize
      <4>1. network' = Append(Tail(network), listener[l])
        BY <1>13, <3>1 DEF Push
      <4>2. network # << >>
        BY <2>2, <3>1, BufferAssumption
      <4> QED BY <2>2, <4>1, <4>2
    <3>2. CASE ~(Len(network) >= BufferSize)
      <4>1. network' = Append(network, listener[l])
        BY <1>13, <3>2 DEF Push
      <4> QED BY <2>2, <4>1
    <3> QED BY <3>1, <3>2
  <2>4. Seen' \subseteq Seen
    <3>1. ASSUME NEW k \in Listeners, listener'[k] # Free
          PROVE  listener'[k] = listener[k]
      BY <2>1, <3>1 DEF TypeOK
    <3> QED BY <2>1, <2>3, <3>1 DEF Seen
  <2> QED BY <1>1, <2>1, <2>4
<1> QED
  BY <1>3, <1>4, <1>5, <1>6, <1>7, <1>8, <1>9, <1>10, <1>11, <1>12, <1>13,
     NextCases

-----------------------------------------------------------------------------
(* The theorems.                                                           *)

\* The recorder's variables keep their types.
THEOREM TypeCorrect == Spec => []TypeOK
<1>1. Init => TypeOK
  BY DEF Init, TypeOK, Phases
<1>2. TypeOK /\ [Next]_vars => TypeOK'
  BY TypeStep
<1> QED BY <1>1, <1>2, PTL DEF Spec

LEMMA InitIInv ==
  ASSUME Init
  PROVE  IInv
<1>1. TypeOK
  BY DEF Init, TypeOK, Phases
<1> QED BY <1>1 DEF Init, IInv, SeqsIncrease, NumbersOrdered, WindowBelongs,
                    WriterRecords, BracketedByStartAndStop, PausedUnclaimed,
                    EveryNumberAccounted, TaggedInTime, Seen

\* The inductive invariant.
THEOREM Invariance == Spec => []IInv
<1>1. Init => IInv
  BY InitIInv
<1>2. IInv /\ [Next]_vars => IInv'
  BY TypeStep, OrderStep, WindowStep, BracketStep, AccountStep, EntryStep
     DEF IInv
<1> QED BY <1>1, <1>2, PTL DEF Spec

\* No seq of events.jsonl is written twice or out of order.
THEOREM OrderSafety == Spec => []SeqsIncrease
<1>1. IInv => SeqsIncrease
  BY DEF IInv
<1> QED BY <1>1, Invariance, PTL

\* An entry that its line's slice misses was tagged before the line was
\* written: no listener is given the number of a written line.
THEOREM WindowSafety == Spec => []OrphansWereTaggedEarlier
<1>1. IInv => OrphansWereTaggedEarlier
  BY DEF IInv, TaggedInTime, InTime, Seen, OrphansWereTaggedEarlier
<1> QED BY <1>1, Invariance, PTL

\* The start event is the first line, and nothing follows the stop event.
THEOREM BracketSafety == Spec => []BracketedByStartAndStop
<1>1. IInv => BracketedByStartAndStop
  BY DEF IInv
<1> QED BY <1>1, Invariance, PTL

\* Every number has its line or its marker, is claimed or being written, or
\* was given up by a later claim or a failed viewer input.
THEOREM AccountSafety == Spec => []EveryNumberAccounted
<1>1. IInv => EveryNumberAccounted
  BY DEF IInv
<1> QED BY <1>1, Invariance, PTL

\* No step writes to the events of a stopped recording.
THEOREM FrozenSafety == Spec => StoppedBundleIsFrozen
<1>1. ASSUME IInv, [Next]_vars, phase = "stopped"
      PROVE  file' = file \/ file' = << >>
  <2>1. writer = Free
    BY <1>1 DEF IInv, WriterRecords
  <2>2. CASE UNCHANGED vars
    BY <2>2 DEF vars
  <2>3. CASE Next
    BY <1>1, <2>1, <2>3, NextCases
       DEF TakeSlice, Write, Start, Stop, StopPaused, Pause, Resume, Discard,
           Drain, Prepare, PrepareIdle, Record, RecordNothing, ClearPending,
           ReadTag, Push, Arm
  <2> QED BY <1>1, <2>2, <2>3
<1>2. IInv /\ [Next]_vars
      => [phase = "stopped" => file' = file \/ file' = << >>]_vars
  BY <1>1
<1> QED BY <1>2, Invariance, PTL DEF Spec, StoppedBundleIsFrozen
=============================================================================
