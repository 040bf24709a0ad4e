---------------------------- MODULE Dispatch_proofs ----------------------------
(***************************************************************************)
(* Proofs about Dispatch, for any connections, pages and bounds.  The      *)
(* inductive invariant IInv says of each command under way, besides its    *)
(* type, where its method can be (ShapeOf), that it has an id (IdOf), how  *)
(* far its evidence is bracketed (BracketOf) and what it has left in       *)
(* DiffState if it is alone (LoneOf); and of the commands together, that   *)
(* no two share an id and that nobody is alone beside another (Apart).     *)
(***************************************************************************)
EXTENDS Dispatch, SequenceTheorems, TLAPS

\* A command that has answered its handler, and one that has its outcome.
Answered == {"finish", "diffAfter", "storeAfter", "lastEvidence", "record"}
Settled  == {"diffAfter", "storeAfter", "lastEvidence", "record"}

\* Which steps the methods take.
ShapeOf(k) ==
  /\ k.pc # "idle" => k.page \in Pages
  /\ k.method = "other" => k.pc \in {"idle", "run"}
  /\ k.pc \in {"compare", "update"} => k.method \in {"diff", "batch"}
  /\ k.pc \in {"diffBefore", "storeBefore", "diffAfter", "storeAfter"}
       => k.method = "act"
  /\ k.pc = "lastEvidence" => k.method # "act"

\* A recorded command has an id once it has begun.
IdOf(k, n) ==
  /\ k.id < n
  /\ k.id = 0 <=> k.pc \in {"idle", "begin"} \/ k.method = "other"

\* The evidence of a command, from where it is captured on.
BracketOf(k, pages) ==
  /\ k.id # 0 /\ k.pc # "evidence" =>
       /\ k.before.page = k.page /\ k.before.by = k.id
       /\ k.before.v <= pages[k.page]
  /\ k.id # 0 /\ k.pc \in {"run", "compare", "update"} \cup Answered =>
       k.before.v <= k.from /\ k.from <= pages[k.page]
  /\ k.pc \in Answered => k.to <= pages[k.page]
  /\ k.pc \in {"storeAfter", "record"} =>
       k.after.page = k.page /\ k.after.by = k.id /\ k.to <= k.after.v

\* What a command that is alone has left in DiffState.
LoneOf(k, d) ==
  /\ k.pc = "storeBefore" => k.prev.page = k.page /\ k.prev.by = k.id
  /\ k.alone = TRUE /\ k.method = "act" =>
       /\ k.pc \in {"claim", "run"} \cup Answered =>
            d.before.by = k.id /\ d.before.page = k.page
       /\ k.pc = "record" => d.after.by = k.id /\ d.after.page = k.page

Fits(k, n, pages, d) ==
  ShapeOf(k) /\ IdOf(k, n) /\ BracketOf(k, pages) /\ LoneOf(k, d)

EachFits == \A t \in Tasks : Fits(task[t], nextId, page, diff)

\* No two commands have one id, and who is alone is the only one in flight.
Apart ==
  \A t, u \in Tasks :
    t # u => /\ task[t].id # 0 => task[u].id # task[t].id
             /\ task[t].alone = TRUE => task[u].pc = "idle"

\* The history holds every action recorded so far.
Numbered == log \in Seq(Entries) /\ Len(log) = nextId - 1

IInv ==
  /\ TypeOK
  /\ EachFits
  /\ Apart
  /\ Numbered
  /\ TimelineIsWindow
  /\ RunningHasItsTask

-----------------------------------------------------------------------------
(* The commands.  Every action but Accept and PageChanges changes the      *)
(* record of one command.                                                  *)

Becomes(t, r) == r \in Commands /\ task' = [task EXCEPT ![t] = r]

\* Of the bounds, the two the proofs count with.
LEMMA Bounds == MaxTimeline \in Nat \ {0} /\ BatchSteps \in Nat \ {0}
PROOF BY BoundsAssumption

\* A capture of a page is a state.
LEMMA CaptureType ==
  ASSUME TypeOK, NEW t \in Tasks, task[t].page \in Pages
  PROVE  Capture(t) \in States
PROOF BY DEF TypeOK, Capture, States, Commands

\* A connection that waits for a request has the type of a command.
LEMMA IdleType == Idle \in Commands
PROOF BY Bounds DEF Idle, Commands, Points, Methods, Recorded, NoState

\* Of a request that comes in, the connection gets a new record; no command
\* in flight is alone any more.
LEMMA AcceptStep ==
  ASSUME TypeOK, NEW t \in Tasks, NEW m \in Methods, Accept(t, m)
  PROVE  /\ task' \in [Tasks -> Commands]
         /\ \E b \in BOOLEAN :
              /\ b = TRUE => \A w \in Tasks \ {t} : At(w, "idle")
              /\ task'[t] =
                   [Idle EXCEPT !.pc = IF m \in Recorded THEN "begin" ELSE "run",
                                !.method = m, !.page = active, !.alone = b]
         /\ \A u \in Tasks \ {t} : task'[u] = [task[u] EXCEPT !.alone = FALSE]
PROOF
  <1>1. ASSUME NEW b \in BOOLEAN
        PROVE  [Idle EXCEPT !.pc = IF m \in Recorded THEN "begin" ELSE "run",
                            !.method = m, !.page = active, !.alone = b]
                 \in Commands
    <2>1. active \in Pages \cup {None}
      BY DEF TypeOK
    <2>2. (IF m \in Recorded THEN "begin" ELSE "run") \in Points
      BY DEF Points
    <2> QED BY <2>1, <2>2, IdleType DEF Commands
  <1>2. ASSUME NEW u \in Tasks PROVE [task[u] EXCEPT !.alone = FALSE] \in Commands
    BY DEF TypeOK, Commands
  <1>3. PICK b \in BOOLEAN : b = \A w \in Tasks \ {t} : At(w, "idle")
    BY Zenon
  <1>4. task' = [u \in Tasks |->
                   IF u = t
                   THEN [Idle EXCEPT !.pc = IF m \in Recorded THEN "begin"
                                            ELSE "run",
                                     !.method = m, !.page = active,
                                     !.alone = b]
                   ELSE [task[u] EXCEPT !.alone = FALSE]]
    BY <1>3, Zenon DEF Accept
  <1>5. b = TRUE => \A w \in Tasks \ {t} : At(w, "idle")
    BY <1>3, Zenon
  <1> QED BY <1>1, <1>2, <1>4, <1>5

\* What each step makes of the record of its command.
Begun(t) == [task[t] EXCEPT !.pc = "evidence", !.id = nextId]
Evidenced(t) ==
  [task[t] EXCEPT !.before = Capture(t),
     !.pc = IF task[t].method = "act" THEN "diffBefore" ELSE "claim"]
BeforeCaptured(t) ==
  [task[t] EXCEPT !.prev = Capture(t), !.pc = "storeBefore"]
BeforeStored(t) == [task[t] EXCEPT !.pc = "claim", !.prev = NoState]
Claimed(t) == [task[t] EXCEPT !.pc = "run", !.from = page[task[t].page]]
Concluded(t) ==
  [task[t] EXCEPT !.status = "ok",
     !.pc = IF task[t].method = "act" THEN "diffAfter" ELSE "lastEvidence"]
AfterCaptured(t) ==
  [task[t] EXCEPT !.after = Capture(t), !.pc = "storeAfter"]
AfterStored(t) == [task[t] EXCEPT !.pc = "record"]
LastCaptured(t) == [task[t] EXCEPT !.after = Capture(t), !.pc = "record"]
Answer(t, status) ==
  [task[t] EXCEPT !.pc = "finish", !.status = status,
                  !.to = page'[task[t].page],
                  !.prev = NoState, !.after = NoState, !.steps = 0]
AtNextStep(t) == [task[t] EXCEPT !.steps = @ + 1]
Captured(t) == [task[t] EXCEPT !.pc = "compare", !.after = Capture(t)]
Compared(t, s) == [task[t] EXCEPT !.prev = s, !.pc = "update"]
Updated(t) == [task[t] EXCEPT !.pc = "run", !.steps = @ + 1,
                              !.prev = NoState, !.after = NoState]

\* A page may change once, by the command that runs on it; it never goes back.
PageMoves == page' \in [Pages -> Nat] /\ \A p \in Pages : page[p] <= page'[p]

\* A page that changes by itself only counts up.
LEMMA PageSteps ==
  ASSUME TypeOK,
         page' = page \/ \E p \in Pages : page' = [page EXCEPT ![p] = @ + 1]
  PROVE  PageMoves
PROOF BY DEF TypeOK, PageMoves

\* A handler's answer, ok or error, leaves a command of its type.
LEMMA AnswerType ==
  ASSUME TypeOK, PageMoves, NEW t \in Tasks, task[t].page \in Pages,
         NEW s \in {"ok", "error"}
  PROVE  Answer(t, s) \in Commands
PROOF
  <1>1. task[t] \in Commands /\ page'[task[t].page] \in Nat
    BY DEF TypeOK, PageMoves
  <1>2. 0 \in 0 .. BatchSteps - 1 /\ "finish" \in Points
    BY Bounds DEF Points
  <1> QED BY <1>1, <1>2 DEF Answer, Commands

\* The steps around the handler.
LEMMA AroundSteps ==
  ASSUME TypeOK, NEW t \in Tasks, ShapeOf(task[t])
  PROVE  /\ BeginAction(t) => Becomes(t, Begun(t))
         /\ CaptureEvidence(t) => Becomes(t, Evidenced(t))
         /\ CaptureDiffBefore(t) => Becomes(t, BeforeCaptured(t))
         /\ StoreBefore(t) => Becomes(t, BeforeStored(t))
         /\ Claim(t) => Becomes(t, Claimed(t))
         /\ FinishAction(t) => Becomes(t, Concluded(t))
         /\ CaptureDiffAfter(t) => Becomes(t, AfterCaptured(t))
         /\ StoreAfter(t) => Becomes(t, AfterStored(t))
         /\ CaptureLastEvidence(t) => Becomes(t, LastCaptured(t))
         /\ Record(t) => Becomes(t, Idle)
PROOF
  <1>1. task[t] \in Commands
    BY DEF TypeOK
  <1>2. task[t].pc # "idle" =>
          /\ Capture(t) \in States
          /\ page[task[t].page] \in Nat
    BY CaptureType DEF TypeOK, ShapeOf
  <1>3. ASSUME BeginAction(t) PROVE Becomes(t, Begun(t))
    <2>1. Begun(t) \in Commands
      BY <1>1 DEF TypeOK, Begun, Commands, Points
    <2> QED BY <1>3, <2>1 DEF BeginAction, Becomes, Begun
  <1>4. ASSUME CaptureEvidence(t) PROVE Becomes(t, Evidenced(t))
    <2>1. Evidenced(t) \in Commands
      BY <1>1, <1>2, <1>4
      DEF CaptureEvidence, At, Evidenced, Commands, Points
    <2> QED BY <1>4, <2>1 DEF CaptureEvidence, Becomes, Evidenced
  <1>5. ASSUME CaptureDiffBefore(t) PROVE Becomes(t, BeforeCaptured(t))
    <2>1. BeforeCaptured(t) \in Commands
      BY <1>1, <1>2, <1>5
      DEF CaptureDiffBefore, At, BeforeCaptured, Commands, Points
    <2> QED BY <1>5, <2>1 DEF CaptureDiffBefore, Becomes, BeforeCaptured
  <1>6. ASSUME StoreBefore(t) PROVE Becomes(t, BeforeStored(t))
    <2>1. BeforeStored(t) \in Commands
      BY <1>1 DEF BeforeStored, Commands, Points
    <2> QED BY <1>6, <2>1 DEF StoreBefore, Becomes, BeforeStored
  <1>7. ASSUME Claim(t) PROVE Becomes(t, Claimed(t))
    <2>1. Claimed(t) \in Commands
      BY <1>1, <1>2, <1>7 DEF Claim, At, Claimed, Commands, Points
    <2> QED BY <1>7, <2>1 DEF Claim, Becomes, Claimed
  <1>8. ASSUME FinishAction(t) PROVE Becomes(t, Concluded(t))
    <2> DEFINE p == IF task[t].method = "act" THEN "diffAfter"
                    ELSE "lastEvidence"
    <2>1. p \in Points
      BY DEF Points
    <2> HIDE DEF p
    <2>2. [task[t] EXCEPT !.status = "ok", !.pc = p] \in Commands
      BY <1>1, <2>1 DEF Commands
    <2> QED BY <1>8, <2>2 DEF FinishAction, Finished, Becomes, Concluded, p
  <1>9. ASSUME CaptureDiffAfter(t) PROVE Becomes(t, AfterCaptured(t))
    <2>1. AfterCaptured(t) \in Commands
      BY <1>1, <1>2, <1>9
      DEF CaptureDiffAfter, At, AfterCaptured, Commands, Points
    <2> QED BY <1>9, <2>1 DEF CaptureDiffAfter, Becomes, AfterCaptured
  <1>10. ASSUME StoreAfter(t) PROVE Becomes(t, AfterStored(t))
    <2>1. AfterStored(t) \in Commands
      BY <1>1 DEF AfterStored, Commands, Points
    <2> QED BY <1>10, <2>1 DEF StoreAfter, Goto, Becomes, AfterStored
  <1>11. ASSUME CaptureLastEvidence(t) PROVE Becomes(t, LastCaptured(t))
    <2>1. LastCaptured(t) \in Commands
      BY <1>1, <1>2, <1>11
      DEF CaptureLastEvidence, At, LastCaptured, Commands, Points
    <2> QED BY <1>11, <2>1 DEF CaptureLastEvidence, Becomes, LastCaptured
  <1>12. ASSUME Record(t) PROVE Becomes(t, Idle)
    BY <1>12, IdleType DEF Record, Becomes
  <1> QED
    BY <1>3, <1>4, <1>5, <1>6, <1>7, <1>8, <1>9, <1>10, <1>11, <1>12

\* The steps of the handlers.
LEMMA HandlerSteps ==
  ASSUME TypeOK, NEW t \in Tasks, ShapeOf(task[t])
  PROVE  /\ RunOther(t) => Becomes(t, Idle)
         /\ \A s \in {"ok", "error"} :
              RunAct(t, s) => PageMoves /\ Becomes(t, Answer(t, s))
         /\ \A passes, stop \in BOOLEAN : RunBatchStep(t, passes, stop) =>
              /\ PageMoves
              /\ Becomes(t, Answer(t, "ok")) \/ Becomes(t, AtNextStep(t))
         /\ RunDiff(t) => Becomes(t, Captured(t))
         /\ \A since \in BOOLEAN : DiffRead(t, since) =>
              \E s \in States \cup {NoState} : Becomes(t, Compared(t, s))
         /\ DiffUpdate(t) =>
              Becomes(t, Answer(t, "ok")) \/ Becomes(t, Updated(t))
PROOF
  <1>1. task[t] \in Commands /\ page \in [Pages -> Nat]
    BY DEF TypeOK
  <1>2. task[t].pc # "idle" => Capture(t) \in States /\ task[t].page \in Pages
    BY CaptureType DEF ShapeOf
  <1>3. ASSUME task[t].page \in Pages, PageMoves, NEW s \in {"ok", "error"},
               Respond(t, s)
        PROVE  Becomes(t, Answer(t, s))
    BY <1>3, AnswerType DEF Respond, Answer, Becomes
  <1>4. ASSUME RunOther(t) PROVE Becomes(t, Idle)
    BY <1>4, IdleType DEF RunOther, Becomes
  <1>5. ASSUME NEW s \in {"ok", "error"}, RunAct(t, s)
        PROVE  PageMoves /\ Becomes(t, Answer(t, s))
    <2>1. PageMoves
      BY <1>2, <1>5, PageSteps DEF RunAct, At
    <2> QED BY <1>2, <1>3, <1>5, <2>1 DEF RunAct, At
  <1>6. ASSUME NEW passes \in BOOLEAN, NEW stop \in BOOLEAN,
               RunBatchStep(t, passes, stop)
        PROVE  /\ PageMoves
               /\ Becomes(t, Answer(t, "ok")) \/ Becomes(t, AtNextStep(t))
    <2>1. PageMoves
      BY <1>2, <1>6, PageSteps DEF RunBatchStep, At
    <2>2. CASE task[t].steps + 1 = BatchSteps \/ (~passes /\ stop)
      BY <1>2, <1>3, <1>6, <2>1, <2>2 DEF RunBatchStep, At
    <2>3. CASE ~(task[t].steps + 1 = BatchSteps \/ (~passes /\ stop))
      <3>1. AtNextStep(t) \in Commands
        BY <1>1, <2>3, Bounds DEF AtNextStep, Commands
      <3>2. task' = [task EXCEPT ![t] = AtNextStep(t)]
        BY <1>6, <2>3 DEF RunBatchStep, AtNextStep
      <3> QED BY <2>1, <3>1, <3>2 DEF Becomes
    <2> QED BY <2>2, <2>3
  <1>7. ASSUME RunDiff(t) PROVE Becomes(t, Captured(t))
    <2>1. Captured(t) \in Commands
      BY <1>1, <1>2, <1>7 DEF RunDiff, At, Captured, Commands, Points
    <2> QED BY <1>7, <2>1 DEF RunDiff, Becomes, Captured
  <1>8. ASSUME NEW since \in BOOLEAN, DiffRead(t, since)
        PROVE  \E s \in States \cup {NoState} : Becomes(t, Compared(t, s))
    <2> DEFINE s == IF since \/ diff.after = NoState THEN diff.before
                    ELSE diff.after
    <2>1. s \in States \cup {NoState}
      BY DEF TypeOK
    <2>2. Compared(t, s) \in Commands
      BY <1>1, <2>1 DEF Compared, Commands, Points
    <2> QED BY <1>8, <2>1, <2>2 DEF DiffRead, Becomes, Compared
  <1>9. ASSUME DiffUpdate(t)
        PROVE  Becomes(t, Answer(t, "ok")) \/ Becomes(t, Updated(t))
    <2>1. PageMoves
      BY <1>9, PageSteps DEF DiffUpdate
    <2>2. CASE task[t].method = "diff" \/ task[t].steps + 1 = BatchSteps
      BY <1>2, <1>3, <1>9, <2>1, <2>2 DEF DiffUpdate, At
    <2>3. CASE ~(task[t].method = "diff" \/ task[t].steps + 1 = BatchSteps)
      <3>1. Updated(t) \in Commands
        <4>1. task[t].steps + 1 \in 0 .. BatchSteps - 1
          BY <1>1, <2>3, Bounds DEF Commands
        <4>2. "run" \in Points
          BY DEF Points
        <4> QED BY <1>1, <4>1, <4>2 DEF Updated, Commands
      <3>2. task' = [task EXCEPT ![t] = Updated(t)]
        BY <1>9, <2>3 DEF DiffUpdate, Updated
      <3> QED BY <3>1, <3>2 DEF Becomes
    <2> QED BY <2>2, <2>3
  <1> QED BY <1>4, <1>5, <1>6, <1>7, <1>8, <1>9

\* What fits a command goes on fitting it: ids only grow and pages only move
\* on, and only who is alone cares for DiffState.
LEMMA FitsLater ==
  ASSUME NEW k \in Commands, NEW n \in Nat, NEW m \in Nat, n <= m,
         NEW pages \in [Pages -> Nat], NEW later \in [Pages -> Nat],
         \A p \in Pages : pages[p] <= later[p],
         NEW d, NEW e, d = e \/ k.alone # TRUE \/ k.pc = "idle",
         Fits(k, n, pages, d)
  PROVE  Fits(k, m, later, e)
PROOF
  <1>1. ShapeOf(k) /\ IdOf(k, n) /\ BracketOf(k, pages) /\ LoneOf(k, d)
    BY DEF Fits
  <1>2. IdOf(k, m)
    <2>1. k.id \in Nat
      BY DEF Commands
    <2> QED BY <1>1, <2>1 DEF IdOf
  <1>3. BracketOf(k, later)
    <2>1. k.pc # "idle" => k.page \in Pages /\ pages[k.page] <= later[k.page]
      BY <1>1 DEF ShapeOf
    <2>2. k.pc # "idle" => pages[k.page] \in Nat /\ later[k.page] \in Nat
      BY <2>1
    <2>3. k.from \in Nat /\ k.to \in Nat
      BY DEF Commands
    <2>4. k.id # 0 => k.pc # "idle"
      BY <1>1 DEF IdOf
    <2>5. k.before.v \in Nat
      BY DEF Commands, States, NoState
    <2>6. k.pc \in Answered => k.pc # "idle"
      BY DEF Answered
    <2>7. /\ k.id # 0 /\ k.pc # "evidence" => k.before.v <= later[k.page]
          /\ k.id # 0 /\ k.pc \in {"run", "compare", "update"} \cup Answered =>
               k.from <= later[k.page]
          /\ k.pc \in Answered => k.to <= later[k.page]
      BY <1>1, <2>1, <2>2, <2>3, <2>4, <2>5, <2>6 DEF BracketOf
    <2> QED BY <1>1, <2>7 DEF BracketOf
  <1>4. LoneOf(k, e)
    BY <1>1 DEF LoneOf, Answered
  <1> QED BY <1>1, <1>2, <1>3, <1>4 DEF Fits

\* A step of one command that leaves its own record fitting: the other
\* records still fit and the commands are still apart.
LEMMA OneChanges ==
  ASSUME TypeOK, EachFits, Apart, NEW t \in Tasks, NEW r, Becomes(t, r),
         task[t].pc # "idle", PageMoves,
         nextId' \in Nat, nextId <= nextId',
         r.id \in {task[t].id, nextId, 0},
         r.alone = TRUE => task[t].alone = TRUE,
         Fits(r, nextId', page', diff')
  PROVE  EachFits' /\ Apart'
PROOF
  <1>1. task \in [Tasks -> Commands] /\ nextId \in Nat \ {0}
        /\ page \in [Pages -> Nat]
    BY DEF TypeOK
  <1>2. task'[t] = r /\ \A u \in Tasks \ {t} : task'[u] = task[u]
    BY <1>1 DEF Becomes
  <1>3. ASSUME NEW u \in Tasks PROVE Fits(task'[u], nextId', page', diff')
    <2>1. CASE u = t
      BY <1>2, <2>1
    <2>2. CASE u # t
      <3>1. task[u].alone # TRUE
        BY <2>2 DEF Apart
      <3>2. Fits(task[u], nextId, page, diff)
        BY DEF EachFits
      <3>3. task[u] \in Commands /\ page' \in [Pages -> Nat]
            /\ \A p \in Pages : page[p] <= page'[p]
        BY <1>1 DEF PageMoves
      <3>4. Fits(task[u], nextId', page', diff')
        BY <1>1, <3>1, <3>2, <3>3, FitsLater
      <3> QED BY <1>2, <2>2, <3>4
    <2> QED BY <2>1, <2>2
  <1>4. ASSUME NEW u \in Tasks PROVE task[u].id \in Nat /\ task[u].id < nextId
    BY <1>1 DEF EachFits, Fits, IdOf, Commands
  <1>5. ASSUME NEW u \in Tasks, NEW w \in Tasks, u # w
        PROVE  /\ task'[u].id # 0 => task'[w].id # task'[u].id
               /\ task'[u].alone = TRUE => task'[w].pc = "idle"
    <2>1. /\ task[u].id # 0 => task[w].id # task[u].id
          /\ task[w].id # 0 => task[u].id # task[w].id
          /\ task[u].alone = TRUE => task[w].pc = "idle"
      BY <1>5 DEF Apart
    <2>2. task[u].id # nextId /\ task[w].id # nextId
      BY <1>1, <1>4
    <2>3. CASE u = t
      BY <1>2, <1>5, <2>1, <2>2, <2>3
    <2>4. CASE w = t
      BY <1>2, <1>5, <2>1, <2>2, <2>4
    <2>5. CASE u # t /\ w # t
      BY <1>2, <2>1, <2>5
    <2> QED BY <2>3, <2>4, <2>5
  <1> QED BY <1>3, <1>5 DEF EachFits, Apart

\* The steps around the handler leave every record fitting.
LEMMA AroundFits ==
  ASSUME TypeOK, EachFits, Apart, NEW t \in Tasks,
         Around(t), \A m \in Methods : ~Accept(t, m)
  PROVE  EachFits' /\ Apart'
PROOF
  <1>1. task[t] \in Commands /\ nextId \in Nat \ {0} /\ page \in [Pages -> Nat]
    BY DEF TypeOK
  <1>2. Fits(task[t], nextId, page, diff) /\ ShapeOf(task[t])
    BY DEF EachFits, Fits
  <1>3. ASSUME BeginAction(t) PROVE EachFits' /\ Apart'
    <2>1. Becomes(t, Begun(t))
      BY <1>2, <1>3, AroundSteps
    <2>2. PageMoves /\ task[t].pc # "idle" /\ nextId' = nextId + 1
      BY <1>3, PageSteps DEF BeginAction, At, timeline
    <2>3. Fits(Begun(t), nextId', page', diff')
      BY <1>1, <1>2, <1>3
      DEF BeginAction, At, timeline, Begun, Capture, NoState, Commands, Fits,
          ShapeOf, IdOf, BracketOf, LoneOf, Answered
    <2>4. /\ Begun(t).id \in {task[t].id, nextId, 0}
          /\ Begun(t).alone = TRUE => task[t].alone = TRUE
      BY <1>1 DEF Begun, Commands
    <2>5. nextId' \in Nat /\ nextId <= nextId'
      BY <1>1, <2>2
    <2> QED BY <2>1, <2>2, <2>3, <2>4, <2>5, OneChanges, Zenon
  <1>4. ASSUME CaptureEvidence(t) PROVE EachFits' /\ Apart'
    <2>1. Becomes(t, Evidenced(t))
      BY <1>2, <1>4, AroundSteps
    <2>2. PageMoves /\ task[t].pc # "idle" /\ nextId' = nextId
      BY <1>4, PageSteps DEF CaptureEvidence, At, timeline
    <2>3. Fits(Evidenced(t), nextId', page', diff')
      BY <1>1, <1>2, <1>4
      DEF CaptureEvidence, At, timeline, Evidenced, Capture, NoState, Commands,
          Fits, ShapeOf, IdOf, BracketOf, LoneOf, Answered
    <2>4. /\ Evidenced(t).id \in {task[t].id, nextId, 0}
          /\ Evidenced(t).alone = TRUE => task[t].alone = TRUE
      BY <1>1 DEF Evidenced, Commands
    <2>5. nextId' \in Nat /\ nextId <= nextId'
      BY <1>1, <2>2
    <2> QED BY <2>1, <2>2, <2>3, <2>4, <2>5, OneChanges, Zenon
  <1>5. ASSUME CaptureDiffBefore(t) PROVE EachFits' /\ Apart'
    <2>1. Becomes(t, BeforeCaptured(t))
      BY <1>2, <1>5, AroundSteps
    <2>2. PageMoves /\ task[t].pc # "idle" /\ nextId' = nextId
      BY <1>5, PageSteps DEF CaptureDiffBefore, At, timeline
    <2>3. Fits(BeforeCaptured(t), nextId', page', diff')
      BY <1>1, <1>2, <1>5
      DEF CaptureDiffBefore, At, timeline, BeforeCaptured, Capture, NoState,
          Commands, Fits, ShapeOf, IdOf, BracketOf, LoneOf, Answered
    <2>4. /\ BeforeCaptured(t).id \in {task[t].id, nextId, 0}
          /\ BeforeCaptured(t).alone = TRUE => task[t].alone = TRUE
      BY <1>1 DEF BeforeCaptured, Commands
    <2>5. nextId' \in Nat /\ nextId <= nextId'
      BY <1>1, <2>2
    <2> QED BY <2>1, <2>2, <2>3, <2>4, <2>5, OneChanges, Zenon
  <1>6. ASSUME StoreBefore(t) PROVE EachFits' /\ Apart'
    <2>1. Becomes(t, BeforeStored(t))
      BY <1>2, <1>6, AroundSteps
    <2>2. PageMoves /\ task[t].pc # "idle" /\ nextId' = nextId
      BY <1>6, PageSteps DEF StoreBefore, At, timeline
    <2>3. Fits(BeforeStored(t), nextId', page', diff')
      BY <1>1, <1>2, <1>6
      DEF StoreBefore, At, timeline, BeforeStored, Capture, NoState, Commands,
          Fits, ShapeOf, IdOf, BracketOf, LoneOf, Answered
    <2>4. /\ BeforeStored(t).id \in {task[t].id, nextId, 0}
          /\ BeforeStored(t).alone = TRUE => task[t].alone = TRUE
      BY <1>1 DEF BeforeStored, Commands
    <2>5. nextId' \in Nat /\ nextId <= nextId'
      BY <1>1, <2>2
    <2> QED BY <2>1, <2>2, <2>3, <2>4, <2>5, OneChanges, Zenon
  <1>7. ASSUME Claim(t) PROVE EachFits' /\ Apart'
    <2>1. Becomes(t, Claimed(t))
      BY <1>2, <1>7, AroundSteps
    <2>2. PageMoves /\ task[t].pc # "idle" /\ nextId' = nextId
      BY <1>7, PageSteps DEF Claim, At, timeline
    <2>3. Fits(Claimed(t), nextId', page', diff')
      BY <1>1, <1>2, <1>7
      DEF Claim, At, timeline, Claimed, Capture, NoState, Commands, Fits,
          ShapeOf, IdOf, BracketOf, LoneOf, Answered
    <2>4. /\ Claimed(t).id \in {task[t].id, nextId, 0}
          /\ Claimed(t).alone = TRUE => task[t].alone = TRUE
      BY <1>1 DEF Claimed, Commands
    <2>5. nextId' \in Nat /\ nextId <= nextId'
      BY <1>1, <2>2
    <2> QED BY <2>1, <2>2, <2>3, <2>4, <2>5, OneChanges, Zenon
  <1>8. ASSUME FinishAction(t) PROVE EachFits' /\ Apart'
    <2>1. Becomes(t, Concluded(t))
      BY <1>2, <1>8, AroundSteps
    <2>2. PageMoves /\ task[t].pc # "idle" /\ nextId' = nextId
      BY <1>8, PageSteps DEF FinishAction, At, timeline
    <2>3. Fits(Concluded(t), nextId', page', diff')
      BY <1>1, <1>2, <1>8
      DEF FinishAction, At, timeline, Concluded, Capture, NoState, Commands,
          Fits, ShapeOf, IdOf, BracketOf, LoneOf, Answered
    <2>4. /\ Concluded(t).id \in {task[t].id, nextId, 0}
          /\ Concluded(t).alone = TRUE => task[t].alone = TRUE
      BY <1>1 DEF Concluded, Commands
    <2>5. nextId' \in Nat /\ nextId <= nextId'
      BY <1>1, <2>2
    <2> QED BY <2>1, <2>2, <2>3, <2>4, <2>5, OneChanges, Zenon
  <1>9. ASSUME CaptureDiffAfter(t) PROVE EachFits' /\ Apart'
    <2>1. Becomes(t, AfterCaptured(t))
      BY <1>2, <1>9, AroundSteps
    <2>2. PageMoves /\ task[t].pc # "idle" /\ nextId' = nextId
      BY <1>9, PageSteps DEF CaptureDiffAfter, At, timeline
    <2>3. Fits(AfterCaptured(t), nextId', page', diff')
      BY <1>1, <1>2, <1>9
      DEF CaptureDiffAfter, At, timeline, AfterCaptured, Capture, NoState,
          Commands, Fits, ShapeOf, IdOf, BracketOf, LoneOf, Answered
    <2>4. /\ AfterCaptured(t).id \in {task[t].id, nextId, 0}
          /\ AfterCaptured(t).alone = TRUE => task[t].alone = TRUE
      BY <1>1 DEF AfterCaptured, Commands
    <2>5. nextId' \in Nat /\ nextId <= nextId'
      BY <1>1, <2>2
    <2> QED BY <2>1, <2>2, <2>3, <2>4, <2>5, OneChanges, Zenon
  <1>10. ASSUME StoreAfter(t) PROVE EachFits' /\ Apart'
    <2>1. Becomes(t, AfterStored(t))
      BY <1>2, <1>10, AroundSteps
    <2>2. PageMoves /\ task[t].pc # "idle" /\ nextId' = nextId
      BY <1>10, PageSteps DEF StoreAfter, At, timeline
    <2>3. Fits(AfterStored(t), nextId', page', diff')
      BY <1>1, <1>2, <1>10
      DEF StoreAfter, At, timeline, AfterStored, Capture, NoState, Commands,
          Fits, ShapeOf, IdOf, BracketOf, LoneOf, Answered
    <2>4. /\ AfterStored(t).id \in {task[t].id, nextId, 0}
          /\ AfterStored(t).alone = TRUE => task[t].alone = TRUE
      BY <1>1 DEF AfterStored, Commands
    <2>5. nextId' \in Nat /\ nextId <= nextId'
      BY <1>1, <2>2
    <2> QED BY <2>1, <2>2, <2>3, <2>4, <2>5, OneChanges, Zenon
  <1>11. ASSUME CaptureLastEvidence(t) PROVE EachFits' /\ Apart'
    <2>1. Becomes(t, LastCaptured(t))
      BY <1>2, <1>11, AroundSteps
    <2>2. PageMoves /\ task[t].pc # "idle" /\ nextId' = nextId
      BY <1>11, PageSteps DEF CaptureLastEvidence, At, timeline
    <2>3. Fits(LastCaptured(t), nextId', page', diff')
      BY <1>1, <1>2, <1>11
      DEF CaptureLastEvidence, At, timeline, LastCaptured, Capture, NoState,
          Commands, Fits, ShapeOf, IdOf, BracketOf, LoneOf, Answered
    <2>4. /\ LastCaptured(t).id \in {task[t].id, nextId, 0}
          /\ LastCaptured(t).alone = TRUE => task[t].alone = TRUE
      BY <1>1 DEF LastCaptured, Commands
    <2>5. nextId' \in Nat /\ nextId <= nextId'
      BY <1>1, <2>2
    <2> QED BY <2>1, <2>2, <2>3, <2>4, <2>5, OneChanges, Zenon
  <1>12. ASSUME Record(t) PROVE EachFits' /\ Apart'
    <2>1. Becomes(t, Idle)
      BY <1>2, <1>12, AroundSteps
    <2>2. PageMoves /\ task[t].pc # "idle" /\ nextId' = nextId
      BY <1>12, PageSteps DEF Record, At, timeline
    <2>3. Fits(Idle, nextId', page', diff')
      BY <1>1, <1>2, <1>12
      DEF Record, At, timeline, Idle, Capture, NoState, Commands, Fits,
          ShapeOf, IdOf, BracketOf, LoneOf, Answered
    <2>4. /\ Idle.id \in {task[t].id, nextId, 0}
          /\ Idle.alone = TRUE => task[t].alone = TRUE
      BY <1>1 DEF Idle, Commands
    <2>5. nextId' \in Nat /\ nextId <= nextId'
      BY <1>1, <2>2
    <2> QED BY <2>1, <2>2, <2>3, <2>4, <2>5, OneChanges, Zenon
  <1> QED
    BY <1>3, <1>4, <1>5, <1>6, <1>7, <1>8, <1>9, <1>10, <1>11, <1>12 DEF Around

\* An answer fits whatever its handler did to the page of the command.
LEMMA AnswerFits ==
  ASSUME TypeOK, EachFits, PageMoves, NEW t \in Tasks,
         task[t].pc \in {"run", "update"}, task[t].method # "other",
         NEW s \in {"ok", "error"}, NEW d,
         task[t].method = "act" => d = diff
  PROVE  /\ Fits(Answer(t, s), nextId, page', d)
         /\ Answer(t, s).id = task[t].id
         /\ Answer(t, s).alone = TRUE => task[t].alone = TRUE
PROOF
  <1>1. task[t] \in Commands /\ nextId \in Nat \ {0} /\ page \in [Pages -> Nat]
    BY DEF TypeOK
  <1>2. Fits(task[t], nextId, page, diff) /\ task[t].page \in Pages
    BY DEF EachFits, Fits, ShapeOf
  <1>3. /\ page'[task[t].page] \in Nat /\ page[task[t].page] \in Nat
        /\ page[task[t].page] <= page'[task[t].page]
    BY <1>1, <1>2 DEF PageMoves
  <1>4. task[t].before.v \in Nat
    BY <1>1 DEF Commands, States, NoState
  <1> QED
    BY <1>1, <1>2, <1>3, <1>4
    DEF Answer, Commands, Fits, ShapeOf, IdOf, BracketOf, LoneOf, Answered

\* The steps of the handlers leave every record fitting.
LEMMA HandlerFits ==
  ASSUME TypeOK, EachFits, Apart, NEW t \in Tasks, Handler(t)
  PROVE  EachFits' /\ Apart'
PROOF
  <1>1. task[t] \in Commands /\ nextId \in Nat \ {0} /\ page \in [Pages -> Nat]
    BY DEF TypeOK
  <1>2. Fits(task[t], nextId, page, diff) /\ ShapeOf(task[t])
    BY DEF EachFits, Fits
  <1>3. task[t].pc # "idle" /\ nextId' = nextId
    BY
    DEF Handler, RunOther, RunAct, RunBatchStep, RunDiff, DiffRead, DiffUpdate,
           At, timeline
  <1>4. nextId' \in Nat /\ nextId <= nextId'
    BY <1>1, <1>3
  <1>5. ASSUME NEW r, PageMoves, Becomes(t, r), Fits(r, nextId', page', diff'),
               r.id \in {task[t].id, 0}, r.alone = TRUE => task[t].alone = TRUE
        PROVE  EachFits' /\ Apart'
    BY <1>3, <1>4, <1>5, OneChanges, Zenon
  <1>6. ASSUME NEW s \in {"ok", "error"}, PageMoves, Becomes(t, Answer(t, s)),
               task[t].pc \in {"run", "update"}, task[t].method # "other",
               task[t].method = "act" => diff' = diff
        PROVE  EachFits' /\ Apart'
    <2>1. /\ Fits(Answer(t, s), nextId', page', diff')
          /\ Answer(t, s).id = task[t].id
          /\ Answer(t, s).alone = TRUE => task[t].alone = TRUE
      BY <1>3, <1>6, AnswerFits
    <2> QED BY <1>5, <1>6, <2>1
  <1>7. CASE RunOther(t)
    <2>1. PageMoves /\ Becomes(t, Idle)
      BY <1>2, <1>7, HandlerSteps, PageSteps DEF RunOther
    <2>2. Fits(Idle, nextId', page', diff')
      BY <1>1, <1>4
      DEF Idle, NoState, Fits, ShapeOf, IdOf, BracketOf, LoneOf, Answered
    <2>3. Idle.id = 0 /\ Idle.alone # TRUE
      BY DEF Idle
    <2> QED BY <1>5, <2>1, <2>2, <2>3
  <1>8. ASSUME NEW s \in {"ok", "error"}, RunAct(t, s)
        PROVE  EachFits' /\ Apart'
    <2>1. PageMoves /\ Becomes(t, Answer(t, s))
      BY <1>2, <1>8, HandlerSteps
    <2>2. task[t].pc = "run" /\ task[t].method \in {"act", "plain"}
          /\ diff' = diff
      BY <1>8 DEF RunAct, At
    <2> QED BY <1>6, <2>1, <2>2
  <1>9. ASSUME NEW passes \in BOOLEAN, NEW stop \in BOOLEAN,
               RunBatchStep(t, passes, stop)
        PROVE  EachFits' /\ Apart'
    <2>1. /\ PageMoves
          /\ Becomes(t, Answer(t, "ok")) \/ Becomes(t, AtNextStep(t))
      BY <1>2, <1>9, HandlerSteps
    <2>2. task[t].pc = "run" /\ task[t].method = "batch" /\ diff' = diff
      BY <1>9 DEF RunBatchStep, At
    <2>3. CASE Becomes(t, Answer(t, "ok"))
      BY <1>6, <2>1, <2>2, <2>3
    <2>4. CASE Becomes(t, AtNextStep(t))
      <3>1. Fits(task[t], nextId', page', diff')
        <4>1. page' \in [Pages -> Nat] /\ \A p \in Pages : page[p] <= page'[p]
          BY <2>1 DEF PageMoves
        <4>2. nextId <= nextId
          BY <1>1
        <4>3. Fits(task[t], nextId, page', diff)
          BY <1>1, <1>2, <4>1, <4>2, FitsLater
        <4> QED BY <1>3, <2>2, <4>3
      <3>2. Fits(AtNextStep(t), nextId', page', diff')
        BY <1>1, <3>1 DEF AtNextStep, Commands, Fits, ShapeOf, IdOf, BracketOf,
                          LoneOf, Answered
      <3>3. /\ AtNextStep(t).id = task[t].id
            /\ AtNextStep(t).alone = TRUE => task[t].alone = TRUE
        BY <1>1 DEF AtNextStep, Commands
      <3> QED BY <1>5, <2>1, <2>4, <3>2, <3>3
    <2> QED BY <2>1, <2>3, <2>4
  <1>10. CASE RunDiff(t)
    <2>1. PageMoves /\ Becomes(t, Captured(t))
      BY <1>2, <1>10, HandlerSteps, PageSteps DEF RunDiff
    <2>2. Fits(Captured(t), nextId', page', diff')
      BY <1>1, <1>2, <1>3, <1>10
      DEF RunDiff, At, Captured, Commands, Fits, ShapeOf, IdOf, BracketOf,
          LoneOf, Answered
    <2>3. /\ Captured(t).id = task[t].id
          /\ Captured(t).alone = TRUE => task[t].alone = TRUE
      BY <1>1 DEF Captured, Commands
    <2> QED BY <1>5, <2>1, <2>2, <2>3
  <1>11. ASSUME NEW since \in BOOLEAN, DiffRead(t, since)
         PROVE  EachFits' /\ Apart'
    <2>1. PageMoves
      BY <1>11, PageSteps DEF DiffRead
    <2>2. PICK s \in States \cup {NoState} : Becomes(t, Compared(t, s))
      BY <1>2, <1>11, HandlerSteps
    <2>3. Fits(Compared(t, s), nextId', page', diff')
      BY <1>1, <1>2, <1>3, <1>11
      DEF DiffRead, At, Compared, Commands, Fits, ShapeOf, IdOf, BracketOf,
          LoneOf, Answered
    <2>4. /\ Compared(t, s).id = task[t].id
          /\ Compared(t, s).alone = TRUE => task[t].alone = TRUE
      BY <1>1 DEF Compared, Commands
    <2> QED BY <1>5, <2>1, <2>2, <2>3, <2>4
  <1>12. CASE DiffUpdate(t)
    <2>1. /\ PageMoves
          /\ Becomes(t, Answer(t, "ok")) \/ Becomes(t, Updated(t))
      BY <1>2, <1>12, HandlerSteps, PageSteps DEF DiffUpdate
    <2>2. task[t].pc = "update" /\ page' = page
          /\ task[t].method \in {"diff", "batch"}
      BY <1>2, <1>12 DEF DiffUpdate, At, ShapeOf
    <2>3. CASE Becomes(t, Answer(t, "ok"))
      BY <1>6, <2>1, <2>2, <2>3
    <2>4. CASE Becomes(t, Updated(t))
      <3>1. Fits(Updated(t), nextId', page', diff')
        BY <1>1, <1>2, <1>3, <2>2
        DEF Updated, Commands, Fits, ShapeOf, IdOf, BracketOf, LoneOf, Answered
      <3>2. /\ Updated(t).id = task[t].id
            /\ Updated(t).alone = TRUE => task[t].alone = TRUE
        BY <1>1 DEF Updated, Commands
      <3> QED BY <1>5, <2>1, <2>4, <3>1, <3>2
    <2> QED BY <2>1, <2>3, <2>4
  <1> QED BY <1>7, <1>8, <1>9, <1>10, <1>11, <1>12 DEF Handler

\* A request that comes in: its command begins fitting and, with it in
\* flight, nobody else is alone any more.
LEMMA AcceptFits ==
  ASSUME TypeOK, EachFits, Apart, NEW t \in Tasks, NEW m \in Methods,
         Accept(t, m)
  PROVE  EachFits' /\ Apart'
PROOF
  <1>1. /\ task \in [Tasks -> Commands] /\ nextId \in Nat \ {0}
        /\ page \in [Pages -> Nat] /\ active \in Pages
    BY DEF TypeOK
  <1>2. PICK b \in BOOLEAN :
          /\ b = TRUE => \A w \in Tasks \ {t} : At(w, "idle")
          /\ task'[t] =
               [Idle EXCEPT !.pc = IF m \in Recorded THEN "begin" ELSE "run",
                            !.method = m, !.page = active, !.alone = b]
    BY AcceptStep
  <1>3. \A u \in Tasks \ {t} : task'[u] = [task[u] EXCEPT !.alone = FALSE]
    BY AcceptStep
  <1>4. UNCHANGED <<page, nextId, diff>>
    BY DEF Accept, timeline
  <1>5. /\ task'[t].pc = IF m \in Recorded THEN "begin" ELSE "run"
        /\ task'[t].method = m /\ task'[t].page = active /\ task'[t].id = 0
    BY <1>2 DEF Idle
  <1>6. task'[t].alone = b
    BY <1>2 DEF Idle
  <1>7. ASSUME NEW u \in Tasks \ {t}
        PROVE  /\ task'[u].id = task[u].id /\ task'[u].pc = task[u].pc
               /\ task'[u].alone = FALSE
               /\ Fits(task'[u], nextId, page, diff)
    <2>1. task[u] \in Commands /\ Fits(task[u], nextId, page, diff)
      BY <1>1 DEF EachFits
    <2> QED
      BY <1>3, <2>1
      DEF Commands, Fits, ShapeOf, IdOf, BracketOf, LoneOf, Answered
  <1>8. Fits(task'[t], nextId, page, diff)
    BY <1>1, <1>5
    DEF Methods, Recorded, Fits, ShapeOf, IdOf, BracketOf, LoneOf, Answered
  <1>9. EachFits'
    BY <1>4, <1>7, <1>8 DEF EachFits
  <1>10. Apart'
    <2>1. ASSUME NEW u \in Tasks, NEW w \in Tasks, u # w
          PROVE  /\ task'[u].id # 0 => task'[w].id # task'[u].id
                 /\ task'[u].alone = TRUE => task'[w].pc = "idle"
      <3>1. CASE u = t
        BY <1>2, <1>5, <1>6, <1>7, <2>1, <3>1 DEF At
      <3>2. CASE u # t
        <4>1. task'[u].alone # TRUE
          BY <1>7, <3>2
        <4>2. task[u].id # 0 => task[w].id # task[u].id
          BY <2>1 DEF Apart
        <4>3. task'[u].id # 0 => task'[w].id # task'[u].id
          BY <1>5, <1>7, <3>2, <4>2
        <4> QED BY <4>1, <4>3
      <3> QED BY <3>1, <3>2
    <2> QED BY <2>1 DEF Apart
  <1> QED BY <1>9, <1>10

\* Whatever happens, every command goes on fitting.
LEMMA FitsStep ==
  ASSUME TypeOK, EachFits, Apart, [Next]_vars
  PROVE  EachFits' /\ Apart'
PROOF
  <1>1. ASSUME NEW p \in Pages, PageChanges(p) PROVE EachFits' /\ Apart'
    <2>1. PageMoves /\ UNCHANGED <<nextId, diff, task>>
      BY <1>1, PageSteps DEF PageChanges, timeline
    <2>2. ASSUME NEW t \in Tasks PROVE Fits(task[t], nextId, page', diff)
      <3>1. /\ task[t] \in Commands /\ nextId \in Nat /\ nextId <= nextId
            /\ page \in [Pages -> Nat]
        BY DEF TypeOK
      <3>2. Fits(task[t], nextId, page, diff)
        BY DEF EachFits
      <3>3. page' \in [Pages -> Nat] /\ \A q \in Pages : page[q] <= page'[q]
        BY <2>1 DEF PageMoves
      <3> QED BY <3>1, <3>2, <3>3, FitsLater
    <2> QED BY <2>1, <2>2 DEF EachFits, Apart
  <1>2. ASSUME NEW t \in Tasks, NEW m \in Methods, Accept(t, m)
        PROVE  EachFits' /\ Apart'
    BY <1>2, AcceptFits
  <1>3. ASSUME NEW t \in Tasks, Handler(t) PROVE EachFits' /\ Apart'
    BY <1>3, HandlerFits
  <1>4. ASSUME NEW t \in Tasks, Around(t) PROVE EachFits' /\ Apart'
    BY <1>2, <1>4, AroundFits DEF Around
  <1>5. CASE UNCHANGED vars
    BY <1>5 DEF vars, timeline, EachFits, Apart
  <1> QED BY <1>1, <1>3, <1>4, <1>5 DEF Next

-----------------------------------------------------------------------------
(* The timeline.                                                           *)

\* The newest n entries of a sequence, element by element.
LEMMA WindowForm ==
  ASSUME NEW short \in Seq(Entries), NEW long \in Seq(Entries),
         Len(short) <= Len(long)
  PROVE  short = SubSeq(long, Len(long) - Len(short) + 1, Len(long))
           <=> \A i \in 1 .. Len(short) :
                 short[i] = long[Len(long) - Len(short) + i]
PROOF
  <1> DEFINE from == Len(long) - Len(short) + 1
             last == SubSeq(long, from, Len(long))
  <1>1. Len(short) \in Nat /\ Len(long) \in Nat
    OBVIOUS
  <1>2. \A i \in from .. Len(long) : long[i] \in Entries
    BY <1>1, ElementOfSeq
  <1>3. /\ last \in Seq(Entries)
        /\ Len(last) = IF from <= Len(long) THEN Len(long) - from + 1 ELSE 0
        /\ \A i \in 1 .. Len(long) - from + 1 : last[i] = long[from + i - 1]
    BY <1>1, <1>2, SubSeqProperties
  <1>4. Len(last) = Len(short)
    BY <1>1, <1>3
  <1>5. \A i \in 1 .. Len(short) :
          last[i] = long[Len(long) - Len(short) + i]
    BY <1>1, <1>3
  <1> HIDE DEF last
  <1>6. ASSUME \A i \in 1 .. Len(short) :
                 short[i] = long[Len(long) - Len(short) + i]
        PROVE  short = last
    BY <1>3, <1>4, <1>5, <1>6, SeqEqual
  <1> QED BY <1>5, <1>6 DEF last

\* Settling a sequence touches the outcome of one id and nothing else.
LEMMA SettleKeeps ==
  ASSUME NEW seq \in Seq(Entries), NEW id, NEW s \in {"ok", "error"}
  PROVE  /\ Settle(seq, id, s) \in Seq(Entries)
         /\ Len(Settle(seq, id, s)) = Len(seq)
         /\ \A i \in 1 .. Len(seq) :
              /\ Settle(seq, id, s)[i].id = seq[i].id
              /\ seq[i].id = id => Settle(seq, id, s)[i].status = s
              /\ seq[i].id # id => Settle(seq, id, s)[i] = seq[i]
PROOF
  <1>1. DOMAIN seq = 1 .. Len(seq) /\ Len(seq) \in Nat
    OBVIOUS
  <1>2. ASSUME NEW e \in Entries
        PROVE  /\ [e EXCEPT !.status = s] \in Entries
               /\ [e EXCEPT !.status = s].id = e.id
               /\ [e EXCEPT !.status = s].status = s
    BY DEF Entries
  <1>3. \A i \in 1 .. Len(seq) : seq[i] \in Entries
    BY ElementOfSeq
  <1>4. Settle(seq, id, s) \in [1 .. Len(seq) -> Entries]
    BY <1>1, <1>2, <1>3 DEF Settle
  <1>5. Settle(seq, id, s) \in Seq(Entries) /\ Len(Settle(seq, id, s)) = Len(seq)
    BY <1>1, <1>4
  <1> QED BY <1>1, <1>2, <1>3, <1>5 DEF Settle

\* A new entry is the last one, and pushes out the first of a full timeline.
LEMMA PushBackKeeps ==
  ASSUME TypeOK, NEW e \in Entries
  PROVE  /\ PushBack(e) \in Seq(Entries)
         /\ Len(PushBack(e)) = IF Len(entries) < MaxTimeline
                               THEN Len(entries) + 1 ELSE MaxTimeline
         /\ PushBack(e)[Len(PushBack(e))] = e
         /\ \A i \in 1 .. Len(PushBack(e)) - 1 :
              PushBack(e)[i] = entries[Len(entries) - Len(PushBack(e)) + 1 + i]
PROOF
  <1>1. /\ entries \in Seq(Entries) /\ Len(entries) \in Nat
        /\ Len(entries) <= MaxTimeline
    BY DEF TypeOK
  <1>2. CASE Len(entries) >= MaxTimeline
    <2>1. entries # << >> /\ PushBack(e) = Append(Tail(entries), e)
      BY <1>1, <1>2, Bounds DEF PushBack
    <2>2. /\ Tail(entries) \in Seq(Entries)
          /\ Len(Tail(entries)) = Len(entries) - 1
          /\ \A i \in 1 .. Len(Tail(entries)) : Tail(entries)[i] = entries[i + 1]
      BY <1>1, <2>1, HeadTailProperties
    <2>3. /\ Append(Tail(entries), e) \in Seq(Entries)
          /\ Len(Append(Tail(entries), e)) = Len(Tail(entries)) + 1
          /\ \A i \in 1 .. Len(Tail(entries)) :
               Append(Tail(entries), e)[i] = Tail(entries)[i]
          /\ Append(Tail(entries), e)[Len(Tail(entries)) + 1] = e
      BY <2>2, AppendProperties
    <2>4. Len(entries) = MaxTimeline
      BY <1>1, <1>2, Bounds
    <2> HIDE DEF PushBack
    <2>5. /\ PushBack(e) \in Seq(Entries)
          /\ Len(PushBack(e)) = Len(entries)
          /\ PushBack(e)[Len(entries)] = e
          /\ \A i \in 1 .. Len(entries) - 1 : PushBack(e)[i] = entries[i + 1]
      BY <1>1, <2>1, <2>2, <2>3
    <2> QED BY <1>1, <2>4, <2>5
  <1>3. CASE Len(entries) < MaxTimeline
    <2>1. PushBack(e) = Append(entries, e)
      BY <1>1, <1>3, Bounds DEF PushBack
    <2> QED BY <1>1, <1>3, <2>1, AppendProperties
  <1> QED BY <1>1, <1>2, <1>3, Bounds

\* A command whose entry, if it is n, is still to be finished.
Open(k, n) == k.id = n /\ k.pc \notin Settled

\* Only the two steps on the timeline begin and finish commands.
LEMMA OpenSteps ==
  ASSUME TypeOK, EachFits, Next,
         \A t \in Tasks : ~BeginAction(t) /\ ~FinishAction(t)
  PROVE  /\ UNCHANGED <<entries, nextId, log>>
         /\ \A u \in Tasks : \A n \in Nat \ {0} :
              Open(task'[u], n) <=> Open(task[u], n)
PROOF
  <1>1. task \in [Tasks -> Commands]
    BY DEF TypeOK
  <1>2. \A t \in Tasks : Fits(task[t], nextId, page, diff) /\ ShapeOf(task[t])
    BY DEF EachFits, Fits
  <1>3. ASSUME NEW t \in Tasks, NEW r, Becomes(t, r),
               \A n \in Nat \ {0} : Open(r, n) <=> Open(task[t], n),
               UNCHANGED <<entries, nextId, log>>
        PROVE  /\ UNCHANGED <<entries, nextId, log>>
               /\ \A u \in Tasks : \A n \in Nat \ {0} :
                    Open(task'[u], n) <=> Open(task[u], n)
    <2>1. task'[t] = r /\ \A u \in Tasks \ {t} : task'[u] = task[u]
      BY <1>1, <1>3 DEF Becomes
    <2> QED BY <1>3, <2>1
  <1>4. ASSUME NEW p \in Pages, PageChanges(p)
        PROVE  UNCHANGED <<entries, nextId, log, task>>
    BY <1>4 DEF PageChanges, timeline
  <1>5. ASSUME NEW t \in Tasks, NEW m \in Methods, Accept(t, m)
        PROVE  /\ UNCHANGED <<entries, nextId, log>>
               /\ \A u \in Tasks : \A n \in Nat \ {0} :
                    Open(task'[u], n) <=> Open(task[u], n)
    <2>1. /\ UNCHANGED <<entries, nextId, log>>
          /\ task[t].pc = "idle"
      BY <1>5 DEF Accept, timeline, At
    <2>2. task[t].id = 0
      BY <1>2, <2>1 DEF Fits, IdOf
    <2>3. task'[t].id = 0
      <3>1. PICK b \in BOOLEAN :
              task'[t] = [Idle EXCEPT !.pc = IF m \in Recorded THEN "begin"
                                             ELSE "run",
                                      !.method = m, !.page = active, !.alone = b]
        BY <1>5, AcceptStep
      <3> QED BY <3>1 DEF Idle
    <2>4. \A u \in Tasks \ {t} : task'[u] = [task[u] EXCEPT !.alone = FALSE]
      BY <1>5, AcceptStep
    <2>5. \A u \in Tasks \ {t} :
            task'[u].id = task[u].id /\ task'[u].pc = task[u].pc
      BY <1>1, <2>4 DEF Commands
    <2> QED BY <2>1, <2>2, <2>3, <2>5 DEF Open
  <1>6. ASSUME NEW t \in Tasks, Handler(t)
        PROVE  /\ UNCHANGED <<entries, nextId, log>>
               /\ \A u \in Tasks : \A n \in Nat \ {0} :
                    Open(task'[u], n) <=> Open(task[u], n)
    <2>1. UNCHANGED <<entries, nextId, log>>
      BY <1>6 DEF Handler, RunOther, RunAct, RunBatchStep, RunDiff, DiffRead,
                  DiffUpdate, timeline
    <2>2. task[t].pc \in {"run", "compare", "update"}
      BY <1>6 DEF Handler, RunOther, RunAct, RunBatchStep, RunDiff, DiffRead,
                  DiffUpdate, At
    <2>3. CASE RunOther(t)
      <3>1. Becomes(t, Idle)
        BY <1>2, <2>3, HandlerSteps
      <3>2. task[t].id = 0
        BY <1>2, <2>3 DEF RunOther, Fits, IdOf
      <3>3. \A n \in Nat \ {0} : Open(Idle, n) <=> Open(task[t], n)
        BY <3>2 DEF Open, Idle
      <3> QED BY <1>3, <2>1, <3>1, <3>3
    <2>4. CASE ~RunOther(t)
      <3>1. PICK r : /\ Becomes(t, r)
                     /\ r.id = task[t].id
                     /\ r.pc \in {"finish", "run", "compare", "update"}
        <4>1. task[t] \in Commands
          BY <1>1
        <4>2. ASSUME NEW s \in {"ok", "error"}
              PROVE  Answer(t, s).id = task[t].id /\ Answer(t, s).pc = "finish"
          BY <4>1 DEF Answer, Commands
        <4>3. AtNextStep(t).id = task[t].id /\ AtNextStep(t).pc = task[t].pc
          BY <4>1 DEF AtNextStep, Commands
        <4>4. Captured(t).id = task[t].id /\ Captured(t).pc = "compare"
          BY <4>1 DEF Captured, Commands
        <4>5. \A s \in States \cup {NoState} :
                Compared(t, s).id = task[t].id /\ Compared(t, s).pc = "update"
          BY <4>1 DEF Compared, Commands
        <4>6. Updated(t).id = task[t].id /\ Updated(t).pc = "run"
          BY <4>1 DEF Updated, Commands
        <4>7. ASSUME NEW s \in {"ok", "error"}, RunAct(t, s)
              PROVE  Becomes(t, Answer(t, s))
          BY <1>2, <4>7, HandlerSteps
        <4>8. ASSUME NEW passes \in BOOLEAN, NEW stop \in BOOLEAN,
                     RunBatchStep(t, passes, stop)
              PROVE  Becomes(t, Answer(t, "ok")) \/ Becomes(t, AtNextStep(t))
          BY <1>2, <4>8, HandlerSteps
        <4>9. ASSUME NEW since \in BOOLEAN, DiffRead(t, since)
              PROVE  \E s \in States \cup {NoState} : Becomes(t, Compared(t, s))
          BY <1>2, <4>9, HandlerSteps
        <4>10. /\ RunDiff(t) => Becomes(t, Captured(t))
               /\ DiffUpdate(t) =>
                    Becomes(t, Answer(t, "ok")) \/ Becomes(t, Updated(t))
          BY <1>2, HandlerSteps
        <4> QED
          BY <1>6, <2>2, <2>4, <4>2, <4>3, <4>4, <4>5, <4>6, <4>7, <4>8, <4>9,
             <4>10
          DEF Handler
      <3>2. \A n \in Nat \ {0} : Open(r, n) <=> Open(task[t], n)
        BY <2>2, <3>1 DEF Open, Settled
      <3> QED BY <1>3, <2>1, <3>1, <3>2
    <2> QED BY <2>3, <2>4
  <1>7. ASSUME NEW t \in Tasks, Around(t)
        PROVE  /\ UNCHANGED <<entries, nextId, log>>
               /\ \A u \in Tasks : \A n \in Nat \ {0} :
                    Open(task'[u], n) <=> Open(task[u], n)
    <2>1. task[t] \in Commands
      BY <1>1
    <2>2. ASSUME ~\E m \in Methods : Accept(t, m)
          PROVE  /\ UNCHANGED <<entries, nextId, log>>
                 /\ \E r : /\ Becomes(t, r)
                          /\ \A n \in Nat \ {0} :
                               Open(r, n) <=> Open(task[t], n)
      <3>1. CASE CaptureEvidence(t)
        <4>1. Becomes(t, Evidenced(t))
          BY <1>2, <3>1, AroundSteps
        <4>2. \A n \in Nat \ {0} : Open(Evidenced(t), n) <=> Open(task[t], n)
          BY <2>1, <3>1
          DEF CaptureEvidence, At, Open, Evidenced, Commands, Settled
        <4> QED BY <3>1, <4>1, <4>2 DEF CaptureEvidence, timeline
      <3>2. CASE CaptureDiffBefore(t)
        <4>1. Becomes(t, BeforeCaptured(t))
          BY <1>2, <3>2, AroundSteps
        <4>2. \A n \in Nat \ {0} : Open(BeforeCaptured(t), n) <=> Open(task[t], n)
          BY <2>1, <3>2
          DEF CaptureDiffBefore, At, Open, BeforeCaptured, Commands, Settled
        <4> QED BY <3>2, <4>1, <4>2 DEF CaptureDiffBefore, timeline
      <3>3. CASE StoreBefore(t)
        <4>1. Becomes(t, BeforeStored(t))
          BY <1>2, <3>3, AroundSteps
        <4>2. \A n \in Nat \ {0} : Open(BeforeStored(t), n) <=> Open(task[t], n)
          BY <2>1, <3>3
          DEF StoreBefore, At, Open, BeforeStored, Commands, Settled
        <4> QED BY <3>3, <4>1, <4>2 DEF StoreBefore, timeline
      <3>4. CASE Claim(t)
        <4>1. Becomes(t, Claimed(t))
          BY <1>2, <3>4, AroundSteps
        <4>2. \A n \in Nat \ {0} : Open(Claimed(t), n) <=> Open(task[t], n)
          BY <2>1, <3>4 DEF Claim, At, Open, Claimed, Commands, Settled
        <4> QED BY <3>4, <4>1, <4>2 DEF Claim, timeline
      <3>5. CASE CaptureDiffAfter(t)
        <4>1. Becomes(t, AfterCaptured(t))
          BY <1>2, <3>5, AroundSteps
        <4>2. \A n \in Nat \ {0} : Open(AfterCaptured(t), n) <=> Open(task[t], n)
          BY <2>1, <3>5
          DEF CaptureDiffAfter, At, Open, AfterCaptured, Commands, Settled
        <4> QED BY <3>5, <4>1, <4>2 DEF CaptureDiffAfter, timeline
      <3>6. CASE StoreAfter(t)
        <4>1. Becomes(t, AfterStored(t))
          BY <1>2, <3>6, AroundSteps
        <4>2. \A n \in Nat \ {0} : Open(AfterStored(t), n) <=> Open(task[t], n)
          BY <2>1, <3>6 DEF StoreAfter, At, Open, AfterStored, Commands, Settled
        <4> QED BY <3>6, <4>1, <4>2 DEF StoreAfter, timeline
      <3>7. CASE CaptureLastEvidence(t)
        <4>1. Becomes(t, LastCaptured(t))
          BY <1>2, <3>7, AroundSteps
        <4>2. \A n \in Nat \ {0} : Open(LastCaptured(t), n) <=> Open(task[t], n)
          BY <2>1, <3>7
          DEF CaptureLastEvidence, At, Open, LastCaptured, Commands, Settled
        <4> QED BY <3>7, <4>1, <4>2 DEF CaptureLastEvidence, timeline
      <3>8. CASE Record(t)
        <4>1. Becomes(t, Idle)
          BY <1>2, <3>8, AroundSteps
        <4>2. \A n \in Nat \ {0} : Open(Idle, n) <=> Open(task[t], n)
          BY <2>1, <3>8 DEF Record, At, Open, Idle, Commands, Settled
        <4> QED BY <3>8, <4>1, <4>2 DEF Record, timeline
      <3> QED
        BY <1>7, <2>2, <3>1, <3>2, <3>3, <3>4, <3>5, <3>6, <3>7, <3>8
        DEF Around
    <2> QED BY <1>3, <1>5, <2>2
  <1> QED BY <1>4, <1>5, <1>6, <1>7 DEF Next

\* The ids of the timeline are those of the last actions.
LEMMA IdsOfEntries ==
  ASSUME TypeOK, Numbered, TimelineIsWindow
  PROVE  /\ Len(entries) \in Nat /\ Len(log) \in Nat /\ nextId \in Nat
         /\ Len(entries) <= Len(log)
         /\ \A i \in 1 .. Len(entries) :
              /\ entries[i] = log[Len(log) - Len(entries) + i]
              /\ entries[i].id = Len(log) - Len(entries) + i
PROOF
  <1>1. /\ entries \in Seq(Entries) /\ log \in Seq(Entries) /\ nextId \in Nat
        /\ Len(entries) \in Nat /\ Len(log) \in Nat
    BY DEF TypeOK, Numbered
  <1>2. Len(entries) <= Len(log)
    BY <1>1, Bounds DEF TimelineIsWindow
  <1>3. \A i \in 1 .. Len(entries) : entries[i] = log[Len(log) - Len(entries) + i]
    BY <1>1, <1>2, WindowForm DEF TimelineIsWindow
  <1>4. \A i \in 1 .. Len(log) : log[i].id = i
    BY <1>1 DEF TimelineIsWindow
  <1>5. ASSUME NEW i \in 1 .. Len(entries)
        PROVE  Len(log) - Len(entries) + i \in 1 .. Len(log)
    BY <1>1, <1>2
  <1> QED BY <1>1, <1>2, <1>3, <1>4, <1>5

\* A command that begins: its entry is the newest of both sequences.
LEMMA BeginKeeps ==
  ASSUME IInv, NEW t \in Tasks, BeginAction(t)
  PROVE  /\ entries' \in Seq(Entries) /\ Len(entries') <= MaxTimeline
         /\ nextId' \in Nat \ {0}
         /\ Numbered' /\ TimelineIsWindow' /\ RunningHasItsTask'
PROOF
  <1> DEFINE e == [id |-> nextId, status |-> "running"]
             old == Len(log) - Len(entries)
             new == Len(log') - Len(entries')
  <1>1. /\ TypeOK /\ Numbered /\ TimelineIsWindow /\ EachFits /\ Apart
        /\ nextId \in Nat \ {0} /\ log \in Seq(Entries)
        /\ Len(log) = nextId - 1
    BY DEF IInv, TypeOK, Numbered
  <1>2. e \in Entries /\ e.id = nextId /\ e.status = "running"
    BY <1>1 DEF Entries
  <1>3. entries' = PushBack(e) /\ log' = Append(log, e) /\ nextId' = nextId + 1
    BY DEF BeginAction
  <1> HIDE DEF e
  <1>4. /\ entries' \in Seq(Entries) /\ Len(entries') \in Nat
        /\ Len(entries') = IF Len(entries) < MaxTimeline
                           THEN Len(entries) + 1 ELSE MaxTimeline
        /\ entries'[Len(entries')] = e
        /\ \A i \in 1 .. Len(entries') - 1 :
             entries'[i] = entries[Len(entries) - Len(entries') + 1 + i]
    BY <1>1, <1>2, <1>3, PushBackKeeps
  <1>5. /\ log' \in Seq(Entries) /\ Len(log') = Len(log) + 1
        /\ \A i \in 1 .. Len(log) : log'[i] = log[i]
        /\ log'[Len(log) + 1] = e
    BY <1>1, <1>2, <1>3, AppendProperties
  <1>6. /\ Len(entries) \in Nat /\ Len(log) \in Nat
        /\ Len(entries) <= Len(log) /\ Len(entries) <= MaxTimeline
        /\ \A i \in 1 .. Len(entries) :
             entries[i] = log[old + i] /\ entries[i].id = old + i
    BY <1>1, IdsOfEntries DEF TypeOK
  <1>7. /\ Len(entries') <= MaxTimeline /\ nextId' \in Nat \ {0}
        /\ Len(entries') <= Len(entries) + 1 /\ Len(entries') <= Len(log')
        /\ Len(entries') >= 1
    BY <1>1, <1>3, <1>4, <1>5, <1>6, Bounds
  <1>8. Numbered'
    BY <1>1, <1>3, <1>5 DEF Numbered
  <1>9. ASSUME NEW i \in 1 .. Len(entries')
        PROVE  entries'[i] = log'[new + i]
    <2>1. CASE i = Len(entries')
      BY <1>4, <1>5, <1>6, <1>7, <2>1
    <2>2. CASE i # Len(entries')
      <3> DEFINE j == Len(entries) - Len(entries') + 1 + i
      <3>1. j \in 1 .. Len(entries) /\ old + j = new + i
            /\ i \in 1 .. Len(entries') - 1 /\ new + i \in 1 .. Len(log)
        <4>1. i \in Int /\ 1 <= i /\ i <= Len(entries') - 1
          BY <1>4, <2>2
        <4>2. /\ Len(log) \in Int /\ Len(entries) \in Int
              /\ Len(entries') \in Int /\ Len(log') = Len(log) + 1
              /\ Len(entries') <= Len(entries) + 1 /\ Len(entries) <= Len(log)
          BY <1>4, <1>5, <1>6, <1>7
        <4> QED BY <4>1, <4>2
      <3>2. entries'[i] = entries[j] /\ entries[j] = log[old + j]
        BY <1>4, <1>6, <3>1
      <3>3. log'[new + i] = log[new + i]
        BY <1>5, <3>1
      <3> HIDE DEF j
      <3> QED BY <3>1, <3>2, <3>3
    <2> QED BY <2>1, <2>2
  <1>10. TimelineIsWindow'
    <2>1. entries' = SubSeq(log', Len(log') - Len(entries') + 1, Len(log'))
      BY <1>4, <1>5, <1>7, <1>9, WindowForm
    <2>2. Len(entries') = IF Len(log') < MaxTimeline THEN Len(log')
                          ELSE MaxTimeline
      BY <1>1, <1>4, <1>5, <1>6, Bounds DEF TimelineIsWindow
    <2>3. \A i \in DOMAIN log' : log'[i].id = i
      <3>1. DOMAIN log' = 1 .. Len(log) + 1 /\ DOMAIN log = 1 .. Len(log)
        BY <1>1, <1>5, <1>6
      <3>2. \A i \in 1 .. Len(log) : log[i].id = i
        BY <1>1, <3>1 DEF TimelineIsWindow
      <3>3. e.id = Len(log) + 1
        BY <1>1, <1>2
      <3>4. \A i \in 1 .. Len(log) + 1 : i \in 1 .. Len(log) \/ i = Len(log) + 1
        BY <1>6
      <3> QED BY <1>5, <3>1, <3>2, <3>3, <3>4
    <2> QED BY <2>1, <2>2, <2>3 DEF TimelineIsWindow
  <1>11. RunningHasItsTask'
    <2>1. /\ task \in [Tasks -> Commands] /\ task[t].pc = "begin"
          /\ task' = [task EXCEPT ![t].pc = "evidence", ![t].id = nextId]
      BY <1>1 DEF TypeOK, BeginAction, At
    <2>2. task[t].id = 0 /\ \A u \in Tasks : task[u].id \in Nat /\ task[u].id < nextId
      BY <1>1, <2>1 DEF EachFits, Fits, IdOf, Commands
    <2>3. task'[t].id = nextId /\ task'[t].pc = "evidence"
      BY <2>1 DEF Commands
    <2>4. \A u \in Tasks \ {t} : task'[u] = task[u]
      BY <2>1
    <2>5. ASSUME NEW i \in 1 .. Len(entries')
          PROVE  entries'[i].status = "running"
                   <=> \E u \in Tasks : /\ task'[u].id = entries'[i].id
                                        /\ task'[u].pc \notin Settled
      <3>1. CASE i = Len(entries')
        BY <1>2, <1>4, <2>3, <3>1 DEF Settled
      <3>2. CASE i # Len(entries')
        <4>1. PICK j \in 1 .. Len(entries) : entries'[i] = entries[j]
          <5>1. Len(entries) - Len(entries') + 1 + i \in 1 .. Len(entries)
                /\ i \in 1 .. Len(entries') - 1
            BY <1>4, <1>6, <1>7, <3>2
          <5> QED BY <1>4, <5>1
        <4>2. entries[j].id \in Nat \ {0} /\ entries[j].id < nextId
          BY <1>1, <1>6
        <4>3. entries[j].status = "running"
                <=> \E u \in Tasks : /\ task[u].id = entries[j].id
                                     /\ task[u].pc \notin Settled
          BY <1>1 DEF IInv, TypeOK, RunningHasItsTask, Settled
        <4>4. \A u \in Tasks : task'[u].id = entries[j].id
                                 <=> task[u].id = entries[j].id
          BY <2>2, <2>3, <2>4, <4>2
        <4>5. \A u \in Tasks : task[u].id = entries[j].id => task'[u] = task[u]
          BY <2>2, <2>4, <4>2
        <4> QED BY <4>1, <4>3, <4>4, <4>5
      <3> QED BY <3>1, <3>2
    <2>6. DOMAIN entries' = 1 .. Len(entries')
      BY <1>4
    <2> QED BY <2>5, <2>6 DEF RunningHasItsTask, Settled
  <1> QED BY <1>4, <1>7, <1>8, <1>10, <1>11

\* A command that finishes: its entry, if it is still there, has its outcome,
\* and no other is touched.
LEMMA FinishKeeps ==
  ASSUME IInv, NEW t \in Tasks, FinishAction(t)
  PROVE  /\ entries' \in Seq(Entries) /\ Len(entries') <= MaxTimeline
         /\ nextId' \in Nat \ {0}
         /\ Numbered' /\ TimelineIsWindow' /\ RunningHasItsTask'
PROOF
  <1> DEFINE old == Len(log) - Len(entries)
             id == task[t].id
             s == task[t].status
  <1>1. /\ TypeOK /\ Numbered /\ TimelineIsWindow /\ EachFits /\ Apart
        /\ entries \in Seq(Entries) /\ log \in Seq(Entries)
        /\ task \in [Tasks -> Commands] /\ task[t].pc = "finish"
        /\ nextId' = nextId /\ nextId \in Nat \ {0}
    BY DEF IInv, TypeOK, Numbered, FinishAction, At
  <1>2. s \in {"ok", "error"} /\ id \in Nat
    BY <1>1 DEF Commands
  <1>3. entries' = Settle(entries, id, s) /\ log' = Settle(log, id, s)
    BY DEF FinishAction, Outcome
  <1> HIDE DEF id, s
  <1>4. /\ entries' \in Seq(Entries) /\ Len(entries') = Len(entries)
        /\ \A i \in 1 .. Len(entries) :
             /\ entries'[i].id = entries[i].id
             /\ entries[i].id = id => entries'[i].status = s
             /\ entries[i].id # id => entries'[i] = entries[i]
    <2>1. LET e == Settle(entries, id, s) IN
            /\ e \in Seq(Entries) /\ Len(e) = Len(entries)
            /\ \A i \in 1 .. Len(entries) :
                 /\ e[i].id = entries[i].id
                 /\ entries[i].id = id => e[i].status = s
                 /\ entries[i].id # id => e[i] = entries[i]
      BY <1>1, <1>2, SettleKeeps
    <2> QED BY <1>3, <2>1
  <1>5. /\ log' \in Seq(Entries) /\ Len(log') = Len(log)
        /\ \A i \in 1 .. Len(log) : log'[i].id = log[i].id
    <2>1. LET e == Settle(log, id, s) IN
            /\ e \in Seq(Entries) /\ Len(e) = Len(log)
            /\ \A i \in 1 .. Len(log) : e[i].id = log[i].id
      BY <1>1, <1>2, SettleKeeps
    <2> QED BY <1>3, <2>1
  <1>6. /\ Len(entries) \in Nat /\ Len(log) \in Nat
        /\ Len(entries) <= Len(log) /\ Len(entries) <= MaxTimeline
        /\ \A i \in 1 .. Len(entries) : entries[i] = log[old + i]
        /\ \A i \in 1 .. Len(entries) : old + i \in 1 .. Len(log)
    BY <1>1, IdsOfEntries DEF TypeOK
  <1>7. Numbered'
    BY <1>1, <1>5 DEF Numbered
  <1>8. ASSUME NEW i \in 1 .. Len(entries) PROVE entries'[i] = log'[old + i]
    <2>1. i \in DOMAIN entries /\ old + i \in DOMAIN log
      BY <1>1, <1>6
    <2>2. entries[i] = log[old + i]
      BY <1>6
    <2> HIDE DEF old
    <2> QED BY <1>3, <2>1, <2>2 DEF Settle
  <1>9. TimelineIsWindow'
    <2>1. entries' = SubSeq(log', Len(log') - Len(entries') + 1, Len(log'))
      <3>1. \A i \in 1 .. Len(entries') :
              entries'[i] = log'[Len(log') - Len(entries') + i]
        BY <1>4, <1>5, <1>8
      <3>2. Len(entries') <= Len(log')
        BY <1>4, <1>5, <1>6
      <3> QED BY <1>4, <1>5, <3>1, <3>2, WindowForm
    <2>2. Len(entries') = IF Len(log') < MaxTimeline THEN Len(log')
                          ELSE MaxTimeline
      BY <1>1, <1>4, <1>5 DEF TimelineIsWindow
    <2>3. \A i \in DOMAIN log' : log'[i].id = i
      <3>1. DOMAIN log' = 1 .. Len(log) /\ DOMAIN log = 1 .. Len(log)
        BY <1>1, <1>5
      <3> QED BY <1>1, <1>5, <3>1 DEF TimelineIsWindow
    <2> QED BY <2>1, <2>2, <2>3 DEF TimelineIsWindow
  <1>10. RunningHasItsTask'
    <2>1. Becomes(t, Concluded(t))
      BY <1>1, AroundSteps DEF EachFits, Fits
    <2>2. task'[t].id = id /\ task'[t].pc \in Settled
      <3>1. task'[t] = Concluded(t)
        BY <1>1, <2>1 DEF Becomes
      <3> QED BY <1>1, <3>1 DEF Concluded, Commands, Settled, id
    <2>3. \A u \in Tasks \ {t} : task'[u] = task[u]
      BY <1>1, <2>1 DEF Becomes
    <2>4. id # 0
      BY <1>1 DEF EachFits, Fits, IdOf, ShapeOf, id
    <2>5. \A u \in Tasks \ {t} : task[u].id # id
      BY <2>4 DEF IInv, Apart, id
    <2>6. ASSUME NEW i \in 1 .. Len(entries)
          PROVE  entries'[i].status = "running"
                   <=> \E u \in Tasks : /\ task'[u].id = entries'[i].id
                                        /\ task'[u].pc \notin Settled
      <3>1. CASE entries[i].id = id
        BY <1>2, <1>4, <2>2, <2>3, <2>5, <3>1
      <3>2. CASE entries[i].id # id
        <4>1. entries[i].status = "running"
                <=> \E u \in Tasks : /\ task[u].id = entries[i].id
                                     /\ task[u].pc \notin Settled
          BY <1>1 DEF IInv, RunningHasItsTask, Settled
        <4>2. task[t].id = id
          BY DEF id
        <4>3. entries'[i] = entries[i]
          BY <1>4, <3>2
        <4> QED BY <2>2, <2>3, <3>2, <4>1, <4>2, <4>3
      <3> QED BY <3>1, <3>2
    <2>7. DOMAIN entries' = 1 .. Len(entries)
      BY <1>4
    <2> QED BY <2>6, <2>7 DEF RunningHasItsTask, Settled
  <1> QED BY <1>1, <1>4, <1>6, <1>7, <1>9, <1>10

\* The timeline goes on being the window, and its open entries those of the
\* commands under way.
LEMMA TimelineStep ==
  ASSUME IInv, [Next]_vars
  PROVE  /\ entries' \in Seq(Entries) /\ Len(entries') <= MaxTimeline
         /\ nextId' \in Nat \ {0}
         /\ Numbered' /\ TimelineIsWindow' /\ RunningHasItsTask'
PROOF
  <1>1. TypeOK /\ EachFits /\ entries \in Seq(Entries) /\ nextId \in Nat \ {0}
        /\ Len(entries) <= MaxTimeline
    BY DEF IInv, TypeOK
  <1>2. ASSUME UNCHANGED <<entries, nextId, log>>
        PROVE  /\ entries' \in Seq(Entries) /\ Len(entries') <= MaxTimeline
               /\ nextId' \in Nat \ {0}
               /\ Numbered' /\ TimelineIsWindow'
    BY <1>1, <1>2 DEF IInv, Numbered, TimelineIsWindow
  <1>3. CASE \E t \in Tasks : BeginAction(t)
    BY <1>3, BeginKeeps
  <1>4. CASE \E t \in Tasks : FinishAction(t)
    BY <1>4, FinishKeeps
  <1>5. CASE Next /\ \A t \in Tasks : ~BeginAction(t) /\ ~FinishAction(t)
    <2>1. /\ UNCHANGED <<entries, nextId, log>>
          /\ \A u \in Tasks : \A n \in Nat \ {0} :
               Open(task'[u], n) <=> Open(task[u], n)
      BY <1>1, <1>5, OpenSteps
    <2>2. \A i \in DOMAIN entries : entries[i].id \in Nat \ {0}
      <3>1. \A i \in 1 .. Len(entries) : entries[i] \in Entries
        BY <1>1, ElementOfSeq
      <3> QED BY <1>1, <3>1 DEF Entries
    <2>3. RunningHasItsTask'
      BY <2>1, <2>2 DEF IInv, RunningHasItsTask, Open, Settled
    <2> QED BY <1>2, <2>1, <2>3
  <1>6. CASE UNCHANGED vars
    <2>1. UNCHANGED <<entries, nextId, log, task>>
      BY <1>6 DEF vars, timeline
    <2> QED BY <1>2, <2>1 DEF IInv, RunningHasItsTask
  <1> QED BY <1>3, <1>4, <1>5, <1>6

\* The commands, the pages and DiffState keep their types.
LEMMA TypeStep ==
  ASSUME IInv, [Next]_vars
  PROVE  TypeOK'
PROOF
  <1>1. /\ TypeOK /\ task \in [Tasks -> Commands] /\ active \in Pages
        /\ diff \in [before : States \cup {NoState},
                     after : States \cup {NoState}]
    BY DEF IInv, TypeOK
  <1>2. \A t \in Tasks : ShapeOf(task[t])
    BY DEF IInv, EachFits, Fits
  <1>3. task' \in [Tasks -> Commands]
    <2>1. ASSUME NEW t \in Tasks, NEW r, Becomes(t, r)
          PROVE  task' \in [Tasks -> Commands]
      BY <1>1, <2>1 DEF Becomes
    <2>2. ASSUME NEW t \in Tasks, Around(t) PROVE task' \in [Tasks -> Commands]
      BY <1>1, <1>2, <2>1, <2>2, AroundSteps, AcceptStep DEF Around
    <2>3. ASSUME NEW t \in Tasks, Handler(t) PROVE task' \in [Tasks -> Commands]
      BY <1>1, <1>2, <2>1, <2>3, HandlerSteps DEF Handler
    <2>4. ASSUME NEW p \in Pages, PageChanges(p) PROVE task' = task
      BY <2>4 DEF PageChanges
    <2>5. UNCHANGED vars => task' = task
      BY DEF vars
    <2> QED BY <1>1, <2>2, <2>3, <2>4, <2>5 DEF Next
  <1>4. page' \in [Pages -> Nat]
    <2>1. page' = page \/ \E p \in Pages : page' = [page EXCEPT ![p] = @ + 1]
      <3>1. ASSUME NEW t \in Tasks, Around(t) PROVE page' = page
        BY <3>1 DEF Around, Accept, BeginAction, CaptureEvidence,
          CaptureDiffBefore, StoreBefore, Claim, FinishAction, CaptureDiffAfter,
          StoreAfter, CaptureLastEvidence, Record
      <3>2. ASSUME NEW t \in Tasks, Handler(t)
            PROVE  page' = page
                   \/ \E p \in Pages : page' = [page EXCEPT ![p] = @ + 1]
        BY <1>2, <3>2 DEF Handler, RunOther, RunAct, RunBatchStep, RunDiff,
          DiffRead, DiffUpdate, At, ShapeOf
      <3>3. UNCHANGED vars => page' = page
        BY DEF vars
      <3> QED BY <3>1, <3>2, <3>3 DEF Next, PageChanges
    <2> QED BY <1>1, <2>1, PageSteps DEF PageMoves
  <1>5. active' \in Pages
    <2>1. ASSUME NEW t \in Tasks, Around(t) PROVE active' = active
      BY <2>1 DEF Around, Accept, BeginAction, CaptureEvidence,
        CaptureDiffBefore, StoreBefore, Claim, FinishAction, CaptureDiffAfter,
        StoreAfter, CaptureLastEvidence, Record
    <2>2. ASSUME NEW t \in Tasks, Handler(t) PROVE active' \in Pages
      BY <1>1, <2>2 DEF Handler, RunOther, RunAct, RunBatchStep, RunDiff,
        DiffRead, DiffUpdate
    <2> QED BY <1>1, <2>1, <2>2 DEF Next, PageChanges, vars
  <1>6. diff' \in [before : States \cup {NoState}, after : States \cup {NoState}]
    <2>1. \A t \in Tasks : /\ task[t].prev \in States \cup {NoState}
                           /\ task[t].after \in States \cup {NoState}
      BY <1>1 DEF Commands
    <2>2. ASSUME NEW t \in Tasks, Around(t)
          PROVE  \/ diff' = diff
                 \/ diff' = [diff EXCEPT !.before = task[t].prev]
                 \/ diff' = [diff EXCEPT !.after = task[t].after]
      BY <2>2 DEF Around, Accept, BeginAction, CaptureEvidence,
        CaptureDiffBefore, StoreBefore, Claim, FinishAction, CaptureDiffAfter,
        StoreAfter, CaptureLastEvidence, Record
    <2>3. ASSUME NEW t \in Tasks, Handler(t)
          PROVE  \/ diff' = diff
                 \/ diff' = [before |-> IF task[t].prev = NoState
                                        THEN task[t].after ELSE diff.after,
                             after  |-> task[t].after]
      BY <2>3 DEF Handler, RunOther, RunAct, RunBatchStep, RunDiff, DiffRead,
        DiffUpdate
    <2> QED BY <1>1, <2>1, <2>2, <2>3 DEF Next, PageChanges, vars
  <1>7. entries' \in Seq(Entries) /\ Len(entries') <= MaxTimeline
        /\ nextId' \in Nat \ {0}
    BY TimelineStep
  <1> QED BY <1>3, <1>4, <1>5, <1>6, <1>7 DEF TypeOK

-----------------------------------------------------------------------------
\* IInv holds in every reachable state.
THEOREM Invariance == Spec => []IInv
PROOF
  <1>1. Init => IInv
    <2> SUFFICES ASSUME Init PROVE IInv
      OBVIOUS
    <2>1. TypeOK
      BY Bounds, IdleType
      DEF Init, TypeOK, NoState
    <2>2. EachFits /\ Apart
      BY DEF Init, EachFits, Apart, Idle, Fits, ShapeOf, IdOf, BracketOf,
             LoneOf, Answered
    <2>3. Numbered
      BY DEF Init, Numbered
    <2>4. entries = << >> /\ log = << >>
      BY DEF Init
    <2>5. TimelineIsWindow
      <3>1. Len(entries) = 0 /\ Len(log) = 0 /\ DOMAIN log = {}
        BY <2>4
      <3>2. SubSeq(log, 1, 0) = << >>
        BY SubSeqEmpty
      <3> QED BY <2>4, <3>1, <3>2, Bounds DEF TimelineIsWindow
    <2>6. RunningHasItsTask
      BY <2>4 DEF RunningHasItsTask
    <2> QED BY <2>1, <2>2, <2>3, <2>5, <2>6 DEF IInv
  <1>2. IInv /\ [Next]_vars => IInv'
    <2> SUFFICES ASSUME IInv, [Next]_vars PROVE IInv'
      OBVIOUS
    <2>1. EachFits' /\ Apart'
      BY FitsStep DEF IInv
    <2> QED BY <2>1, TypeStep, TimelineStep DEF IInv
  <1> QED BY <1>1, <1>2, PTL DEF Spec

\* Every variable keeps its type, whatever overlaps, fails or is evicted.
THEOREM TypeCorrect == Spec => []TypeOK
PROOF
  <1>1. IInv => TypeOK
    BY DEF IInv
  <1> QED BY <1>1, Invariance, PTL

\* ActionTimeline is the last MaxTimeline actions in the order they began,
\* each with its own outcome.
THEOREM WindowSafety == Spec => []TimelineIsWindow
PROOF
  <1>1. IInv => TimelineIsWindow
    BY DEF IInv
  <1> QED BY <1>1, Invariance, PTL

\* An entry is running exactly while its command is.
THEOREM RunningSafety == Spec => []RunningHasItsTask
PROOF
  <1>1. IInv => RunningHasItsTask
    BY DEF IInv
  <1> QED BY <1>1, Invariance, PTL

\* The states in an event are its own command's, of the page it ran on, and
\* enclose its handler, whatever the other connections do to that page.
THEOREM EvidenceSafety == Spec => []EvidenceBrackets
PROOF
  <1>1. IInv => EvidenceBrackets
    <2> SUFFICES ASSUME IInv, NEW t \in Tasks, At(t, "record")
                 PROVE  /\ task[t].before.page = task[t].page
                        /\ task[t].after.page = task[t].page
                        /\ task[t].before.by = task[t].id
                        /\ task[t].after.by = task[t].id
                        /\ task[t].before.v <= task[t].from
                        /\ task[t].to <= task[t].after.v
      BY DEF EvidenceBrackets
    <2>1. Fits(task[t], nextId, page, diff) /\ task[t].pc = "record"
      BY DEF IInv, EachFits, At
    <2>2. task[t].id # 0
      BY <2>1 DEF Fits, ShapeOf, IdOf
    <2> QED BY <2>1, <2>2 DEF Fits, BracketOf, Answered
  <1> QED BY <1>1, Invariance, PTL

\* Who acts alone leaves its own before and after states in DiffState.
THEOREM LoneSafety == Spec => []LoneCommandLeavesAPair
PROOF
  <1>1. IInv => LoneCommandLeavesAPair
    <2> SUFFICES ASSUME IInv, NEW t \in Tasks, At(t, "record"),
                        task[t].method = "act", task[t].alone
                 PROVE  /\ diff.before.by = task[t].id
                        /\ diff.after.by = task[t].id
                        /\ diff.before.page = diff.after.page
      BY DEF LoneCommandLeavesAPair
    <2>1. Fits(task[t], nextId, page, diff) /\ task[t].pc = "record"
      BY DEF IInv, EachFits, At
    <2>2. task[t].alone \in BOOLEAN
      BY DEF IInv, TypeOK, Commands
    <2>3. task[t].alone = TRUE
      BY <2>2
    <2> QED BY <2>1, <2>3 DEF Fits, LoneOf, Answered
  <1> QED BY <1>1, Invariance, PTL
=============================================================================
