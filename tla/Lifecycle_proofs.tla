--------------------------- MODULE Lifecycle_proofs ---------------------------
(***************************************************************************)
(* Proofs about Lifecycle, for any number of clients and daemons.          *)
(*                                                                         *)
(* SoleDaemon is far from inductive: it rests on what each place of the    *)
(* protocol knows.  A daemon that counts (alive, not orphaned) and has     *)
(* written its PID is in the PID file (Vouched), so there is at most one.  *)
(* One that has not is the child some client waits for (Awaited), and that *)
(* client holds the startup lock (LockDiscipline).  Before it spawned, it  *)
(* had found no live PID, hence no daemon that counts, and nobody could    *)
(* start one since (NobodyElse).                                           *)
(*                                                                         *)
(* The promises of stop and of the retry are histories.  What had a PID    *)
(* when stop began was vouched for, so it is the daemon stop waits for, or *)
(* it is lost already, and stays lost (StopProgress); a daemon a request   *)
(* went to is the one its client is still asking, or is lost               *)
(* (RetryProgress).  Both need the histories to name daemons that were     *)
(* born, for what is not yet born is not alive either (HistoryKnown).      *)
(***************************************************************************)
EXTENDS Lifecycle, TLAPS

-----------------------------------------------------------------------------
(* The inductive invariant.                                                *)

Holding == {"check", "waitReady", "recover", "kill", "heal", "clean", "spawn",
            "awaitChild"}
Replacing == {"recover", "kill", "heal", "clean", "spawn"}
Asking == {"sent", "executed", "failed"}
Asked(c) == ran[c] \cup {d \in Daemons : <<c, d>> \in inbox}
Lost(d) == ~Live(d) \/ d \in orphaned

\* A live daemon that has written its PID is in the PID file, or is orphaned.
Vouched == \A d \in Daemons : HasPid(d) /\ d \notin orphaned => pidFile = d

\* One that has not is the child of a client that waits for it.
Awaited ==
  \A d \in Daemons : state[d] \in Unclaimed /\ d \notin orphaned =>
    \E c \in Clients : at[c] = "awaitChild" /\ job[c] = d

\* Who holds the lock, and where.
LockDiscipline ==
  \A c \in Clients :
    /\ at[c] \in {"check", "spawn", "awaitChild"} => lock = c
    /\ lock = c => at[c] \in Holding

\* While the lock's holder replaces a daemon there is none, and while it
\* waits for its child there is no other.
NobodyElse ==
  \A c \in Clients : \A d \in Daemons :
    /\ lock = c /\ at[c] \in Replacing => Lost(d)
    /\ at[c] = "awaitChild" => Lost(d) \/ job[c] = d

\* Histories name daemons that exist.
HistoryKnown ==
  \A c \in Clients :
    /\ \A d \in before[c] : state[d] # "unborn"
    /\ \A d \in Asked(c) : HasPid(d) \/ state[d] = "dead"

StopProgress ==
  \A c \in Clients : \A d \in before[c] :
    /\ at[c] = "stopWait" => Lost(d) \/ job[c] = d
    /\ at[c] \in {"stopBrowsers", "stopFinish"} => Lost(d)

RetryProgress ==
  \A c \in Clients : \A d \in Asked(c) :
    \/ at[c] \in Asking /\ job[c] = d
    \/ retried[c] /\ Lost(d)

IInv ==
  /\ TypeOK
  /\ Vouched
  /\ Awaited
  /\ LockDiscipline
  /\ NobodyElse
  /\ HistoryKnown
  /\ StopProgress
  /\ RetryProgress

-----------------------------------------------------------------------------
(* Type correctness.                                                       *)

LEMMA ProfileType == TypeOK => Profile \in BOOLEAN
<1> SUFFICES ASSUME TypeOK, manifest # None PROVE manifest.profile \in BOOLEAN
  BY DEF Profile
<1> QED
  BY DEF TypeOK, Manifests

LEMMA TypeStep == TypeOK /\ [Next]_vars => TypeOK'
<1> SUFFICES ASSUME TypeOK, [Next]_vars PROVE TypeOK'
  OBVIOUS
<1> USE DEF TypeOK, Places, Manifests, Unclaimed, Starting, Up, files, clientVars, history
<1>1. CASE UNCHANGED vars
  BY <1>1 DEF vars
<1>2. ASSUME Next PROVE orphaned' \subseteq Daemons
  BY <1>2 DEF Next, Stranded
<1> Profile \in BOOLEAN
  BY ProfileType
<1>3. ASSUME NEW c \in Clients, ClientStep(c), orphaned' \subseteq Daemons PROVE TypeOK'
  <2>1. CASE Request(c)
    BY <1>3, <2>1 DEF Request, Goto
  <2>2. CASE TryLock(c)
    BY <1>3, <2>2 DEF TryLock, Goto
  <2>3. CASE SeesReady(c)
    BY <1>3, <2>3 DEF SeesReady, Goto, Release
  <2>4. CASE WaitTimesOut(c)
    BY <1>3, <2>4 DEF WaitTimesOut, Goto, End, Release, Forget
  <2>5. CASE FindAlive(c)
    BY <1>3, <2>5 DEF FindAlive, Goto, Release
  <2>6. CASE FindDead(c)
    BY <1>3, <2>6 DEF FindDead, Goto
  <2>7. CASE NothingToRecover(c)
    BY <1>3, <2>7 DEF NothingToRecover, Goto
  <2>8. CASE FindStale(c)
    BY <1>3, <2>8 DEF FindStale, Goto
  <2>9. CASE KillBrowsers(c)
    BY <1>3, <2>9 DEF KillBrowsers, Goto
  <2>10. CASE KillFails(c)
    BY <1>3, <2>10 DEF KillFails, Goto, End, Release, Forget
  <2>11. CASE Heal(c)
    BY <1>3, <2>11 DEF Heal, Goto, RemoveFiles, MarkStopped
  <2>12. CASE Clean(c)
    BY <1>3, <2>12 DEF Clean, Goto, RemoveFiles
  <2>13. ASSUME NEW d \in Daemons, Spawn(c, d) PROVE TypeOK'
    BY <1>3, <2>13 DEF Spawn, Goto
  <2>14. CASE SpawnFails(c)
    BY <1>3, <2>14 DEF SpawnFails, Goto, End, Release, Forget
  <2>15. CASE ChildReady(c)
    BY <1>3, <2>15 DEF ChildReady, Goto, Release, Forget
  <2>16. CASE GiveUpOnChild(c)
    BY <1>3, <2>16 DEF GiveUpOnChild, Goto, End, Release, Forget, RemoveFiles
  <2>17. CASE Connect(c)
    BY <1>3, <2>17 DEF Connect, Goto, Connectable
  <2>18. CASE NoAnswer(c)
    BY <1>3, <2>18 DEF NoAnswer, Goto
  <2>19. CASE Reply(c)
    BY <1>3, <2>19 DEF Reply, Goto, End, Release, Forget
  <2>20. CASE ReportFailure(c)
    BY <1>3, <2>20 DEF ReportFailure, Goto, End, Release, Forget
  <2>21. CASE Retry(c)
    BY <1>3, <2>21 DEF Retry, Goto, Forget
  <2>22. CASE StopBegin(c)
    BY <1>3, <2>22 DEF StopBegin, Goto, Dies, Alive
  <2>23. CASE StopWait(c)
    BY <1>3, <2>23 DEF StopWait, Goto, Forget
  <2>24. CASE StopKill(c)
    BY <1>3, <2>24 DEF StopKill, Goto, Forget, Dies
  <2>25. CASE StopBrowsers(c)
    BY <1>3, <2>25 DEF StopBrowsers, Goto
  <2>26. CASE StopFinish(c)
    BY <1>3, <2>26 DEF StopFinish, Goto, End, Release, Forget, RemoveFiles, MarkStopped
  <2>27. CASE ClientCrash(c)
    BY <1>3, <2>27 DEF ClientCrash, Goto, End, Release, Forget
  <2> QED
    BY <1>3, <2>1, <2>2, <2>3, <2>4, <2>5, <2>6, <2>7, <2>8, <2>9, <2>10, <2>11, <2>12, <2>13, <2>14, <2>15, <2>16, <2>17, <2>18, <2>19, <2>20, <2>21, <2>22, <2>23, <2>24, <2>25, <2>26, <2>27 DEF ClientStep
<1>4. ASSUME NEW d \in Daemons, DaemonStep(d), orphaned' \subseteq Daemons PROVE TypeOK'
  <2>1. CASE CheckTransport(d)
    BY <1>4, <2>1 DEF CheckTransport, RemoveFiles
  <2>2. CASE WritePid(d)
    BY <1>4, <2>2 DEF WritePid
  <2>3. CASE Launch(d)
    BY <1>4, <2>3 DEF Launch
  <2>4. CASE Bind(d)
    BY <1>4, <2>4 DEF Bind
  <2>5. CASE SyncManifest(d)
    BY <1>4, <2>5 DEF SyncManifest
  <2>6. CASE IdleShutdown(d)
    BY <1>4, <2>6 DEF IdleShutdown
  <2>7. CASE Close(d)
    BY <1>4, <2>7 DEF Close
  <2>8. CASE Exit(d)
    BY <1>4, <2>8 DEF Exit, Dies, RemoveFiles
  <2>9. CASE DaemonCrash(d)
    BY <1>4, <2>9 DEF DaemonCrash, Dies
  <2>10. ASSUME NEW c \in Clients, Execute(d, c) PROVE TypeOK'
    BY <1>4, <2>10 DEF Execute, Goto
  <2> QED
    BY <1>4, <2>1, <2>2, <2>3, <2>4, <2>5, <2>6, <2>7, <2>8, <2>9, <2>10 DEF DaemonStep
<1> QED
  BY <1>1, <1>2, <1>3, <1>4 DEF Next

-----------------------------------------------------------------------------
(* What a step does to one daemon, one client, the PID file, the lock.     *)

\* A daemon goes through its states in order, or dies; only a spawn begins it
\* and only writing its PID ends its being unclaimed.
Steps(d) ==
  \/ state'[d] = state[d]
  \/ state'[d] = "dead"
  \/ state[d] = "unborn" /\ state'[d] = "spawned" /\ \E c \in Clients : Spawn(c, d)
  \/ state[d] = "spawned" /\ state'[d] = "clear"
  \/ state[d] = "clear" /\ state'[d] = "starting" /\ pidFile' = d
  \/ HasPid(d) /\ HasPid(d)'

LEMMA StateSteps ==
  ASSUME TypeOK, [Next]_vars, NEW d \in Daemons
  PROVE  Steps(d)
<1> USE DEF Steps, HasPid, Starting, Up, Unclaimed
<1>1. CASE UNCHANGED vars
  BY <1>1 DEF vars
<1>2. ASSUME NEW c \in Clients, ClientStep(c) PROVE Steps(d)
  <2>1. \/ UNCHANGED state
        \/ \E e \in Daemons : Spawn(c, e)
        \/ StopBegin(c)
        \/ StopKill(c)
    BY <1>2 DEF ClientStep, Request, TryLock, SeesReady, WaitTimesOut,
       FindAlive, FindDead, NothingToRecover, FindStale, KillBrowsers,
       KillFails, Heal, Clean, SpawnFails, ChildReady, GiveUpOnChild, Connect,
       NoAnswer, Reply, ReportFailure, Retry, StopWait, StopBrowsers,
       StopFinish, ClientCrash
  <2>2. ASSUME NEW e \in Daemons, Spawn(c, e) PROVE Steps(d)
    BY <2>2 DEF TypeOK, Spawn
  <2>3. CASE StopBegin(c)
    BY <2>3 DEF TypeOK, StopBegin, Dies, Alive
  <2>4. CASE StopKill(c)
    BY <2>4 DEF TypeOK, StopKill, Dies
  <2> QED
    BY <2>1, <2>2, <2>3, <2>4
<1>3. ASSUME NEW e \in Daemons, DaemonStep(e) PROVE Steps(d)
  BY <1>3 DEF TypeOK, DaemonStep, CheckTransport, WritePid, Launch, Bind,
     SyncManifest, IdleShutdown, Close, Exit, DaemonCrash, Execute, Dies
<1> QED
  BY <1>1, <1>2, <1>3 DEF Next

\* A client is left alone by what others do, but for the execution of its
\* request.
Untouched(c) ==
  /\ at'[c] = at[c] /\ job'[c] = job[c]
  /\ retried'[c] = retried[c]
  /\ before'[c] = before[c]
  /\ lock' = c <=> lock = c

LEMMA OthersSteps ==
  ASSUME TypeOK, [Next]_vars, NEW c \in Clients, ~ClientStep(c)
  PROVE  /\ \/ Untouched(c) /\ ran'[c] = ran[c]
            \/ \E d \in Daemons : Execute(d, c)
         /\ \A d \in Daemons : <<c, d>> \in inbox' => <<c, d>> \in inbox
<1> USE NoneIsNobody DEF Untouched, files, clientVars, history
<1>1. CASE UNCHANGED vars
  BY <1>1 DEF vars
<1>2. ASSUME NEW x \in Clients, ClientStep(x), x # c
      PROVE  /\ Untouched(c) /\ ran'[c] = ran[c]
             /\ \A d \in Daemons : <<c, d>> \in inbox' => <<c, d>> \in inbox
  <2>1. CASE End(x)
    BY <1>2, <2>1 DEF TypeOK, End, Goto, Release, Forget
  <2>2. CASE Connect(x)
    BY <1>2, <2>2 DEF TypeOK, Connect, Goto
  <2>3. CASE StopBegin(x)
    BY <1>2, <2>3 DEF TypeOK, StopBegin, Goto, Dies
  <2>4. CASE StopKill(x)
    BY <1>2, <2>4 DEF TypeOK, StopKill, Goto, Forget, Dies
  <2>5. CASE \/ SeesReady(x) \/ FindAlive(x) \/ ChildReady(x) \/ TryLock(x)
    BY <1>2, <2>5 DEF TypeOK, SeesReady, FindAlive, ChildReady, TryLock, Goto,
       Release, Forget
  <2>6. CASE \/ Request(x) \/ FindDead(x) \/ NothingToRecover(x)
            \/ FindStale(x) \/ KillBrowsers(x) \/ Heal(x) \/ Clean(x)
            \/ NoAnswer(x) \/ StopBrowsers(x)
    BY <1>2, <2>6 DEF TypeOK, Request, FindDead, NothingToRecover, FindStale,
       KillBrowsers, Heal, Clean, NoAnswer, StopBrowsers, Goto
  <2>7. CASE Retry(x) \/ StopWait(x)
    BY <1>2, <2>7 DEF TypeOK, Retry, StopWait, Goto, Forget
  <2>8. ASSUME NEW d \in Daemons, Spawn(x, d)
        PROVE  /\ Untouched(c) /\ ran'[c] = ran[c]
               /\ inbox' = inbox
    BY <1>2, <2>8 DEF TypeOK, Spawn, Goto
  <2> QED
    BY <1>2, <2>1, <2>2, <2>3, <2>4, <2>5, <2>6, <2>7, <2>8
    DEF ClientStep, WaitTimesOut, KillFails, SpawnFails, GiveUpOnChild, Reply,
        ReportFailure, StopFinish, ClientCrash
<1>3. ASSUME NEW e \in Daemons, DaemonStep(e)
      PROVE  /\ \/ Untouched(c) /\ ran'[c] = ran[c]
                \/ \E d \in Daemons : Execute(d, c)
             /\ \A d \in Daemons : <<c, d>> \in inbox' => <<c, d>> \in inbox
  <2>1. ASSUME NEW x \in Clients, x # c, Execute(e, x)
        PROVE  /\ Untouched(c) /\ ran'[c] = ran[c]
               /\ inbox' \subseteq inbox
    BY <2>1 DEF TypeOK, Execute, Goto
  <2>2. CASE Execute(e, c)
    BY <2>2 DEF Execute
  <2>3. CASE \A x \in Clients : ~Execute(e, x)
    BY <1>3, <2>3 DEF TypeOK, DaemonStep, CheckTransport, WritePid, Launch,
       Bind, SyncManifest, IdleShutdown, Close, Exit, DaemonCrash, Dies
  <2> QED
    BY <2>1, <2>2, <2>3
<1> QED
  BY <1>1, <1>2, <1>3 DEF Next

\* A live daemon is orphaned after the step if it was before, or is stranded
\* by it.
LEMMA OrphanSteps ==
  ASSUME TypeOK, [Next]_vars, NEW d \in Daemons, Live(d)'
  PROVE  d \in orphaned' <=> d \in orphaned \cup Stranded
<1>1. CASE UNCHANGED vars
  BY <1>1 DEF vars, files, clientVars, Stranded
<1>2. CASE Next
  <2>1. orphaned' = {e \in orphaned \cup Stranded : Live(e)'}
    BY <1>2 DEF Next
  <2> QED
    BY <2>1 DEF Live, HasPid
<1> QED
  BY <1>1, <1>2

\* What is lost stays lost, unless it is only born now.
LEMMA LostStays ==
  ASSUME TypeOK, [Next]_vars, NEW d \in Daemons, Lost(d),
         state[d] = "unborn" => state'[d] = "unborn"
  PROVE  Lost(d)'
<1>1. Steps(d)
  BY StateSteps
<1>2. Live(d)' => Live(d)
  BY <1>1 DEF Steps, Live, HasPid, Unclaimed, Starting, Up
<1>3. Live(d)' /\ d \in orphaned => d \in orphaned'
  BY OrphanSteps
<1> QED
  BY <1>2, <1>3 DEF Lost

-----------------------------------------------------------------------------
(* The steps of the inductive invariant.                                   *)

LEMMA VouchedStep == TypeOK /\ Vouched /\ [Next]_vars => Vouched'
<1> SUFFICES ASSUME TypeOK, Vouched, [Next]_vars,
                    NEW d \in Daemons, HasPid(d)', d \notin orphaned'
             PROVE  pidFile' = d
  BY DEF Vouched
<1>1. Steps(d)
  BY StateSteps
<1>2. d \notin orphaned /\ d \notin Stranded
  BY OrphanSteps DEF Live
<1>3. CASE HasPid(d)
  BY <1>2, <1>3 DEF Vouched, Stranded, Live
<1>4. CASE ~HasPid(d)
  BY <1>1, <1>4 DEF Steps, HasPid, Starting, Up
<1> QED
  BY <1>3, <1>4

\* A client that waits for its child has just spawned it, or goes on waiting.
LEMMA AwaitSteps ==
  ASSUME TypeOK, [Next]_vars, NEW c \in Clients, at'[c] = "awaitChild"
  PROVE  \/ at[c] = "awaitChild" /\ job'[c] = job[c] /\ ~ClientStep(c)
         \/ \E d \in Daemons : Spawn(c, d)
<1>1. CASE ~ClientStep(c)
  <2>1. CASE \E d \in Daemons : Execute(d, c)
    BY <1>1, <2>1 DEF TypeOK, Execute, Goto
  <2> QED
    BY <1>1, <2>1, OthersSteps DEF Untouched
<1>2. CASE ClientStep(c)
  BY <1>2 DEF TypeOK, ClientStep, Request, TryLock, SeesReady, WaitTimesOut,
     FindAlive, FindDead, NothingToRecover, FindStale, KillBrowsers, KillFails,
     Heal, Clean, SpawnFails, ChildReady, GiveUpOnChild, Connect, NoAnswer,
     Reply, ReportFailure, Retry, StopBegin, StopWait, StopKill, StopBrowsers,
     StopFinish, ClientCrash, Goto, End
<1> QED
  BY <1>1, <1>2

LEMMA AwaitedStep == TypeOK /\ Awaited /\ [Next]_vars => Awaited'
<1> SUFFICES ASSUME TypeOK, Awaited, [Next]_vars,
                    NEW d \in Daemons, state'[d] \in Unclaimed, d \notin orphaned'
             PROVE  \E c \in Clients : at'[c] = "awaitChild" /\ job'[c] = d
  BY DEF Awaited
<1>1. Steps(d)
  BY StateSteps
<1>2. d \notin orphaned /\ d \notin Stranded
  BY OrphanSteps DEF Live
<1>3. ASSUME NEW c \in Clients, Spawn(c, d)
      PROVE  at'[c] = "awaitChild" /\ job'[c] = d
  BY <1>3 DEF TypeOK, Spawn, Goto
<1>4. CASE state[d] \in Unclaimed
  <2>1. PICK c \in Clients : at[c] = "awaitChild" /\ job[c] = d
    BY <1>2, <1>4 DEF Awaited
  <2>2. at'[c] = "awaitChild"
    BY <1>2, <2>1 DEF Stranded
  <2>3. \A e \in Daemons : ~Spawn(c, e)
    BY <2>1 DEF Spawn
  <2> QED
    BY <2>1, <2>2, <2>3, AwaitSteps
<1> QED
  BY <1>1, <1>3, <1>4 DEF Steps, Unclaimed, HasPid, Starting, Up

LEMMA LockStep == TypeOK /\ LockDiscipline /\ [Next]_vars => LockDiscipline'
<1> SUFFICES ASSUME TypeOK, LockDiscipline, [Next]_vars, NEW c \in Clients
             PROVE  /\ at'[c] \in {"check", "spawn", "awaitChild"} => lock' = c
                    /\ lock' = c => at'[c] \in Holding
  BY DEF LockDiscipline
<1> USE NoneIsNobody DEF LockDiscipline, Holding
<1>1. CASE ~ClientStep(c)
  <2>1. ASSUME NEW d \in Daemons, Execute(d, c)
        PROVE  /\ lock' = lock
               /\ at'[c] = at[c] \/ (at[c] = "sent" /\ at'[c] = "executed")
    BY <2>1 DEF TypeOK, Execute, Goto
  <2>2. \/ Untouched(c)
        \/ \E d \in Daemons : Execute(d, c)
    BY <1>1, OthersSteps
  <2> QED
    BY <2>1, <2>2 DEF Untouched
<1>2. CASE ClientStep(c)
  <2>1. CASE End(c)
    BY <2>1 DEF TypeOK, End, Goto, Release
  <2>2. CASE \/ SeesReady(c) \/ FindAlive(c) \/ ChildReady(c) \/ TryLock(c)
    BY <2>2 DEF TypeOK, SeesReady, FindAlive, ChildReady, TryLock, Goto, Release
  <2>3. CASE \/ FindDead(c) \/ NothingToRecover(c) \/ FindStale(c)
            \/ KillBrowsers(c) \/ Heal(c) \/ Clean(c)
            \/ \E d \in Daemons : Spawn(c, d)
    BY <2>3 DEF TypeOK, FindDead, NothingToRecover, FindStale, KillBrowsers,
       Heal, Clean, Spawn, Goto
  <2>4. CASE \/ Request(c) \/ Connect(c) \/ NoAnswer(c) \/ Retry(c)
            \/ StopBegin(c) \/ StopWait(c) \/ StopKill(c) \/ StopBrowsers(c)
    BY <2>4 DEF TypeOK, Request, Connect, NoAnswer, Retry, StopBegin, StopWait,
       StopKill, StopBrowsers, Goto
  <2> QED
    BY <1>2, <2>1, <2>2, <2>3, <2>4
    DEF ClientStep, WaitTimesOut, KillFails, SpawnFails, GiveUpOnChild, Reply,
        ReportFailure, StopFinish, ClientCrash
<1> QED
  BY <1>1, <1>2

\* A client that replaces a daemon under the lock has just found it dead, or
\* goes on replacing it.
LEMMA ReplaceSteps ==
  ASSUME TypeOK, LockDiscipline, [Next]_vars,
         NEW c \in Clients, lock' = c, at'[c] \in Replacing
  PROVE  (lock = c /\ at[c] \in Replacing) \/ FindDead(c)
<1> USE NoneIsNobody DEF LockDiscipline, Holding, Replacing
<1>1. CASE ~ClientStep(c)
  <2>1. ASSUME NEW d \in Daemons, Execute(d, c)
        PROVE  /\ lock' = lock
               /\ at'[c] = at[c] \/ (at[c] = "sent" /\ at'[c] = "executed")
    BY <2>1 DEF TypeOK, Execute, Goto
  <2>2. \/ Untouched(c)
        \/ \E d \in Daemons : Execute(d, c)
    BY <1>1, OthersSteps
  <2> QED
    BY <2>1, <2>2 DEF Untouched
<1>2. CASE ClientStep(c)
  <2>1. CASE \/ End(c) \/ SeesReady(c) \/ FindAlive(c) \/ ChildReady(c) \/ TryLock(c)
    BY <2>1 DEF TypeOK, End, SeesReady, FindAlive, ChildReady, TryLock, Goto
  <2>2. CASE \/ NothingToRecover(c) \/ FindStale(c) \/ KillBrowsers(c)
            \/ Heal(c) \/ Clean(c) \/ \E d \in Daemons : Spawn(c, d)
    BY <2>2 DEF TypeOK, NothingToRecover, FindStale, KillBrowsers, Heal, Clean,
       Spawn, Goto
  <2>3. CASE \/ Request(c) \/ Connect(c) \/ NoAnswer(c) \/ Retry(c)
            \/ StopBegin(c) \/ StopWait(c) \/ StopKill(c) \/ StopBrowsers(c)
    BY <2>3 DEF TypeOK, Request, Connect, NoAnswer, Retry, StopBegin, StopWait,
       StopKill, StopBrowsers, Goto
  <2> QED
    BY <1>2, <2>1, <2>2, <2>3
    DEF ClientStep, WaitTimesOut, KillFails, SpawnFails, GiveUpOnChild, Reply,
        ReportFailure, StopFinish, ClientCrash
<1> QED
  BY <1>1, <1>2

\* Under the lock, no live PID in the file means no daemon that counts.
LEMMA NoneFound ==
  ASSUME TypeOK, Vouched, Awaited, LockDiscipline,
         NEW c \in Clients, FindDead(c), NEW d \in Daemons
  PROVE  Lost(d)
<1> SUFFICES ASSUME Live(d), d \notin orphaned PROVE FALSE
  BY DEF Lost
<1>1. CASE HasPid(d)
  BY <1>1, NoneIsNobody DEF Vouched, FindDead, Alive
<1>2. CASE state[d] \in Unclaimed
  <2>1. PICK x \in Clients : at[x] = "awaitChild"
    BY <1>2 DEF Awaited
  <2>2. lock = x /\ lock = c /\ at[c] = "check"
    BY <2>1 DEF LockDiscipline, FindDead
  <2> QED
    BY <2>1, <2>2
<1> QED
  BY <1>1, <1>2 DEF Live

LEMMA NobodyElseStep ==
  TypeOK /\ Vouched /\ Awaited /\ LockDiscipline /\ NobodyElse /\ [Next]_vars
    => NobodyElse'
<1> SUFFICES ASSUME TypeOK, Vouched, Awaited, LockDiscipline, NobodyElse,
                    [Next]_vars, NEW c \in Clients, NEW d \in Daemons
             PROVE  /\ lock' = c /\ at'[c] \in Replacing => Lost(d)'
                    /\ at'[c] = "awaitChild" => Lost(d)' \/ job'[c] = d
  BY DEF NobodyElse
<1>1. ASSUME NEW x \in Clients, Spawn(x, d)
      PROVE  /\ lock = x /\ at[x] = "spawn" /\ lock' = lock
             /\ at'[x] = "awaitChild" /\ job'[x] = d
             /\ at[c] = "awaitChild" => FALSE
  BY <1>1 DEF TypeOK, Spawn, Goto, LockDiscipline
<1>2. Lost(d) => Lost(d)' \/ \E x \in Clients : Spawn(x, d)
  <2>1. Steps(d)
    BY StateSteps
  <2>2. (state[d] = "unborn" => state'[d] = "unborn") \/ state'[d] = "dead"
          \/ \E x \in Clients : Spawn(x, d)
    BY <2>1 DEF Steps, HasPid, Starting, Up
  <2>3. state'[d] = "dead" => Lost(d)'
    BY DEF Lost, Live, HasPid, Starting, Up, Unclaimed
  <2> QED
    BY <2>2, <2>3, LostStays
<1>3. ASSUME lock' = c, at'[c] \in Replacing PROVE Lost(d)'
  <2>1. \A x \in Clients : ~Spawn(x, d)
    BY <1>1, <1>3 DEF Replacing
  <2>2. Lost(d)
    BY <1>3, ReplaceSteps, NoneFound DEF NobodyElse
  <2> QED
    BY <1>2, <2>1, <2>2
<1>4. ASSUME at'[c] = "awaitChild" PROVE Lost(d)' \/ job'[c] = d
  <2>1. CASE at[c] = "awaitChild" /\ job'[c] = job[c]
    BY <1>1, <1>2, <2>1 DEF NobodyElse
  <2>2. ASSUME NEW e \in Daemons, Spawn(c, e) PROVE Lost(d)' \/ job'[c] = d
    <3>1. lock = c /\ at[c] \in Replacing /\ job'[c] = e
      BY <2>2 DEF TypeOK, Spawn, LockDiscipline, Replacing
    <3>2. Lost(d)
      BY <3>1 DEF NobodyElse
    <3>3. ASSUME NEW x \in Clients, Spawn(x, d) PROVE job'[c] = d
      BY <1>1, <3>1, <3>3
    <3> QED
      BY <1>2, <3>2, <3>3
  <2> QED
    BY <1>4, <2>1, <2>2, AwaitSteps
<1> QED
  BY <1>3, <1>4

\* The histories grow with a stop's beginning and with a connection.
LEMMA BeforeSteps ==
  ASSUME TypeOK, [Next]_vars, NEW c \in Clients, NEW d \in before'[c],
         d \notin before[c]
  PROVE  StopBegin(c) /\ d \in Daemons /\ HasPid(d)
<1>1. ClientStep(c)
  <2>1. SUFFICES ASSUME ~ClientStep(c) PROVE before'[c] = before[c]
    OBVIOUS
  <2>2. ASSUME NEW e \in Daemons, Execute(e, c) PROVE before' = before
    BY <2>2 DEF Execute
  <2> QED
    BY <2>1, <2>2, OthersSteps DEF Untouched
<1>2. CASE End(c)
  BY <1>2 DEF TypeOK, End
<1>3. CASE before' = before
  BY <1>3
<1>4. CASE StopBegin(c)
  BY <1>4 DEF TypeOK, StopBegin
<1> QED
  BY <1>1, <1>2, <1>3, <1>4
  DEF ClientStep, WaitTimesOut, KillFails, SpawnFails, GiveUpOnChild, Reply,
      ReportFailure, StopFinish, ClientCrash, Request, TryLock, SeesReady,
      FindAlive, FindDead, NothingToRecover, FindStale, KillBrowsers, Heal,
      Clean, Spawn, ChildReady, Connect, NoAnswer, Retry, StopWait, StopKill,
      StopBrowsers, history

LEMMA AskedSteps ==
  ASSUME TypeOK, [Next]_vars, NEW c \in Clients, NEW d \in Asked(c)',
         d \notin Asked(c)
  PROVE  Connect(c) /\ socket = d /\ d \in Daemons /\ HasPid(d)
<1> d \in Daemons
  BY TypeStep DEF TypeOK, Asked
<1>1. CASE ~ClientStep(c)
  <2>1. CASE Untouched(c) /\ ran'[c] = ran[c]
    BY <1>1, <2>1, OthersSteps DEF Asked
  <2>2. ASSUME NEW e \in Daemons, Execute(e, c) PROVE FALSE
    BY <2>2 DEF TypeOK, Execute, Asked
  <2> QED
    BY <1>1, <2>1, <2>2, OthersSteps
<1>2. CASE End(c)
  BY <1>2 DEF TypeOK, End, Asked
<1>3. CASE Connect(c)
  BY <1>3 DEF TypeOK, Connect, Connectable, Asked, HasPid, Up, history
<1>4. CASE StopBegin(c) \/ StopKill(c)
  BY <1>4 DEF TypeOK, StopBegin, StopKill, Dies, Asked, history
<1>5. CASE ran' = ran /\ inbox' = inbox
  BY <1>5 DEF Asked
<1>6. ClientStep(c) =>
        End(c) \/ Connect(c) \/ StopBegin(c) \/ StopKill(c)
          \/ (ran' = ran /\ inbox' = inbox)
  BY DEF ClientStep, WaitTimesOut, KillFails, SpawnFails, GiveUpOnChild, Reply,
      ReportFailure, StopFinish, ClientCrash, Request, TryLock, SeesReady,
      FindAlive, FindDead, NothingToRecover, FindStale, KillBrowsers, Heal,
      Clean, Spawn, ChildReady, NoAnswer, Retry, StopWait, StopBrowsers, history
<1> QED
  BY <1>1, <1>2, <1>3, <1>4, <1>5, <1>6

LEMMA KnownStays ==
  ASSUME TypeOK, [Next]_vars, NEW d \in Daemons
  PROVE  /\ state[d] # "unborn" => state'[d] # "unborn"
         /\ HasPid(d) \/ state[d] = "dead" => HasPid(d)' \/ state'[d] = "dead"
BY StateSteps DEF Steps, HasPid, Starting, Up

LEMMA HistoryStep == TypeOK /\ HistoryKnown /\ [Next]_vars => HistoryKnown'
<1> SUFFICES ASSUME TypeOK, HistoryKnown, [Next]_vars, NEW c \in Clients
             PROVE  /\ \A d \in before'[c] : state'[d] # "unborn"
                    /\ \A d \in Asked(c)' : HasPid(d)' \/ state'[d] = "dead"
  BY DEF HistoryKnown
<1>1. ASSUME NEW d \in before'[c] PROVE state'[d] # "unborn"
  <2>1. d \in Daemons
    BY TypeStep DEF TypeOK
  <2>2. state[d] # "unborn"
    BY BeforeSteps DEF HistoryKnown, HasPid, Starting, Up
  <2> QED
    BY <2>1, <2>2, KnownStays
<1>2. ASSUME NEW d \in Asked(c)' PROVE HasPid(d)' \/ state'[d] = "dead"
  <2>1. d \in Daemons
    BY TypeStep DEF TypeOK, Asked
  <2>2. HasPid(d) \/ state[d] = "dead"
    BY AskedSteps DEF HistoryKnown
  <2> QED
    BY <2>1, <2>2, KnownStays
<1> QED
  BY <1>1, <1>2

\* Without a live PID in the file, a daemon that has written its PID is lost;
\* with one, every other is.
LEMMA OnlyTheVouched ==
  ASSUME TypeOK, Vouched, NEW d \in Daemons, HasPid(d) \/ state[d] = "dead",
         ~Alive \/ pidFile # d
  PROVE  Lost(d)
<1>1. CASE HasPid(d)
  BY <1>1, NoneIsNobody DEF Vouched, Alive, Lost, Live
<1>2. CASE state[d] = "dead"
  BY <1>2 DEF Lost, Live, HasPid, Unclaimed, Starting, Up
<1> QED
  BY <1>1, <1>2

LEMMA StopPlaces ==
  ASSUME TypeOK, [Next]_vars, NEW c \in Clients, ~StopBegin(c)
  PROVE  /\ at'[c] = "stopWait" => at[c] = "stopWait" /\ job'[c] = job[c]
         /\ at'[c] \in {"stopBrowsers", "stopFinish"} =>
              \/ at[c] \in {"stopBrowsers", "stopFinish"}
              \/ StopWait(c)
              \/ StopKill(c)
<1>1. CASE ~ClientStep(c)
  <2>1. ASSUME NEW d \in Daemons, Execute(d, c)
        PROVE  /\ job' = job
               /\ at'[c] = at[c] \/ at'[c] = "executed"
    BY <2>1 DEF TypeOK, Execute, Goto
  <2>2. \/ Untouched(c)
        \/ \E d \in Daemons : Execute(d, c)
    BY <1>1, OthersSteps
  <2> QED
    BY <2>1, <2>2 DEF Untouched
<1>2. CASE ClientStep(c)
  <2>1. CASE \/ End(c) \/ SeesReady(c) \/ FindAlive(c) \/ ChildReady(c) \/ TryLock(c)
    BY <2>1 DEF TypeOK, End, SeesReady, FindAlive, ChildReady, TryLock, Goto
  <2>2. CASE \/ FindDead(c) \/ NothingToRecover(c) \/ FindStale(c)
            \/ KillBrowsers(c) \/ Heal(c) \/ Clean(c)
            \/ \E d \in Daemons : Spawn(c, d)
    BY <2>2 DEF TypeOK, FindDead, NothingToRecover, FindStale, KillBrowsers,
       Heal, Clean, Spawn, Goto
  <2>3. CASE \/ Request(c) \/ Connect(c) \/ NoAnswer(c) \/ Retry(c)
            \/ StopBrowsers(c)
    BY <2>3 DEF TypeOK, Request, Connect, NoAnswer, Retry, StopBrowsers, Goto
  <2>4. CASE StopWait(c) \/ StopKill(c)
    BY <2>4 DEF TypeOK, StopWait, StopKill, Goto
  <2> QED
    BY <1>2, <2>1, <2>2, <2>3, <2>4
    DEF ClientStep, WaitTimesOut, KillFails, SpawnFails, GiveUpOnChild, Reply,
        ReportFailure, StopFinish, ClientCrash
<1> QED
  BY <1>1, <1>2

LEMMA StopStep ==
  TypeOK /\ Vouched /\ HistoryKnown /\ StopProgress /\ [Next]_vars
    => StopProgress'
<1> SUFFICES ASSUME TypeOK, Vouched, HistoryKnown, StopProgress, [Next]_vars,
                    NEW c \in Clients, NEW d \in before'[c]
             PROVE  /\ at'[c] = "stopWait" => Lost(d)' \/ job'[c] = d
                    /\ at'[c] \in {"stopBrowsers", "stopFinish"} => Lost(d)'
  BY DEF StopProgress
<1>1. d \in Daemons
  BY TypeStep DEF TypeOK
<1>2. state[d] # "unborn"
  BY BeforeSteps DEF HistoryKnown, HasPid, Starting, Up
<1>3. Lost(d) => Lost(d)'
  BY <1>1, <1>2, LostStays
<1>4. CASE StopBegin(c)
  <2>1. HasPid(d)
    BY <1>4 DEF TypeOK, StopBegin
  <2>2. CASE ~Alive
    BY <1>1, <1>3, <2>1, <2>2, OnlyTheVouched DEF Lost
  <2>3. CASE Alive
    <3>1. at'[c] = "stopWait" /\ job'[c] = pidFile
      BY <1>4, <2>3 DEF TypeOK, StopBegin, Goto
    <3>2. pidFile # d => Lost(d)
      BY <1>1, <2>1, OnlyTheVouched
    <3> QED
      BY <1>3, <3>1, <3>2
  <2> QED
    BY <2>2, <2>3
<1>5. CASE ~StopBegin(c)
  <2>1. d \in before[c]
    BY <1>5, BeforeSteps
  <2>2. CASE StopWait(c)
    <3>1. at[c] = "stopWait" /\ ~Live(job[c]) /\ at'[c] = "stopBrowsers"
      BY <2>2 DEF TypeOK, StopWait, Goto
    <3> QED
      BY <1>3, <2>1, <3>1 DEF StopProgress, Lost
  <2>3. CASE StopKill(c)
    <3>1. at[c] = "stopWait" /\ at'[c] = "stopBrowsers"
      BY <2>3 DEF TypeOK, StopKill, Goto
    <3>2. job[c] = d => Lost(d)'
      BY <1>1, <2>3 DEF TypeOK, StopKill, Dies, Lost, Live, HasPid, Unclaimed,
         Starting, Up
    <3> QED
      BY <1>3, <2>1, <3>1, <3>2 DEF StopProgress
  <2>4. CASE ~StopWait(c) /\ ~StopKill(c)
    BY <1>3, <1>5, <2>1, <2>4, StopPlaces DEF StopProgress
  <2> QED
    BY <2>2, <2>3, <2>4
<1> QED
  BY <1>4, <1>5

\* A client keeps to the daemon it has asked until it retries or ends.
LEMMA AskingSteps ==
  ASSUME TypeOK, [Next]_vars, NEW c \in Clients
  PROVE  \/ End(c)
         \/ Retry(c)
         \/ /\ retried'[c] = retried[c]
            /\ at[c] \in Asking => at'[c] \in Asking /\ job'[c] = job[c]
<1>1. CASE ~ClientStep(c)
  <2>1. ASSUME NEW d \in Daemons, Execute(d, c)
        PROVE  /\ job' = job /\ retried' = retried
               /\ at'[c] = at[c] \/ at'[c] = "executed"
    BY <2>1 DEF TypeOK, Execute, Goto
  <2>2. \/ Untouched(c)
        \/ \E d \in Daemons : Execute(d, c)
    BY <1>1, OthersSteps
  <2> QED
    BY <2>1, <2>2 DEF Untouched, Asking
<1>2. CASE NoAnswer(c)
  BY <1>2 DEF TypeOK, NoAnswer, Goto, Asking
<1>3. ClientStep(c) => \/ End(c) \/ Retry(c) \/ NoAnswer(c)
                       \/ retried' = retried /\ at[c] \notin Asking
  BY DEF ClientStep, WaitTimesOut, KillFails, SpawnFails, GiveUpOnChild, Reply,
      ReportFailure, StopFinish, ClientCrash, Request, TryLock, SeesReady,
      FindAlive, FindDead, NothingToRecover, FindStale, KillBrowsers, Heal,
      Clean, Spawn, ChildReady, Connect, StopBegin, StopWait, StopKill,
      StopBrowsers, Asking
<1> QED
  BY <1>1, <1>2, <1>3

LEMMA RetryStep ==
  TypeOK /\ Vouched /\ HistoryKnown /\ RetryProgress /\ [Next]_vars
    => RetryProgress'
<1> SUFFICES ASSUME TypeOK, Vouched, HistoryKnown, RetryProgress, [Next]_vars,
                    NEW c \in Clients, NEW d \in Asked(c)'
             PROVE  \/ at'[c] \in Asking /\ job'[c] = d
                    \/ retried'[c] /\ Lost(d)'
  BY DEF RetryProgress
<1>1. d \in Daemons
  BY TypeStep DEF TypeOK, Asked
<1>2. CASE d \notin Asked(c)
  BY <1>2, AskedSteps DEF TypeOK, Connect, Goto, Asking
<1>3. CASE d \in Asked(c)
  <2>1. HasPid(d) \/ state[d] = "dead"
    BY <1>3 DEF HistoryKnown
  <2>2. Lost(d) => Lost(d)'
    BY <1>1, <2>1, LostStays DEF HasPid, Starting, Up
  <2>3. CASE End(c)
    BY <1>1, <2>3 DEF TypeOK, End, Asked
  <2>4. CASE Retry(c)
    BY <1>1, <2>1, <2>2, <2>4, OnlyTheVouched DEF TypeOK, Retry
  <2>5. CASE ~End(c) /\ ~Retry(c)
    BY <1>3, <2>2, <2>5, AskingSteps DEF RetryProgress
  <2> QED
    BY <2>3, <2>4, <2>5
<1> QED
  BY <1>2, <1>3

-----------------------------------------------------------------------------
(* The theorems.                                                           *)

LEMMA InitInvariant == Init => IInv
<1> SUFFICES ASSUME Init PROVE IInv
  OBVIOUS
<1> USE DEF Init
<1>1. TypeOK
  BY DEF TypeOK, Places, Manifests
<1>2. \A d \in Daemons : ~Live(d)
  BY DEF Live, HasPid, Unclaimed, Starting, Up
<1>3. Vouched /\ Awaited /\ NobodyElse
  BY <1>2 DEF Vouched, Awaited, NobodyElse, Lost, Live
<1>4. LockDiscipline
  BY NoneIsNobody DEF LockDiscipline
<1>5. HistoryKnown /\ StopProgress /\ RetryProgress
  BY DEF HistoryKnown, StopProgress, RetryProgress, Asked
<1> QED
  BY <1>1, <1>3, <1>4, <1>5 DEF IInv

LEMMA StepInvariant == IInv /\ [Next]_vars => IInv'
BY TypeStep, VouchedStep, AwaitedStep, LockStep, NobodyElseStep, HistoryStep,
   StopStep, RetryStep
DEF IInv

\* What every process knows at every place of start, use, recovery and stop.
THEOREM Invariance == Spec => []IInv
BY InitInvariant, StepInvariant, PTL DEF Spec

\* Every variable keeps its type, whatever the number of processes.
THEOREM TypeCorrect == Spec => []TypeOK
<1>1. IInv => TypeOK
  BY DEF IInv
<1> QED
  BY <1>1, Invariance, PTL

\* A session has one daemon: of two that live, one has been orphaned.  Two
\* that count would both be in the PID file, or one of them is the child some
\* client waits for under the lock, when there is no other.
THEOREM OneDaemon == Spec => []SoleDaemon
<1>1. IInv => SoleDaemon
  <2> SUFFICES ASSUME IInv, NEW d \in Daemons, NEW e \in Daemons,
                      Live(d), Live(e), d # e, d \notin orphaned, e \notin orphaned
               PROVE  FALSE
    BY DEF SoleDaemon
  <2>1. CASE HasPid(d) /\ HasPid(e)
    BY <2>1 DEF IInv, Vouched
  <2>2. CASE state[d] \in Unclaimed
    <3>1. PICK c \in Clients : at[c] = "awaitChild" /\ job[c] = d
      BY <2>2 DEF IInv, Awaited
    <3> QED
      BY <3>1 DEF IInv, NobodyElse, Lost
  <2>3. CASE state[e] \in Unclaimed
    <3>1. PICK c \in Clients : at[c] = "awaitChild" /\ job[c] = e
      BY <2>3 DEF IInv, Awaited
    <3> QED
      BY <3>1 DEF IInv, NobodyElse, Lost
  <2> QED
    BY <2>1, <2>2, <2>3 DEF Live
<1> QED
  BY <1>1, Invariance, PTL

\* When stop cleans up, what had written its PID before has ended or was
\* orphaned.
THEOREM StopEnds == Spec => []StopEndsTheDaemon
<1>1. IInv => StopEndsTheDaemon
  BY DEF IInv, StopProgress, StopEndsTheDaemon, Lost
<1> QED
  BY <1>1, Invariance, PTL

\* A request is sent again only after a loss.
THEOREM RetryAfterLoss == Spec => []RetriedOnlyAfterLoss
<1>1. IInv => RetriedOnlyAfterLoss
  BY DEF IInv, RetryProgress, RetriedOnlyAfterLoss, Asked, Lost
<1> QED
  BY <1>1, Invariance, PTL

-----------------------------------------------------------------------------
(* What may orphan a daemon.                                               *)

Excused ==
  \/ \E c \in Clients :
       /\ at'[c] # at[c]
       /\ \/ at[c] \in {"stopFinish", "awaitChild"}
          \/ at[c] \in {"heal", "clean"} /\ lock # c
  \/ \E e \in orphaned : state'[e] # state[e]

\* The PID file changes hands in few ways.
LEMMA PidSteps ==
  ASSUME TypeOK, Next, pidFile' # pidFile
  PROVE  \/ \E c \in Clients : Heal(c) \/ Clean(c) \/ GiveUpOnChild(c) \/ StopFinish(c)
         \/ \E e \in Daemons :
              WritePid(e) \/ Exit(e) \/ (state[e] = "spawned" /\ ~Alive)
<1>1. ASSUME NEW c \in Clients, ClientStep(c)
      PROVE  Heal(c) \/ Clean(c) \/ GiveUpOnChild(c) \/ StopFinish(c)
  BY <1>1 DEF ClientStep, Request, TryLock, SeesReady, WaitTimesOut, FindAlive,
     FindDead, NothingToRecover, FindStale, KillBrowsers, KillFails, Spawn,
     SpawnFails, ChildReady, Connect, NoAnswer, Reply, ReportFailure, Retry,
     StopBegin, StopWait, StopKill, StopBrowsers, ClientCrash, files
<1>2. ASSUME NEW e \in Daemons, DaemonStep(e)
      PROVE  WritePid(e) \/ Exit(e) \/ (state[e] = "spawned" /\ ~Alive)
  BY <1>2 DEF DaemonStep, CheckTransport, Launch, Bind, SyncManifest,
     IdleShutdown, Close, DaemonCrash, Execute, files
<1> QED
  BY <1>1, <1>2 DEF Next

LEMMA Causes ==
  ASSUME IInv, Next, NEW d \in orphaned', d \notin orphaned
  PROVE  Excused
<1> USE DEF IInv
<1>1. d \in Daemons /\ d \in Stranded
  <2>1. d \in orphaned \cup Stranded
    BY DEF Next
  <2> QED
    BY <2>1 DEF Stranded
<1>2. CASE \E c \in Clients :
             at[c] = "awaitChild" /\ job[c] = d /\ at'[c] # "awaitChild"
  BY <1>2 DEF Excused
<1>3. CASE pidFile = d /\ pidFile' # d /\ Live(d)'
  <2>0. ~Lost(d) /\ Alive
    <3>1. \A c \in Clients : ~Spawn(c, d)
      BY <1>3 DEF Spawn, files
    <3>2. Live(d)
      BY <1>1, <1>3, <3>1, StateSteps
      DEF Steps, Live, HasPid, Unclaimed, Starting, Up
    <3> QED
      BY <1>1, <1>3, <3>2, NoneIsNobody DEF Lost, Alive
  <2>1. ASSUME NEW c \in Clients, Heal(c) \/ Clean(c) \/ GiveUpOnChild(c) \/ StopFinish(c)
        PROVE  Excused
    <3>1. CASE Heal(c) \/ Clean(c)
      <4>1. at[c] \in {"heal", "clean"} /\ at'[c] # at[c]
        BY <3>1 DEF TypeOK, Heal, Clean, Goto
      <4>2. lock # c
        BY <1>1, <2>0, <4>1 DEF NobodyElse, Replacing
      <4> QED
        BY <4>1, <4>2 DEF Excused
    <3>2. CASE GiveUpOnChild(c) \/ StopFinish(c)
      <4>1. at[c] \in {"stopFinish", "awaitChild"} /\ at'[c] # at[c]
        BY <3>2 DEF TypeOK, GiveUpOnChild, StopFinish, End, Goto
      <4> QED
        BY <4>1 DEF Excused
    <3> QED
      BY <2>1, <3>1, <3>2
  <2>2. ASSUME NEW e \in Daemons, WritePid(e) PROVE Excused
    <3>1. state[e] = "clear" /\ state'[e] # state[e] /\ pidFile' = e
      BY <2>2 DEF TypeOK, WritePid
    <3>2. e \in orphaned
      <4> SUFFICES ASSUME e \notin orphaned PROVE FALSE
        OBVIOUS
      <4>1. PICK c \in Clients : at[c] = "awaitChild" /\ job[c] = e
        BY <3>1 DEF Awaited, Unclaimed
      <4>2. e = d
        BY <1>1, <2>0, <4>1 DEF NobodyElse
      <4> QED
        BY <1>3, <3>1, <4>2
    <3> QED
      BY <3>1, <3>2 DEF Excused
  <2>3. ASSUME NEW e \in Daemons, Exit(e) PROVE Excused
    <3>1. HasPid(e) /\ state[e] # "dead" /\ state'[e] = "dead"
      BY <2>3 DEF TypeOK, Exit, Dies, HasPid, Up
    <3>2. e # d
      BY <1>3, <3>1 DEF Live, HasPid, Unclaimed, Starting, Up
    <3>3. e \in orphaned
      BY <1>3, <3>1, <3>2 DEF Vouched
    <3> QED
      BY <3>1, <3>3 DEF Excused
  <2> QED
    BY <1>3, <2>0, <2>1, <2>2, <2>3, PidSteps
<1> QED
  BY <1>1, <1>2, <1>3 DEF Stranded

\* A live daemon is orphaned by a stop, by a starter that leaves its child, by
\* a retry without the lock, or by an orphan, and by nothing else.
THEOREM OnlyTheseOrphan == Spec => OrphanedOnlyBy
<1>1. IInv /\ [Next]_vars => [orphaned' \ orphaned # {} => Excused]_vars
  <2> SUFFICES ASSUME IInv, Next, orphaned' \ orphaned # {} PROVE Excused
    OBVIOUS
  <2> QED
    BY Causes
<1>2. [][orphaned' \ orphaned # {} => Excused]_vars => OrphanedOnlyBy
  BY PTL DEF OrphanedOnlyBy, Excused
<1> QED
  BY <1>1, <1>2, Invariance, PTL DEF Spec
=============================================================================
