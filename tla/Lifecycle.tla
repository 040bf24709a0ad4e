------------------------------ MODULE Lifecycle ------------------------------
(***************************************************************************)
(* One session's daemon, the files that stand for it, and the command-line *)
(* clients that start it, use it, recover it and stop it.                  *)
(*                                                                         *)
(* Code: cli/src/lifecycle/mod.rs and unix.rs (the clients),               *)
(* cli/src/daemon/mod.rs and idle.rs (the daemon), common/src/process.rs   *)
(* and session.rs.  All of them are processes of their own; what they know *)
(* of each other is a PID file, a socket, a manifest and an advisory lock. *)
(* A process may die at any point: files stay, the lock goes.              *)
(*                                                                         *)
(* Abstractions.  A daemon is its PID, and PIDs are not reused.  Removing  *)
(* socket and PID file is one step, and so is writing PID file and first   *)
(* manifest, and a request with its answer's write.  Of the manifest there *)
(* remain whether it names a browser profile and the health, "healthy" for *)
(* all that a daemon writes while it serves.  A timeout may pass at any    *)
(* time.  A process that has ended is gone, not a zombie of its parent.    *)
(* A restart for a version mismatch is a Stop followed by a Request.       *)
(* Left out: Windows, attached browsers, the health command, SIGKILL that  *)
(* does not kill.                                                          *)
(***************************************************************************)
CONSTANTS Clients,  \* command-line processes
          Daemons,  \* daemon processes that can be spawned
          None,
          Named     \* the session has a name: only then is it recovered

ASSUME NoneIsNobody == None \notin Clients \cup Daemons
ASSUME NamedIsBoolean == Named \in BOOLEAN

VARIABLES
  pidFile,   \* the daemon in the PID file, or None
  socket,    \* the daemon that bound the socket file, or None
  manifest,  \* the session manifest, or None
  lock,      \* the holder of the startup lock, or None
  chrome,    \* the daemons whose browser process runs
  state,     \* where each daemon is
  syncing,   \* daemons with a task about to write a healthy manifest
  inbox,     \* <<client, daemon>>: requests accepted and not executed
  at,        \* where each client is
  job,       \* the daemon a client awaits, has asked or is stopping
  retried,   \* the client is in the second half of send_request
  knows,     \* the manifest the client loaded names a browser profile
  ran,       \* history: the daemons that executed the client's request
  before,    \* history: the daemons with a PID file written when a stop began
  orphaned   \* history: live daemons no file vouches for any more, and
             \* children left alone before they wrote their PID

files == <<pidFile, socket, manifest>>
clientVars == <<at, job, retried, knows>>
history == <<ran, before>>
vars == <<files, lock, chrome, state, syncing, inbox, clientVars, history,
          orphaned>>

Unclaimed == {"spawned", "clear"}
Starting == {"starting", "launched"}
Up == {"serving", "stopping", "closing"}
Places == {"idle", "start", "waitReady", "check", "recover", "kill", "heal",
           "clean", "spawn", "awaitChild", "send", "sent", "executed",
           "failed", "stopWait", "stopBrowsers", "stopFinish"}
Manifests == [health : {"starting", "healthy", "stopped"}, profile : BOOLEAN]

HasPid(d) == state[d] \in Starting \cup Up
Live(d) == HasPid(d) \/ state[d] \in Unclaimed

TypeOK ==
  /\ pidFile \in Daemons \cup {None}
  /\ socket \in Daemons \cup {None}
  /\ manifest \in Manifests \cup {None}
  /\ lock \in Clients \cup {None}
  /\ chrome \subseteq Daemons
  /\ state \in [Daemons -> {"unborn", "dead"} \cup Unclaimed \cup Starting \cup Up]
  /\ syncing \subseteq Daemons
  /\ inbox \subseteq Clients \X Daemons
  /\ at \in [Clients -> Places]
  /\ job \in [Clients -> Daemons \cup {None}]
  /\ retried \in [Clients -> BOOLEAN]
  /\ knows \in [Clients -> BOOLEAN]
  /\ ran \in [Clients -> SUBSET Daemons]
  /\ before \in [Clients -> SUBSET Daemons]
  /\ orphaned \subseteq Daemons

Init ==
  /\ pidFile = None /\ socket = None /\ manifest = None /\ lock = None
  /\ chrome = {} /\ syncing = {} /\ inbox = {} /\ orphaned = {}
  /\ state = [d \in Daemons |-> "unborn"]
  /\ at = [c \in Clients |-> "idle"]
  /\ job = [c \in Clients |-> None]
  /\ retried = [c \in Clients |-> FALSE]
  /\ knows = [c \in Clients |-> FALSE]
  /\ ran = [c \in Clients |-> {}]
  /\ before = [c \in Clients |-> {}]

\* is_daemon_alive, and a socket file somebody listens on.
Alive == pidFile # None /\ Live(pidFile)
Connectable == socket # None /\ state[socket] \in {"serving", "stopping"}

Profile == manifest # None /\ manifest.profile
Goto(c, p) == at' = [at EXCEPT ![c] = p]
Forget(c) == job' = [job EXCEPT ![c] = None]
Release(c) == lock' = IF lock = c THEN None ELSE lock
RemoveFiles == pidFile' = None /\ socket' = None
MarkStopped == manifest' = [health |-> "stopped", profile |-> Profile]

\* Process d is gone: its tasks and its connections with it.
Dies(d) ==
  /\ state' = [state EXCEPT ![d] = "dead"]
  /\ syncing' = syncing \ {d}
  /\ inbox' = {m \in inbox : m[2] # d}

\* The client returns to its caller, or dies: nothing of it is left but what
\* it has done.
End(c) ==
  /\ Goto(c, "idle")
  /\ Release(c)
  /\ Forget(c)
  /\ retried' = [retried EXCEPT ![c] = FALSE]
  /\ knows' = [knows EXCEPT ![c] = FALSE]
  /\ ran' = [ran EXCEPT ![c] = {}]
  /\ before' = [before EXCEPT ![c] = {}]
  /\ inbox' = {m \in inbox : m[1] # c}

-----------------------------------------------------------------------------
(* The client: send_request.                                               *)

Request(c) ==
  /\ at[c] = "idle"
  /\ Goto(c, IF Alive /\ socket # None THEN "send" ELSE "start")
  /\ UNCHANGED <<files, lock, chrome, state, syncing, inbox, job, retried, knows, history>>

\* Mutant of TryLock: a lock somebody holds is taken over.
StealLock(c) ==
  /\ at[c] = "start"
  /\ lock' = c
  /\ Goto(c, "check")
  /\ UNCHANGED <<files, chrome, state, syncing, inbox, job, retried, knows, history>>

\* flock with LOCK_NB: who does not get it waits for the other's daemon.
TryLock(c) ==
  /\ at[c] = "start"
  /\ IF lock = None
       THEN lock' = c /\ Goto(c, "check")
       ELSE UNCHANGED lock /\ Goto(c, "waitReady")
  /\ UNCHANGED <<files, chrome, state, syncing, inbox, job, retried, knows, history>>

\* wait_ready, with the lock or without, comes to an end.
SeesReady(c) ==
  /\ at[c] = "waitReady"
  /\ Connectable
  /\ Goto(c, "send")
  /\ Release(c)
  /\ UNCHANGED <<files, chrome, state, syncing, inbox, job, retried, knows, history>>

WaitTimesOut(c) ==
  /\ at[c] = "waitReady"
  /\ End(c)
  /\ UNCHANGED <<files, chrome, state, syncing>>

\* Under the lock: a live PID is never replaced.
FindAlive(c) ==
  /\ at[c] = "check"
  /\ Alive
  /\ IF socket # None
       THEN Goto(c, "send") /\ Release(c)
       ELSE Goto(c, "waitReady") /\ UNCHANGED lock
  /\ UNCHANGED <<files, chrome, state, syncing, inbox, job, retried, knows, history>>

\* Mutant of FindDead: liveness is not checked again under the lock.
AssumeDead(c) ==
  /\ at[c] = "check"
  /\ Goto(c, "recover")
  /\ UNCHANGED <<files, lock, chrome, state, syncing, inbox, job, retried, knows, history>>

FindDead(c) ==
  /\ at[c] = "check"
  /\ ~Alive
  /\ Goto(c, "recover")
  /\ UNCHANGED <<files, lock, chrome, state, syncing, inbox, job, retried, knows, history>>

-----------------------------------------------------------------------------
(* refuse_implicit_named_session_replacement, then the clean-up that every *)
(* start and every retry makes.  A retry holds no lock here.               *)

Stale == Named /\ manifest # None /\ manifest.health # "stopped" /\ ~Alive

NothingToRecover(c) ==
  /\ at[c] = "recover"
  /\ ~Stale
  /\ Goto(c, "clean")
  /\ UNCHANGED <<files, lock, chrome, state, syncing, inbox, job, retried, knows, history>>

FindStale(c) ==
  /\ at[c] = "recover"
  /\ Stale
  /\ Goto(c, "kill")
  /\ knows' = [knows EXCEPT ![c] = Profile]
  /\ UNCHANGED <<files, lock, chrome, state, syncing, inbox, job, retried, history>>

\* Every process whose command line names the profile is killed.
KillBrowsers(c) ==
  /\ at[c] = "kill"
  /\ chrome' = IF knows[c] THEN {} ELSE chrome
  /\ knows' = [knows EXCEPT ![c] = FALSE]
  /\ Goto(c, "heal")
  /\ UNCHANGED <<files, lock, state, syncing, inbox, job, retried, history>>

KillFails(c) ==
  /\ at[c] = "kill"
  /\ End(c)
  /\ UNCHANGED <<files, chrome, state, syncing>>

Heal(c) ==
  /\ at[c] = "heal"
  /\ RemoveFiles
  /\ MarkStopped
  /\ Goto(c, "clean")
  /\ UNCHANGED <<lock, chrome, state, syncing, inbox, job, retried, knows, history>>

Clean(c) ==
  /\ at[c] = "clean"
  /\ RemoveFiles
  /\ Goto(c, IF lock = c THEN "spawn" ELSE "start")
  /\ UNCHANGED <<manifest, lock, chrome, state, syncing, inbox, job, retried, knows, history>>

-----------------------------------------------------------------------------
(* Spawning a daemon and waiting for it, under the lock.                   *)

Spawn(c, d) ==
  /\ at[c] = "spawn"
  /\ state[d] = "unborn"
  /\ state' = [state EXCEPT ![d] = "spawned"]
  /\ job' = [job EXCEPT ![c] = d]
  /\ Goto(c, "awaitChild")
  /\ UNCHANGED <<files, lock, chrome, syncing, inbox, retried, knows, history>>

SpawnFails(c) ==
  /\ at[c] = "spawn"
  /\ End(c)
  /\ UNCHANGED <<files, chrome, state, syncing>>

ChildReady(c) ==
  /\ at[c] = "awaitChild"
  /\ Connectable
  /\ Goto(c, "send")
  /\ Release(c)
  /\ Forget(c)
  /\ UNCHANGED <<files, chrome, state, syncing, inbox, retried, knows, history>>

\* The child has exited, or the startup timeout has passed: the files are
\* removed and the child, if it lives, is left alone.
GiveUpOnChild(c) ==
  /\ at[c] = "awaitChild"
  /\ RemoveFiles
  /\ End(c)
  /\ UNCHANGED <<manifest, chrome, state, syncing>>

-----------------------------------------------------------------------------
(* send_once, and the one retry.                                           *)

\* Mutant of Connect: nobody looks whether there is a socket.
ConnectAnyway(c) ==
  /\ at[c] = "send"
  /\ job' = [job EXCEPT ![c] = socket]
  /\ inbox' = inbox \cup {<<c, socket>>}
  /\ Goto(c, "sent")
  /\ UNCHANGED <<files, lock, chrome, state, syncing, retried, knows, history>>

Connect(c) ==
  /\ at[c] = "send"
  /\ Connectable
  /\ job' = [job EXCEPT ![c] = socket]
  /\ inbox' = inbox \cup {<<c, socket>>}
  /\ Goto(c, "sent")
  /\ UNCHANGED <<files, lock, chrome, state, syncing, retried, knows, history>>

\* No connection, a connection closed without an answer, or a timeout.
NoAnswer(c) ==
  /\ at[c] \in {"send", "sent", "executed"}
  /\ Goto(c, "failed")
  /\ UNCHANGED <<files, lock, chrome, state, syncing, inbox, job, retried, knows, history>>

Reply(c) ==
  /\ at[c] = "executed"
  /\ End(c)
  /\ UNCHANGED <<files, chrome, state, syncing>>

ReportFailure(c) ==
  /\ at[c] = "failed"
  /\ Alive \/ retried[c]
  /\ End(c)
  /\ UNCHANGED <<files, chrome, state, syncing>>

\* Mutant of Retry: a failed request is sent again whatever became of the daemon.
RetryAnyway(c) ==
  /\ at[c] = "failed"
  /\ ~retried[c]
  /\ retried' = [retried EXCEPT ![c] = TRUE]
  /\ Goto(c, "recover")
  /\ Forget(c)
  /\ UNCHANGED <<files, lock, chrome, state, syncing, inbox, knows, history>>

Retry(c) ==
  /\ at[c] = "failed"
  /\ ~Alive /\ ~retried[c]
  /\ retried' = [retried EXCEPT ![c] = TRUE]
  /\ Goto(c, "recover")
  /\ Forget(c)
  /\ UNCHANGED <<files, lock, chrome, state, syncing, inbox, knows, history>>

-----------------------------------------------------------------------------
(* stop_daemon.  SIGTERM ends a daemon that does not serve yet on the      *)
(* spot, and asks one that does to shut down.                              *)

StopBegin(c) ==
  /\ at[c] = "idle"
  /\ knows' = [knows EXCEPT ![c] = Profile]
  /\ before' = [before EXCEPT ![c] = {d \in Daemons : HasPid(d)}]
  /\ \/ /\ ~Alive
        /\ Goto(c, "stopBrowsers")
        /\ UNCHANGED <<state, syncing, inbox, job>>
     \/ /\ Alive
        /\ Goto(c, "stopWait")
        /\ job' = [job EXCEPT ![c] = pidFile]
        /\ \/ state[pidFile] \in Starting /\ Dies(pidFile)
           \/ /\ state[pidFile] \in Up
              /\ state' = [state EXCEPT ![pidFile] =
                             IF @ = "serving" THEN "stopping" ELSE @]
              /\ UNCHANGED <<syncing, inbox>>
  /\ UNCHANGED <<files, lock, chrome, retried, ran>>

\* Mutant of StopWait: stop does not wait for the process to exit.
StopWaitsNot(c) ==
  /\ at[c] = "stopWait"
  /\ Goto(c, "stopBrowsers")
  /\ Forget(c)
  /\ UNCHANGED <<files, lock, chrome, state, syncing, inbox, retried, knows, history>>

StopWait(c) ==
  /\ at[c] = "stopWait"
  /\ ~Live(job[c])
  /\ Goto(c, "stopBrowsers")
  /\ Forget(c)
  /\ UNCHANGED <<files, lock, chrome, state, syncing, inbox, retried, knows, history>>

\* Three seconds have passed.
StopKill(c) ==
  /\ at[c] = "stopWait"
  /\ Live(job[c])
  /\ Dies(job[c])
  /\ Goto(c, "stopBrowsers")
  /\ Forget(c)
  /\ UNCHANGED <<files, lock, chrome, retried, knows, history>>

\* A browser that cannot be killed does not keep stop from its clean-up.
StopBrowsers(c) ==
  /\ at[c] = "stopBrowsers"
  /\ chrome' \in {IF knows[c] THEN {} ELSE chrome, chrome}
  /\ Goto(c, "stopFinish")
  /\ UNCHANGED <<files, lock, state, syncing, inbox, job, retried, knows, history>>

StopFinish(c) ==
  /\ at[c] = "stopFinish"
  /\ RemoveFiles
  /\ MarkStopped
  /\ End(c)
  /\ UNCHANGED <<chrome, state, syncing>>

ClientCrash(c) ==
  /\ at[c] # "idle"
  /\ End(c)
  /\ UNCHANGED <<files, chrome, state, syncing>>

-----------------------------------------------------------------------------
(* The daemon.                                                             *)

\* cleanup_stale_transport: without a socket file the PID file is not read.
CheckTransport(d) ==
  /\ state[d] = "spawned"
  /\ \/ /\ socket = None
        /\ state' = [state EXCEPT ![d] = "clear"]
        /\ UNCHANGED <<pidFile, socket>>
     \/ /\ socket # None /\ ~Alive
        /\ state' = [state EXCEPT ![d] = "clear"]
        /\ RemoveFiles
     \/ /\ socket # None /\ Alive
        /\ state' = [state EXCEPT ![d] = "dead"]
        /\ UNCHANGED <<pidFile, socket>>
  /\ UNCHANGED <<manifest, lock, chrome, syncing, inbox, clientVars, history>>

WritePid(d) ==
  /\ state[d] = "clear"
  /\ state' = [state EXCEPT ![d] = "starting"]
  /\ pidFile' = d
  /\ manifest' = [health |-> "starting", profile |-> FALSE]
  /\ UNCHANGED <<socket, lock, chrome, syncing, inbox, clientVars, history>>

\* Whoever uses the profile is killed, then Chrome is launched or not.
Launch(d) ==
  /\ state[d] = "starting"
  /\ \/ state' = [state EXCEPT ![d] = "launched"] /\ chrome' = {d}
     \/ state' = [state EXCEPT ![d] = "dead"] /\ chrome' = {}
  /\ UNCHANGED <<files, lock, syncing, inbox, clientVars, history>>

\* bind fails on a socket file that exists: the daemon exits, and its browser
\* is left to the library's drop.
Bind(d) ==
  /\ state[d] = "launched"
  /\ \/ /\ socket = None
        /\ socket' = d
        /\ state' = [state EXCEPT ![d] = "serving"]
        /\ syncing' = syncing \cup {d}
        /\ UNCHANGED chrome
     \/ /\ socket # None
        /\ state' = [state EXCEPT ![d] = "dead"]
        /\ chrome' \in {chrome, chrome \ {d}}
        /\ UNCHANGED <<socket, syncing>>
  /\ UNCHANGED <<pidFile, manifest, lock, inbox, clientVars, history>>

\* A task started at bind, or after a command, writes what it has found.
SyncManifest(d) ==
  /\ d \in syncing
  /\ syncing' = syncing \ {d}
  /\ manifest' = [health |-> "healthy", profile |-> TRUE]
  /\ UNCHANGED <<pidFile, socket, lock, chrome, state, inbox, clientVars, history>>

\* The request runs even if the client has stopped waiting for it.
Execute(d, c) ==
  /\ <<c, d>> \in inbox
  /\ inbox' = inbox \ {<<c, d>>}
  /\ ran' = [ran EXCEPT ![c] = @ \cup {d}]
  /\ IF at[c] = "sent" /\ job[c] = d THEN Goto(c, "executed") ELSE UNCHANGED at
  /\ syncing' = syncing \cup {d}
  /\ UNCHANGED <<files, lock, chrome, state, job, retried, knows, before>>

\* Idle shutdown: nothing in flight when the clock looks.
IdleShutdown(d) ==
  /\ state[d] = "serving"
  /\ \A c \in Clients : <<c, d>> \notin inbox
  /\ state' = [state EXCEPT ![d] = "stopping"]
  /\ UNCHANGED <<files, lock, chrome, syncing, inbox, clientVars, history>>

\* The accept loop has ended, the final manifest is written.
Close(d) ==
  /\ state[d] = "stopping"
  /\ state' = [state EXCEPT ![d] = "closing"]
  /\ manifest' = [health |-> "stopped", profile |-> TRUE]
  /\ UNCHANGED <<pidFile, socket, lock, chrome, syncing, inbox, clientVars, history>>

\* The files are removed by path, whoever they stand for by now.
Exit(d) ==
  /\ state[d] = "closing"
  /\ chrome' = chrome \ {d}
  /\ RemoveFiles
  /\ Dies(d)
  /\ UNCHANGED <<manifest, lock, clientVars, history>>

DaemonCrash(d) ==
  /\ Live(d)
  /\ Dies(d)
  /\ UNCHANGED <<files, lock, chrome, clientVars, history>>

-----------------------------------------------------------------------------
ClientStep(c) ==
  \/ Request(c) \/ TryLock(c) \/ SeesReady(c) \/ WaitTimesOut(c)
  \/ FindAlive(c) \/ FindDead(c)
  \/ NothingToRecover(c) \/ FindStale(c) \/ KillBrowsers(c) \/ KillFails(c)
  \/ Heal(c) \/ Clean(c)
  \/ \E d \in Daemons : Spawn(c, d)
  \/ SpawnFails(c) \/ ChildReady(c) \/ GiveUpOnChild(c)
  \/ Connect(c) \/ NoAnswer(c) \/ Reply(c) \/ ReportFailure(c) \/ Retry(c)
  \/ StopBegin(c) \/ StopWait(c) \/ StopKill(c) \/ StopBrowsers(c) \/ StopFinish(c)
  \/ ClientCrash(c)

DaemonStep(d) ==
  \/ CheckTransport(d) \/ WritePid(d) \/ Launch(d) \/ Bind(d)
  \/ SyncManifest(d) \/ IdleShutdown(d) \/ Close(d) \/ Exit(d) \/ DaemonCrash(d)
  \/ \E c \in Clients : Execute(d, c)

\* Daemons that this step leaves alive with nothing that leads to them.
Stranded ==
  {d \in Daemons :
     \/ pidFile = d /\ pidFile' # d /\ Live(d)'
     \/ /\ state'[d] \in Unclaimed
        /\ \E c \in Clients :
             at[c] = "awaitChild" /\ job[c] = d /\ at'[c] # "awaitChild"}

Next ==
  /\ (\E c \in Clients : ClientStep(c)) \/ (\E d \in Daemons : DaemonStep(d))
  /\ orphaned' = {d \in orphaned \cup Stranded : Live(d)'}

Spec == Init /\ [][Next]_vars

-----------------------------------------------------------------------------
(* Properties.                                                             *)

\* A session has one daemon: of two that live, one has been orphaned.  The
\* lock, the liveness check under it and the wait for the child together
\* keep a second daemon out.
SoleDaemon ==
  \A d, e \in Daemons :
    Live(d) /\ Live(e) /\ d # e => d \in orphaned \/ e \in orphaned

\* What orphans a live daemon is one of four things: a stop, a starter that
\* leaves its child, a retry that cleans up without the lock, or another
\* orphan.  No clean-up under the lock, no daemon's own start and no
\* shutdown does.
OrphanedOnlyBy ==
  [][orphaned' \ orphaned # {} =>
       \/ \E c \in Clients :
            /\ at'[c] # at[c]
            /\ \/ at[c] \in {"stopFinish", "awaitChild"}
               \/ at[c] \in {"heal", "clean"} /\ lock # c
       \/ \E e \in orphaned : state'[e] # state[e]]_vars

\* When stop cleans up, every daemon that had written its PID when stop began
\* has ended, or was out of stop's reach because it was orphaned.
StopEndsTheDaemon ==
  \A c \in Clients : at[c] = "stopFinish" =>
    \A d \in before[c] : Live(d) => d \in orphaned

\* A request is sent again only after the daemon that executed it has died or
\* been orphaned: send_request looks at the PID before it retries.
RetriedOnlyAfterLoss ==
  \A c \in Clients : retried[c] =>
    \A d \in ran[c] : d = job[c] \/ ~Live(d) \/ d \in orphaned

=============================================================================
