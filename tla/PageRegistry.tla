----------------------------- MODULE PageRegistry -----------------------------
(***************************************************************************)
(* The page registry: the pages a session lists, the one its commands act  *)
(* on, and the frame selected in it, while tabs come and go in the         *)
(* browser.                                                                *)
(*                                                                         *)
(* Code: PageRegistry (cli/src/daemon/state.rs) behind a std mutex, and    *)
(* everybody who writes it: the page commands and the core target tracker  *)
(* (handlers/pages.rs), the viewer's target follower                       *)
(* (view/target_follow.rs), and the recovery of a detached active page.    *)
(* selected_frame is another mutex: a handler that changes the active page *)
(* clears it in a second critical section.                                 *)
(*                                                                         *)
(* Abstractions.                                                           *)
(*  - A tab is a member of Targets; only tabs of type page with a url that *)
(*    is not internal are modelled.  Titles, viewport, helpers and the     *)
(*    manifest are left out; the url matters to the recovery only and is   *)
(*    the constant UrlOf.                                                  *)
(*  - If the tracker cannot subscribe to targetCreated it ends at once: it  *)
(*    then takes no step at all, which is one of the behaviours here.      *)
(*  - An Arc<Page> is the tab it drives.  close_page closes the tab when   *)
(*    nobody else holds the Arc: that is a choice here.                    *)
(*  - frame is the tab that was active when the frame was selected: what   *)
(*    the stored name or index is meant for.                               *)
(***************************************************************************)
EXTENDS Integers, Sequences, FiniteSets

Seqs == INSTANCE SequencesExt

CONSTANTS
  Conns,      \* connections of the command line
  Targets,    \* tabs, over the daemon's lifetime
  First,      \* the tab the daemon starts with
  Found,      \* tabs already open when it attaches
  UrlOf,      \* the url of each tab
  None,
  MaxRefresh  \* bound: recoveries of the active page

ASSUME TargetsAssumption ==
  First \in Targets /\ Found \subseteq Targets /\ None \notin Targets
ASSUME BoundAssumption == MaxRefresh \in Nat

VARIABLES
  tabs,      \* tabs open in the browser
  entries, active, nextId,   \* PageRegistry
  frame,     \* selected_frame
  created,   \* targetCreated events the core tracker has not taken
  destroyed, \* targetDestroyed events its second task has not taken
  cleaning,  \* that second task removed an entry, and will clear the frame
  core,      \* the core tracker's discovery, then its first task
  seen,      \* targetCreated events the viewer's follower has not taken
  follower,  \* the viewer's target follower
  watch,     \* the tab the viewer streams, None before `view`
  conn,      \* the request of each connection
  opened,    \* history: tabs that have been opened
  refreshes, \* history: recoveries begun
  adopted,   \* history: tabs a recovery put in the active entry
  unlisted   \* history: tabs that discovery passed over or the tracker could
             \* not attach, or that close_page or a recovery took off the list

registry == <<entries, active, nextId>>
viewer   == <<seen, follower, watch>>
tracker  == <<created, destroyed, cleaning, core>>
history  == <<opened, refreshes, adopted, unlisted>>
vars     == <<tabs, registry, frame, tracker, viewer, conn, history>>

NoJob == [at |-> "idle", tab |-> None]
\* A task or request that holds a page and is about to take the next step.
Job(a, t) == [at |-> a, tab |-> t]
NoRequest == [at |-> "idle", tab |-> None, id |-> 0]

Steps == {"idle", "attaching", "activated"}

TypeOK ==
  /\ tabs \subseteq opened
  /\ opened \subseteq Targets
  /\ entries \in Seq([id : Nat \ {0}, tab : Targets])
  /\ active \in Nat
  /\ nextId \in Nat \ {0}
  /\ frame \in Targets \cup {None}
  /\ {created, destroyed, seen} \subseteq Seq(Targets)
  /\ cleaning \in BOOLEAN
  /\ core \in [at : Steps \cup {"asking", "discovering", "checking"},
               tab : Targets \cup {None}, left : SUBSET Targets]
  /\ follower \in [at : Steps, tab : Targets \cup {None}]
  /\ watch \in Targets \cup {None}
  /\ conn \in [Conns -> [at : {"idle", "starting", "changed", "closing",
                              "selecting", "applying"},
                        tab : Targets \cup {None}, id : Nat]]
  /\ refreshes \in Nat
  /\ adopted \cup unlisted \subseteq Targets

-----------------------------------------------------------------------------
(* PageRegistry.                                                           *)

Ids       == {entries[i].id : i \in DOMAIN entries}
Listed    == {entries[i].tab : i \in DOMAIN entries}
Position(id) == CHOOSE i \in DOMAIN entries : entries[i].id = id
Entry(id) == entries[Position(id)]

FindByTarget(t) ==
  LET i == CHOOSE i \in DOMAIN entries :
             /\ entries[i].tab = t
             /\ \A j \in 1 .. i - 1 : entries[j].tab # t
  IN  entries[i].id

ActivePage == Entry(active).tab

\* Adds an entry; whether it becomes the active one is the caller's choice.
Register(t, activate) ==
  /\ entries' = Append(entries, [id |-> nextId, tab |-> t])
  /\ nextId' = nextId + 1
  /\ active' = IF activate \/ entries = << >> THEN nextId ELSE active

SetActive(id) ==
  /\ active' = id
  /\ UNCHANGED <<entries, nextId>>

\* Mutant of Remove: the active page is not replaced.
RemoveKeepsActive(id) ==
  /\ Len(entries) > 1
  /\ entries' = Seqs!RemoveAt(entries, Position(id))
  /\ UNCHANGED <<active, nextId>>

\* The last entry is never removed; the first one inherits the activity.
Remove(id) ==
  /\ Len(entries) > 1
  /\ entries' = Seqs!RemoveAt(entries, Position(id))
  /\ active' = IF active = id THEN Head(entries').id ELSE active
  /\ UNCHANGED nextId

ReplacePageHandle(id, t) ==
  /\ entries' = [i \in DOMAIN entries |->
                   IF entries[i].id = id THEN [id |-> id, tab |-> t]
                   ELSE entries[i]]
  /\ active' = id
  /\ UNCHANGED nextId

-----------------------------------------------------------------------------
(* The daemon starts with one page; the tracker subscribes, then looks for *)
(* tabs that were there before it.                                         *)

Init ==
  /\ tabs = {First} \cup Found
  /\ entries = << [id |-> 1, tab |-> First] >>
  /\ active = 1
  /\ nextId = 2
  /\ frame = None
  /\ created = << >>
  /\ destroyed = << >>
  /\ cleaning = FALSE
  /\ core = [at |-> "asking", tab |-> None, left |-> {}]
  /\ seen = << >>
  /\ follower = NoJob
  /\ watch = None
  /\ conn = [c \in Conns |-> NoRequest]
  /\ opened = {First} \cup Found
  /\ refreshes = 0
  /\ adopted = {}
  /\ unlisted = {}

(* The browser.                                                            *)

OpenTab(t) ==
  /\ t \notin opened
  /\ tabs' = tabs \cup {t}
  /\ opened' = opened \cup {t}
  /\ created' = Append(created, t)
  /\ seen' = IF watch = None THEN seen ELSE Append(seen, t)
  /\ UNCHANGED <<registry, frame, destroyed, cleaning, core, follower, watch,
                 conn, refreshes, adopted, unlisted>>

CloseTab(t) ==
  /\ t \in tabs
  /\ tabs' = tabs \ {t}
  /\ destroyed' = Append(destroyed, t)
  /\ UNCHANGED <<registry, frame, created, cleaning, core, viewer, conn,
                 history>>

-----------------------------------------------------------------------------
(* The core tracker.  A step between two awaits is an action.              *)

CoreIs(a, t) == core' = [core EXCEPT !.at = a, !.tab = t]

\* The tabs whose creation the tracker will still hear of.
Reported == {created[i] : i \in DOMAIN created}

\* Tabs that discovery passes over and no event reports stay off the list.
PassOver(skipped) ==
  unlisted' = unlisted \cup (skipped \ (Listed \cup Reported))

\* browser.pages() may fail, and has only the tabs that are set up.
AskPages ==
  /\ core.at = "asking"
  /\ \E found \in SUBSET tabs :
       /\ core' = [at |-> "discovering", tab |-> None, left |-> found]
       /\ PassOver(tabs \ found)
  /\ UNCHANGED <<tabs, registry, frame, created, destroyed, cleaning, viewer,
                 conn, opened, refreshes, adopted>>

\* Initial discovery: one page after the other, none of them made active.  A
\* page that is listed is skipped, and so is one whose url is empty or cannot
\* be read, open or not.
Discover(t) ==
  /\ core.at = "discovering" /\ t \in core.left
  /\ \/ /\ core' = [core EXCEPT !.left = @ \ {t}]
        /\ PassOver({t})
     \/ /\ t \notin Listed
        /\ core' = [at |-> "checking", tab |-> t, left |-> core.left \ {t}]
        /\ UNCHANGED unlisted
  /\ UNCHANGED <<tabs, registry, frame, created, destroyed, cleaning, viewer,
                 conn, opened, refreshes, adopted>>

RegisterFound ==
  /\ core.at = "checking"
  /\ IF core.tab \in Listed
     THEN UNCHANGED registry
     ELSE Register(core.tab, FALSE)
  /\ CoreIs("discovering", None)
  /\ UNCHANGED <<tabs, frame, created, destroyed, cleaning, viewer, conn,
                 history>>

Discovered ==
  /\ core.at = "discovering" /\ core.left = {}
  /\ CoreIs("idle", None)
  /\ UNCHANGED <<tabs, registry, frame, created, destroyed, cleaning, viewer,
                 conn, history>>

\* A listed target is skipped, any other one is attached.
CoreLookup ==
  /\ core.at = "idle" /\ created # << >>
  /\ created' = Tail(created)
  /\ IF Head(created) \in Listed
     THEN UNCHANGED core
     ELSE CoreIs("attaching", Head(created))
  /\ UNCHANGED <<tabs, registry, frame, destroyed, cleaning, viewer, conn,
                 history>>

\* get_page failed fifteen times.
CoreGivesUp ==
  /\ core.at = "attaching"
  /\ unlisted' = unlisted \cup {core.tab}
  /\ CoreIs("idle", None)
  /\ UNCHANGED <<tabs, registry, frame, created, destroyed, cleaning, viewer,
                 conn, opened, refreshes, adopted>>

\* Mutant of CoreRegister: the target is not looked up again.
CoreRegisterBlindly ==
  /\ core.at = "attaching"
  /\ Register(core.tab, TRUE)
  /\ CoreIs("activated", core.tab)
  /\ UNCHANGED <<tabs, frame, created, destroyed, cleaning, viewer, conn,
                 history>>

\* The target is looked up again under the lock that registers it.
CoreRegister ==
  /\ core.at = "attaching"
  /\ IF core.tab \in Listed
     THEN UNCHANGED registry
     ELSE Register(core.tab, TRUE)
  /\ CoreIs("activated", core.tab)
  /\ UNCHANGED <<tabs, frame, created, destroyed, cleaning, viewer, conn,
                 history>>

CoreClearFrame ==
  /\ core.at = "activated"
  /\ frame' = None
  /\ CoreIs("idle", None)
  /\ UNCHANGED <<tabs, registry, created, destroyed, cleaning, viewer, conn,
                 history>>

\* Mutant of TargetDestroyed: the active entry goes, whichever tab died.
TargetDestroyedRemovesActive ==
  /\ core.at \notin {"asking", "discovering", "checking"}
  /\ destroyed # << >> /\ ~cleaning
  /\ destroyed' = Tail(destroyed)
  /\ IF Head(destroyed) \in Listed /\ Len(entries) > 1
     THEN Remove(active) /\ cleaning' = TRUE
     ELSE UNCHANGED <<registry, cleaning>>
  /\ UNCHANGED <<tabs, frame, created, core, viewer, conn, history>>

\* targetDestroyed: an unknown target and the last entry are left alone.
TargetDestroyed ==
  LET t == Head(destroyed) IN
  /\ core.at \notin {"asking", "discovering", "checking"}
  /\ destroyed # << >> /\ ~cleaning
  /\ destroyed' = Tail(destroyed)
  /\ IF t \in Listed /\ Len(entries) > 1
     THEN Remove(FindByTarget(t)) /\ cleaning' = TRUE
     ELSE UNCHANGED <<registry, cleaning>>
  /\ UNCHANGED <<tabs, frame, created, core, viewer, conn, history>>

DestroyedClearFrame ==
  /\ cleaning
  /\ frame' = None
  /\ cleaning' = FALSE
  /\ UNCHANGED <<tabs, registry, created, destroyed, core, viewer, conn,
                 history>>

-----------------------------------------------------------------------------
(* The viewer's target follower runs once `view` has been called.          *)

FollowLookup ==
  /\ follower.at = "idle" /\ seen # << >>
  /\ seen' = Tail(seen)
  /\ follower' = IF Head(seen) \in Listed THEN follower
                 ELSE Job("attaching", Head(seen))
  /\ UNCHANGED <<tabs, registry, frame, tracker, watch, conn, history>>

FollowGivesUp ==
  /\ follower.at = "attaching"
  /\ follower' = NoJob
  /\ UNCHANGED <<tabs, registry, frame, tracker, seen, watch, conn, history>>

\* A target listed meanwhile is made active, another one registered and so.
FollowRegister ==
  LET t == follower.tab IN
  /\ follower.at = "attaching"
  /\ IF t \in Listed THEN SetActive(FindByTarget(t)) ELSE Register(t, TRUE)
  /\ follower' = Job("activated", t)
  /\ UNCHANGED <<tabs, frame, tracker, seen, watch, conn, history>>

\* It is the only one who moves the viewer to another page.
FollowSwitchesViewer ==
  /\ follower.at = "activated"
  /\ frame' = None
  /\ watch' = follower.tab
  /\ follower' = NoJob
  /\ UNCHANGED <<tabs, registry, tracker, seen, conn, history>>

-----------------------------------------------------------------------------
(* Commands.  A connection that is idle may send any of them.              *)

Answer(c) == conn' = [conn EXCEPT ![c] = NoRequest]
Go(c, a, t, id) == conn' = [conn EXCEPT ![c] = [at |-> a, tab |-> t, id |-> id]]

\* The viewer starts on the page that was active when the request came in.
View(c) ==
  /\ conn[c].at = "idle" /\ watch = None
  /\ Go(c, "starting", ActivePage, 0)
  /\ UNCHANGED <<tabs, registry, frame, tracker, viewer, history>>

ViewStarts(c) ==
  /\ conn[c].at = "starting"
  /\ watch' = IF watch = None THEN conn[c].tab ELSE watch
  /\ Answer(c)
  /\ UNCHANGED <<tabs, registry, frame, tracker, seen, follower, history>>

\* Mutant of SelectFrame: "main" is stored as a frame of that name.
SelectFrameNamedMain(c) ==
  /\ conn[c].at = "idle"
  /\ frame' \in {ActivePage, "main"}
  /\ UNCHANGED <<tabs, registry, tracker, viewer, conn, history>>

SelectFrame(c) ==
  /\ conn[c].at = "idle"
  /\ frame' \in {ActivePage, None}
  /\ UNCHANGED <<tabs, registry, tracker, viewer, conn, history>>

SwitchPage(c, id) ==
  /\ conn[c].at = "idle"
  /\ SetActive(id)
  /\ Go(c, "changed", None, 0)
  /\ UNCHANGED <<tabs, frame, tracker, viewer, history>>

\* Mutant of ClearFrame: the selection survives the switch.
ClearFrameNever(c) ==
  /\ conn[c].at = "changed"
  /\ Answer(c)
  /\ UNCHANGED <<tabs, registry, frame, tracker, viewer, history>>

\* The end of switch_page, and of a recovery.
ClearFrame(c) ==
  /\ conn[c].at = "changed"
  /\ frame' = None
  /\ Answer(c)
  /\ UNCHANGED <<tabs, registry, tracker, viewer, history>>

ClosePage(c, id) ==
  /\ conn[c].at = "idle"
  /\ Remove(id)
  /\ unlisted' = unlisted \cup {Entry(id).tab}
  /\ Go(c, "closing", Entry(id).tab, 0)
  /\ UNCHANGED <<tabs, frame, tracker, viewer, opened, refreshes, adopted>>

\* The tab is closed if nobody else holds its Arc; otherwise it stays open.
CloseTarget(c) ==
  LET t == conn[c].tab IN
  /\ conn[c].at = "closing"
  /\ frame' = None
  /\ Answer(c)
  /\ \/ UNCHANGED <<tabs, destroyed>>
     \/ /\ t \in tabs
        /\ tabs' = tabs \ {t}
        /\ destroyed' = Append(destroyed, t)
  /\ UNCHANGED <<registry, created, cleaning, core, viewer, history>>

\* refresh_active_page_from_browser: the active entry is read, ...
Refresh(c) ==
  /\ conn[c].at = "idle"
  /\ refreshes < MaxRefresh
  /\ refreshes' = refreshes + 1
  /\ Go(c, "selecting", ActivePage, active)
  /\ UNCHANGED <<tabs, registry, frame, tracker, viewer, opened, adopted, unlisted>>

\* ... an open tab chosen, by target or url if there is one, else any, ...
SelectBrowserPage(c, t) ==
  LET old  == conn[c].tab
      same == {u \in tabs : u = old \/ UrlOf[u] = UrlOf[old]}
  IN
  /\ conn[c].at = "selecting"
  /\ t \in IF same # {} THEN same ELSE tabs
  /\ Go(c, "applying", t, conn[c].id)
  /\ UNCHANGED <<tabs, registry, frame, tracker, viewer, history>>

NoBrowserPage(c) ==
  /\ conn[c].at = "selecting"
  /\ tabs = {}
  /\ Answer(c)
  /\ UNCHANGED <<tabs, registry, frame, tracker, viewer, history>>

\* ... and its handle put where the active one was, which is made active.
ApplyRefresh(c) ==
  LET t == conn[c].tab IN
  /\ conn[c].at = "applying"
  /\ IF conn[c].id \in Ids
     THEN /\ ReplacePageHandle(conn[c].id, t)
          /\ unlisted' = unlisted \cup ({Entry(conn[c].id).tab} \ {t})
     ELSE Register(t, TRUE) /\ UNCHANGED unlisted
  /\ adopted' = adopted \cup {t}
  /\ Go(c, "changed", None, 0)
  /\ UNCHANGED <<tabs, frame, tracker, viewer, opened, refreshes>>

-----------------------------------------------------------------------------
Browser == \E t \in Targets : OpenTab(t) \/ CloseTab(t)

CoreTask ==
  \/ AskPages
  \/ \E t \in Targets : Discover(t)
  \/ RegisterFound \/ Discovered
  \/ CoreLookup \/ CoreGivesUp \/ CoreRegister \/ CoreClearFrame

DestroyedTask == TargetDestroyed \/ DestroyedClearFrame

FollowTask ==
  \/ FollowLookup \/ FollowGivesUp \/ FollowRegister \/ FollowSwitchesViewer

Command(c) ==
  \/ View(c) \/ ViewStarts(c) \/ SelectFrame(c) \/ ClearFrame(c)
  \/ CloseTarget(c)
  \/ \E id \in Ids : SwitchPage(c, id) \/ ClosePage(c, id)
  \/ Refresh(c) \/ NoBrowserPage(c) \/ ApplyRefresh(c)
  \/ \E t \in Targets : SelectBrowserPage(c, t)

Next ==
  \/ Browser \/ CoreTask \/ DestroyedTask \/ FollowTask
  \/ \E c \in Conns : Command(c)

Spec == Init /\ [][Next]_vars

-----------------------------------------------------------------------------
(* Properties.                                                             *)

\* Whoever registers, switches, closes, loses or recovers a page, in whatever
\* order: the active id names an entry, so a command always finds its page
\* (the "no active page in registry" answer is never given), and ids are never
\* used twice, so an id a client remembers cannot come to mean another page.
ActiveListed ==
  /\ active \in Ids
  /\ \A i, j \in DOMAIN entries : i < j => entries[i].id < entries[j].id
  /\ \A i \in DOMAIN entries : entries[i].id < nextId

\* The core tracker and the viewer's follower attach the same new tab at the
\* same time, and discovery finds it too; it is still listed once.  Only the
\* recovery of the active page, which asks the browser and not the registry,
\* can list a tab a second time.
OneEntryPerTab ==
  \A i, j \in DOMAIN entries :
    /\ i # j
    /\ entries[i].tab = entries[j].tab
    => entries[i].tab \in adopted

\* Somebody has changed the active page and will clear the selected frame.
FrameIsBeingCleared ==
  \/ cleaning
  \/ "activated" \in {core.at, follower.at}
  \/ \E c \in Conns : conn[c].at \in {"changed", "closing"}

\* A frame selected in one page is never left to scope the commands of
\* another: when the two differ, the one who changed the page is about to
\* clear the selection.
NoStaleFrame ==
  frame \notin {None, ActivePage} => FrameIsBeingCleared

\* An open tab is listed, or the tracker still has it to list: events, lookups
\* and attachments race with removals and with the other tasks that register,
\* and still none falls between them.  What keeps an open tab off the list for
\* good is a discovery that passed it over before any event reported it, an
\* attachment that failed, close_page, which may leave the tab open, and a
\* recovery that gave its entry to another tab.
OpenTabsGetListed ==
  \A t \in tabs :
    \/ core.at = "asking"
    \/ t \in Listed \cup Reported \cup core.left \cup {core.tab} \cup unlisted
=============================================================================
