-------------------------- MODULE InstructionScripts --------------------------
(***************************************************************************)
(* The runtimes behind act_instruction: what each planned action does to   *)
(* the page, and in which order (cli/src/daemon/handlers: instruction/     *)
(* action_runtime.rs, instruction/workflow_runtime.rs, interaction.rs,     *)
(* navigate.rs and the observing handlers).  Module Instruction runs them. *)
(*                                                                         *)
(* A script is a control-flow graph, a record from labels to nodes.  A     *)
(* node says what it does and which labels may follow; "ok" and "fail"     *)
(* end the script, with Ok and with Err.                                   *)
(*                                                                         *)
(* Abstractions.                                                           *)
(*  - What a script looks for (texts, scores, geometry) is the choice      *)
(*    among a node's successors; a node stands for all reads up to the     *)
(*    next change, wait or return.                                         *)
(*  - A change is a touch when it only prepares (opening a menu, filling   *)
(*    a filter, turning a page) and an act when it is on the target.       *)
(*  - How often a loop may turn is left to the choice.                     *)
(***************************************************************************)
EXTENDS Naturals

\* The parts of a graph or a table put together; no two have a key in common.
Joint(parts) ==
  [x \in UNION {DOMAIN f : f \in parts} |->
     (CHOOSE f \in parts : x \in DOMAIN f)[x]]

Node(does, next) == [does |-> does, next |-> next]
Look(next)  == Node("look", next)   \* reads the page
Touch(next) == Node("touch", next)  \* prepares
Act(next)   == Node("act", next)    \* acts on the target
Wait(next)  == Node("wait", next)   \* awaits; anyone may run meanwhile
Ask(next)   == Node("ask", next)    \* passes the narration gate, or Err

\* One action on one element, found first.
OnTarget == [start |-> Look({"act", "fail"}), act |-> Act({"ok"})]
\* An observer: the page is only read.
Observe == [start |-> Look({"ok", "fail"})]

-----------------------------------------------------------------------------
(* Handlers shared with the other commands: interaction.rs, navigate.rs.   *)

Entry == [start |-> Ask({"body", "fail"})]
Gated(body) == Joint({Entry, body})

\* A mouse click that fails is tried again as a click of the page's own.
ClickSelector ==
  [body |-> Look({"mouse", "fail"}),
   mouse |-> Act({"ok", "fail", "again"}),
   again |-> Act({"ok", "fail"})]
Click == Gated(ClickSelector)

\* perform_selector_action: the element is changed, then its events are
\* dispatched, and an exception there is an Err.
SelectorAction ==
  [body |-> Look({"act", "fail"}), act |-> Act({"ok", "fail"})]
Type == Gated(SelectorAction)
SelectOption == Gated(SelectorAction)
SetChecked == Gated(SelectorAction)
UploadFile == Gated(SelectorAction)
Hover == Gated(SelectorAction)
Dispatched == [body |-> Act({"ok", "fail"})]
Press == Gated(Dispatched)
Scroll == Gated(Dispatched)

\* Pressed, moved, released over CDP: no error path releases the button.
Stroke ==
  [down |-> Touch({"move", "fail"}),
   move |-> Touch({"move", "up", "fail"}),
   up   |-> Act({"ok", "fail"})]
DragFinds == [body |-> Look({"down", "fail"})]
Drag == Gated(Joint({DragFinds, Stroke}))

SetViewport == [start |-> Act({"ok", "fail"})]
EmulateDevice == [start |-> Look({"act", "fail"}), act |-> Act({"ok", "fail"})]

\* A navigation that timed out may still take place.
Navigate == Gated(Dispatched)
InHistory == [start |-> Look({"go", "fail"}), go |-> Act({"ok", "fail"})]
Back == InHistory
Forward == InHistory
Reload == [start |-> Act({"ok", "fail"})]

\* handle_wait_for polls; an unmet condition is an Err for an instruction.
WaitFor == [start |-> Look({"poll", "ok", "fail"}), poll |-> Wait({"start"})]
Asserts == Observe
AnalyzeForm == Observe
AccessibilityTree == Observe
Find == Observe
Screenshot == Observe

-----------------------------------------------------------------------------
(* action_runtime.rs, up to the pointer paths.                             *)

ReadText == Observe
\* The target is focused first, and not every input lets a range be set.
SelectText ==
  [start |-> Look({"focus", "act", "fail"}), focus |-> Touch({"act", "fail"}),
   act |-> Act({"ok"})]
FormatText == OnTarget
SetCheckboxGrid == OnTarget
ScrollElement == OnTarget

\* Focused through the shared resolver, then once more with the focus events
\* a page may listen to; that and the settling cannot fail.
FocusElement ==
  [start |-> Look({"act", "fail"}), act |-> Act({"again", "fail"}),
   again |-> Act({"settle"}), settle |-> Wait({"ok"})]

\* The value is set and checked: a control that will not take it is an Err.
SetSlider ==
  [start |-> Look({"act", "fail"}), act |-> Act({"ok", "fail"})]

\* The daemon types through the shared resolver ...
AutocompleteTypes ==
  [start |-> Look({"typing", "fail"}), typing |-> Touch({"lookup", "fail"})]
\* ... then a script finds the input again, wakes the page with key events and
\* takes the option the page has made active,
AutocompleteWakes ==
  [lookup |-> Look({"wake", "fail"}), wake |-> Touch({"settle"}),
   settle |-> Wait({"shown"}), shown |-> Look({"accept", "ask"})]
\* or asks a widget of the page for its options,
AutocompleteOptions ==
  [ask |-> Wait({"offered"}), offered |-> Look({"accept", "arrow"})]
\* and accepts one, with the pointer or with the keyboard.
AutocompleteAccepts ==
  [accept |-> Act({"accepted"}), accepted |-> Wait({"ok"}),
   arrow |-> Touch({"arrowed"}), arrowed |-> Wait({"accept", "enter"}),
   enter |-> Act({"entered"}), entered |-> Wait({"ok", "fail"})]
AutocompleteSelect ==
  Joint({AutocompleteTypes, AutocompleteWakes, AutocompleteOptions,
         AutocompleteAccepts})

\* Each number is looked for when it is its turn; that none is left is an Err
\* only before the first click.
\* Mutant of ClickOrderedValues: also after it.
ClickValuesOneByOne ==
  [start |-> Look({"click", "fail"}), click |-> Act({"pause"}),
   pause |-> Wait({"start", "ok"})]
ClickOrderedValues ==
  [start |-> Look({"click", "fail"}), click |-> Act({"pause"}),
   pause |-> Wait({"click", "ok"})]

\* Every item of the path is looked for when its parent has opened.
MenuFinds == [start |-> Look({"open", "final", "fail"})]
MenuActivates == [open |-> Touch({"opened"}), final |-> Act({"clicked"})]
MenuSettles == [opened |-> Wait({"start"}), clicked |-> Wait({"ok"})]
SelectMenuPath == Joint({MenuFinds, MenuActivates, MenuSettles})

ScopedMenuFinds ==
  [start |-> Look({"scroll", "fail"}), scroll |-> Wait({"trigger"}),
   trigger |-> Look({"open", "fail"})]
ScopedMenuChooses ==
  [open |-> Touch({"opened"}), opened |-> Wait({"choose"}),
   choose |-> Look({"act", "fail"}), act |-> Act({"clicked"}),
   clicked |-> Wait({"ok"})]
ScopedMenuClick == Joint({ScopedMenuFinds, ScopedMenuChooses})

ScrollTextExtract ==
  [start |-> Look({"scroll", "fail"}), scroll |-> Touch({"words"}),
   words |-> Look({"act", "fail"}), act |-> Act({"ok"})]

\* Drawn by the daemon over CDP, like Drag but without the gate.
DrawFinds == [start |-> Look({"down", "fail"})]
DrawPath == Joint({DrawFinds, Stroke})

\* Drags the object a little and looks at it again, until it faces the front.
OrientDrag == [drag |-> Act({"rest", "fail"}), rest |-> Wait({"start"})]
OrientInspect == [start |-> Look({"drag", "ok", "fail"})]
OrientVisual == Joint({OrientDrag, OrientInspect})

-----------------------------------------------------------------------------
(* action_runtime.rs, the scripts that derive what they do from the page.  *)

\* A value or a target is derived from what the page shows: the labels and
\* numbers, the fields, the results of a search.
DeriveReads == [start |-> Look({"pick", "type", "fill", "fail"})]
\* The largest number is clicked, and what submits it.
DerivePicks ==
  [pick |-> Act({"picked"}), picked |-> Wait({"submit", "ok"}),
   submit |-> Touch({"submitted"}), submitted |-> Wait({"ok"})]
\* A search is filled in and sent, and one of its results clicked.
DeriveSearches ==
  [type |-> Touch({"typed"}), typed |-> Wait({"send", "results"}),
   send |-> Touch({"sent"}), sent |-> Wait({"results"})]
DeriveFollows ==
  [results |-> Look({"more", "follow", "fail"}), more |-> Wait({"results"}),
   follow |-> Act({"followed"}), followed |-> Wait({"ok"})]
\* A field is filled with the derived value.
DeriveFills == [fill |-> Act({"filled"}), filled |-> Wait({"submit", "ok"})]
DeriveAndAct ==
  Joint({DeriveReads, DerivePicks, DeriveSearches, DeriveFollows, DeriveFills})

\* Without a generator a field gets a computed value; with one it is clicked
\* until a value fits or the attempts are used up.
GenerateFinds == [start |-> Look({"fill", "generate", "fail"})]
GenerateReads == [read |-> Look({"generate", "submit", "ok", "fail"})]
GenerateClicks ==
  [fill |-> Act({"filled"}), filled |-> Wait({"submit", "ok"}),
   generate |-> Act({"shown"}), shown |-> Wait({"read"}),
   submit |-> Touch({"submitted"}), submitted |-> Wait({"ok"})]
GenerateConstrainedValue ==
  Joint({GenerateFinds, GenerateReads, GenerateClicks})

\* The control is clicked only when a visible number satisfies the condition.
ConditionFinds == [start |-> Look({"poll", "fail"})]
\* Mutant of ConditionPolls: when none does in time it is an Ok all the same.
ConditionGivesUpOk ==
  [poll |-> Look({"act", "rest"}), rest |-> Wait({"poll", "ok"}),
   act |-> Act({"acted"}), acted |-> Wait({"ok"})]
ConditionPolls ==
  [poll |-> Look({"act", "rest"}), rest |-> Wait({"poll", "fail"}),
   act |-> Act({"acted"}), acted |-> Wait({"ok"})]
ConditionalValueAction == Joint({ConditionFinds, ConditionPolls})

CommandFinds == [start |-> Look({"key", "fail"})]
CommandTypes ==
  [key |-> Touch({"typed"}), typed |-> Wait({"key", "enter"}),
   enter |-> Act({"entered"}), entered |-> Wait({"ok"})]
CommandSurfaceAction == Joint({CommandFinds, CommandTypes})

\* Guesses until the page says the value is right.  Module PageSearch has the
\* search itself.
FeedbackFinds == [start |-> Look({"set", "fail"})]
FeedbackGuesses ==
  [set |-> Touch({"written"}), written |-> Wait({"submit"}),
   submit |-> Act({"answered"}), answered |-> Wait({"read"}),
   read |-> Look({"set", "ok", "fail"})]
FeedbackLoopValue == Joint({FeedbackFinds, FeedbackGuesses})

\* Pages through a list; a page that looks the same is turned once more.
RecordFinds == [start |-> Look({"act", "next", "fail"})]
RecordPages ==
  [act |-> Act({"acted"}), acted |-> Wait({"ok"}),
   next |-> Touch({"turned"}), turned |-> Wait({"again", "rest"}),
   again |-> Touch({"rest"}), rest |-> Wait({"start", "fail"})]
RecordPropertyClick == Joint({RecordFinds, RecordPages})

\* Expands node after node of a tree.
TreeFinds == [start |-> Look({"find", "fail"})]
TreeExpands ==
  [find |-> Look({"act", "expand", "fail"}), expand |-> Touch({"expanded"}),
   expanded |-> Wait({"seen"}), seen |-> Look({"act", "expand", "find"}),
   act |-> Act({"acted"}), acted |-> Wait({"ok"})]
TreeSearchClick == Joint({TreeFinds, TreeExpands})

\* Samples a surface with the pointer, and clicks where the page's feedback
\* was best; the best may fall short of what was asked for.
FeedbackSurface == [start |-> Look({"scroll", "fail"}), scroll |-> Wait({"near"})]
FeedbackReads == [near |-> Look({"probe", "fail"})]
FeedbackProbes ==
  [probe |-> Touch({"probe", "choose"}), choose |-> Look({"act", "fail"}),
   act |-> Act({"ok"})]
VisualFeedbackSearch ==
  Joint({FeedbackSurface, FeedbackReads, FeedbackProbes})

\* Opens one control after the other until the target can be seen.  The
\* trigger of the instruction is filled in and opened first,
DiscoverTrigger ==
  [start |-> Look({"fillTrigger", "opener", "find"}),
   fillTrigger |-> Touch({"opener", "find"}), opener |-> Touch({"opened"}),
   opened |-> Wait({"reveal", "search"})]
\* the target may be on another page of its list,
DiscoverPages ==
  [page |-> Touch({"paged"}), paged |-> Wait({"find", "found"}),
   morePage |-> Touch({"morePaged"}),
   morePaged |-> Wait({"search", "reveal", "found"})]
\* behind a control, or in a menu that opens inside what a control opened:
\* with no control to try it is an Err, with all of them tried it is an Ok.
DiscoverControls ==
  [find |-> Look({"page", "found", "control", "fail"}),
   search |-> Look({"morePage", "found", "control", "deferred", "ok"}),
   control |-> Touch({"opened"})]
DiscoverReveals ==
  [reveal |-> Look({"hover", "morePage", "found", "search"})]
DiscoverMenus ==
  [hover |-> Touch({"hovered"}), hovered |-> Wait({"reveal", "found", "search"})]
\* A match that was put off for a better one is taken at the end.
DiscoverDeferred ==
  [deferred |-> Touch({"again"}), again |-> Wait({"found"})]
\* Some targets are clicked by the browser, through the "click" handler,
\* whose Err does not count.
DiscoverEvents ==
  [found |-> Look({"act", "browserTarget"}), act |-> Act({"acted"}),
   acted |-> Wait({"ok"}), browserTarget |-> Wait({"browser"})]
DiscoverBrowser ==
  [browser |-> Ask({"mouse", "missed"}), mouse |-> Act({"ok"}),
   missed |-> Look({"ok"})]
DiscoverClick ==
  Joint({DiscoverTrigger, DiscoverPages, DiscoverControls, DiscoverMenus,
         DiscoverReveals, DiscoverDeferred, DiscoverEvents, DiscoverBrowser})

-----------------------------------------------------------------------------
(* workflow_runtime.rs.                                                    *)

\* On every item asked for, or on one item that may have to be opened first.
ItemFinds == [start |-> Look({"each", "item", "fail"})]
ItemActions ==
  [each |-> Act({"eachDone"}), eachDone |-> Wait({"each", "enough"}),
   enough |-> Look({"complete", "ok", "fail"})]
ItemFills ==
  [fill |-> Look({"setText", "fail"}), setText |-> Touch({"textSet"}),
   textSet |-> Wait({"complete", "ok"})]
ItemOpens ==
  [item |-> Look({"actNow", "open", "itemAction"}),
   actNow |-> Act({"actedNow"}), actedNow |-> Wait({"complete", "ok"}),
   open |-> Touch({"opened"}), opened |-> Wait({"itemAction"}),
   itemAction |-> Look({"actThen", "fail"}), actThen |-> Act({"actedThen"}),
   actedThen |-> Wait({"fill", "ok"}),
   complete |-> Touch({"completed"}), completed |-> Wait({"ok"})]
ScopedItemWorkflow == Joint({ItemFinds, ItemActions, ItemFills, ItemOpens})

\* A block of a schedule, then the fields one by one.  Once one of them is
\* matched ("sure") the workflow no longer fails, even if the field is
\* preserved as it is or refuses the value; while none is, it fails after all
\* if fields were asked for, whatever it has submitted or picked.
FormBlock ==
  [start |-> Look({"block", "fields"}), block |-> Act({"blocked"}),
   blocked |-> Wait({"sure"})]
FormFields ==
  [fields |-> Look({"fill", "preserve", "refuse", "date", "submit", "wait", "fail"}),
   fill |-> Act({"filled", "sure"}), filled |-> Wait({"sure"})]
FormMatched ==
  [preserve |-> Look({"suggest", "sure"}), refuse |-> Touch({"suggest", "sure"}),
   suggest |-> Touch({"suggested"}), suggested |-> Wait({"sure"})]
FormDate ==
  [sure |-> Look({"fill", "preserve", "refuse", "date", "sureSubmit", "sureWait",
                  "ok"}),
   date |-> Act({"sure"})]
FormSubmits ==
  [submit |-> Act({"submitted"}), submitted |-> Wait({"wait", "fail", "sureWait", "ok"}),
   sureSubmit |-> Act({"sureSubmitted"}),
   sureSubmitted |-> Wait({"sureWait", "ok"})]
\* Among the results one is clicked, for which pages may be turned.
FormResults ==
  [wait |-> Wait({"results"}),
   results |-> Look({"page", "pick", "wait", "fail"}),
   pick |-> Act({"ok", "fail"}),
   sureWait |-> Wait({"sureResults"}),
   sureResults |-> Look({"surePage", "surePick", "sureWait", "ok"}),
   surePick |-> Act({"ok"})]
FormPages ==
  [page |-> Touch({"paged"}), paged |-> Wait({"results"}),
   surePage |-> Touch({"surePaged"}), surePaged |-> Wait({"sureResults"})]
FormWorkflow ==
  Joint({FormBlock, FormFields, FormMatched, FormDate, FormSubmits, FormResults,
         FormPages})

\* The calendar is opened, and a day clicked or the value written.
DateOpens ==
  [start |-> Look({"open", "cells"}), open |-> Touch({"opened"}),
   opened |-> Wait({"cells"})]
DateCells == [cells |-> Look({"act", "value", "fail"}), act |-> Act({"ok"})]
DateValue == [value |-> Act({"written"}), written |-> Wait({"ok"})]
DatePicker == Joint({DateOpens, DateCells, DateValue})

-----------------------------------------------------------------------------
(* The action names of a plan, and what the engine knows of each.          *)

Script ==
  [click |-> Click, focus |-> FocusElement, hover |-> Hover, type |-> Type,
   select_option |-> SelectOption, set_checked |-> SetChecked,
   upload_file |-> UploadFile, press |-> Press, drag |-> Drag,
   scroll |-> Scroll, set_viewport |-> SetViewport,
   emulate_device |-> EmulateDevice, navigate |-> Navigate, back |-> Back,
   forward |-> Forward, reload |-> Reload, wait_for |-> WaitFor,
   assert |-> Asserts, analyze_form |-> AnalyzeForm,
   accessibility_tree |-> AccessibilityTree, find |-> Find,
   screenshot |-> Screenshot, read_text |-> ReadText,
   select_text |-> SelectText, format_text |-> FormatText,
   set_checkbox_grid |-> SetCheckboxGrid, set_slider |-> SetSlider,
   scroll_element |-> ScrollElement,
   autocomplete_select |-> AutocompleteSelect,
   click_ordered_values |-> ClickOrderedValues,
   select_menu_path |-> SelectMenuPath, scoped_menu_click |-> ScopedMenuClick,
   scroll_text_extract |-> ScrollTextExtract, draw_path |-> DrawPath,
   orient_visual |-> OrientVisual, derive_and_act |-> DeriveAndAct,
   generate_constrained_value |-> GenerateConstrainedValue,
   conditional_value_action |-> ConditionalValueAction,
   command_surface_action |-> CommandSurfaceAction,
   feedback_loop_value |-> FeedbackLoopValue,
   record_property_click |-> RecordPropertyClick,
   tree_search_click |-> TreeSearchClick,
   visual_feedback_search |-> VisualFeedbackSearch,
   discover_click |-> DiscoverClick,
   scoped_item_workflow |-> ScopedItemWorkflow,
   form_workflow |-> FormWorkflow, date_picker |-> DatePicker]

Actions == DOMAIN Script
Labels(a) == DOMAIN Script[a] \cup {"ok", "fail"}
Changes(node) == node.does \in {"touch", "act"}

\* Plans that only read: their Ok says nothing about a change.
Observers ==
  {"wait_for", "assert", "analyze_form", "accessibility_tree", "find",
   "screenshot", "read_text"}

\* The handlers the daemon drives itself, with one CDP call after the other;
\* the others are one script in the page, awaited for PLAN_TIMEOUT.
ByDaemon ==
  {"click", "focus", "hover", "type", "select_option", "set_checked",
   "upload_file", "press", "drag", "scroll", "set_viewport",
   "emulate_device", "navigate", "back", "forward", "reload", "draw_path",
   "orient_visual"} \cup (Observers \ {"read_text"})
ByDaemonAt ==
  [autocomplete_select |-> DOMAIN AutocompleteTypes,
   discover_click |-> DOMAIN DiscoverBrowser]
InPage(a, l) ==
  /\ a \notin ByDaemon
  /\ a \in DOMAIN ByDaemonAt => l \notin ByDaemonAt[a]
  /\ l \notin {"ok", "fail"}

\* Where a script left behind by its daemon can still change the page: at a
\* change or before one, its daemon's part left out.
StillChanges ==
  LET points == UNION {{<<a, l>> : l \in DOMAIN Script[a]} : a \in Actions}
      inPage == {p \in points : InPage(p[1], p[2])}
      change == {p \in inPage : Changes(Script[p[1]][p[2]])}
      before(S) == {p \in inPage : \E l \in Script[p[1]][p[2]].next : <<p[1], l>> \in S}
      ahead[n \in 0 .. 20] ==
        IF n = 0 THEN change
        ELSE LET near == ahead[n - 1] IN near \cup before(near)
  IN  ahead[20]

=============================================================================
