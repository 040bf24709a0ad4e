-------------------------- MODULE Instruction_proofs --------------------------
(***************************************************************************)
(* Proofs about Instruction, for plans of every length, every choice of    *)
(* alternates and any number of timeouts and aborts: its types, that an    *)
(* alternate starts on a clean page, that "done" means acted, and that the *)
(* effect of what was done is recognised.                                  *)
(*                                                                         *)
(* Scripts and plans are data.  Of a script the proof uses two sets of     *)
(* labels: Done, which it enters only by acting, and Firm, which it does   *)
(* not leave once it acted (or, where it fails clean, once it changed      *)
(* anything), and that only its first node can turn it away with           *)
(* an Err.  ScriptsFit says so of every script.  Of a plan it uses that it *)
(* is Good: that what its steps say is looked for, or that it is of a      *)
(* blind spot.  CapabilityPlans and PlainPlans say so of every plan there  *)
(* is.  The invariant IInv then speaks of no script and no capability by   *)
(* name.                                                                   *)
(***************************************************************************)
EXTENDS Instruction, SequenceTheorems, TLAPS

\* The handlers that pass the narration gate before anything else.
Gates ==
  {"click", "type", "select_option", "set_checked", "upload_file", "hover",
   "press", "scroll", "drag", "navigate"}

\* Labels that a script reaches only after it acted.
Done(a) ==
  CASE a = "click" -> {"again", "ok"}
    [] a = "focus" -> {"again", "settle", "ok"}
    [] a = "autocomplete_select" -> {"accepted", "entered", "ok"}
    [] a = "click_ordered_values" -> {"pause", "ok"}
    [] a \in {"select_menu_path", "scoped_menu_click"} -> {"clicked", "ok"}
    [] a = "derive_and_act" ->
         {"picked", "submit", "submitted", "followed", "filled", "ok"}
    [] a = "generate_constrained_value" ->
         {"filled", "shown", "read", "submit", "submitted", "ok"}
    [] a \in {"conditional_value_action", "record_property_click",
              "tree_search_click", "discover_click"} -> {"acted", "ok"}
    [] a = "command_surface_action" -> {"entered", "ok"}
    [] a = "feedback_loop_value" -> {"answered", "read", "ok"}
    [] a = "scoped_item_workflow" ->
         {"eachDone", "enough", "actedNow", "actedThen", "fill", "setText",
          "textSet", "complete", "completed", "ok"}
    [] a = "date_picker" -> {"written", "ok"}
    [] OTHER -> {"ok"}

\* Labels from which a script of ActsLast cannot fail any more.
Firm(a) ==
  Done(a) \cup (CASE a = "click_ordered_values" -> {"click"}
                  [] a = "command_surface_action" -> {"key", "typed", "enter"}
                  [] OTHER -> {})

-----------------------------------------------------------------------------
(* The scripts.                                                            *)

\* What the proof has to know of a part of the script of an action: which
\* labels its nodes go to, that it does not get to Done without acting, nor
\* out of Firm after acting, and where it may be turned away.
Part(S, a, L) ==
  \A l \in DOMAIN S : \A m \in S[l].next :
    /\ m \in L
    /\ a \notin MayMiss /\ S[l].does # "act" /\ l \notin Done(a)
         => m \notin Done(a)
    /\ a \in ActsLast /\ (S[l].does = "act" \/ l \in Firm(a)) => m \in Firm(a)
    /\ a \in FailsClean /\ (S[l].does = "touch" \/ l \in Firm(a))
         => m \in Firm(a)
    /\ S[l].does = "ask" /\ m = "fail" => l = "start" /\ a \in Gates
    /\ a \in Gates => m # "start"
    /\ l = "missed" => m = "ok"

Fits(a) ==
  /\ a \in Actions /\ "start" \in DOMAIN Script[a]
  /\ Part(Script[a], a, Labels(a))

\* A graph put together has the labels of its parts.
LEMMA KeysOfParts ==
  ASSUME NEW P, NEW S \in P
  PROVE  DOMAIN S \subseteq DOMAIN Joint(P)
PROOF BY DEF Joint

\* A graph put together has no node but those of its parts.
LEMMA Joined ==
  ASSUME NEW P, NEW a, NEW L, \A S \in P : Part(S, a, L)
  PROVE  Part(Joint(P), a, L)
PROOF
  <1>1. \A l \in DOMAIN Joint(P) :
          \E S \in P : l \in DOMAIN S /\ Joint(P)[l] = S[l]
    BY DEF Joint
  <1> QED BY <1>1 DEF Part

\* A script fits when it is seen to with the labels its nodes go to.
LEMMA FitsIf ==
  ASSUME NEW a \in Actions, NEW S, Script[a] = S, NEW L, Part(S, a, L),
         L \cup {"start"} \subseteq DOMAIN S \cup {"ok", "fail"}
  PROVE  Fits(a)
PROOF
  <1>1. L \subseteq Labels(a) /\ "start" \in DOMAIN S
    BY DEF Labels
  <1> QED BY <1>1 DEF Fits, Part

\* The names of the actions.
LEMMA ActionNames ==
  Actions =
    {"click", "focus", "hover", "type", "select_option", "set_checked",
     "upload_file", "press", "drag", "scroll", "set_viewport",
     "emulate_device", "navigate", "back", "forward", "reload",
     "wait_for", "assert", "analyze_form", "accessibility_tree", "find",
     "screenshot", "read_text", "select_text", "format_text",
     "set_checkbox_grid", "set_slider", "scroll_element",
     "autocomplete_select", "click_ordered_values", "select_menu_path",
     "scoped_menu_click", "scroll_text_extract", "draw_path",
     "orient_visual", "derive_and_act", "generate_constrained_value",
     "conditional_value_action", "command_surface_action",
     "feedback_loop_value", "record_property_click",
     "tree_search_click", "visual_feedback_search", "discover_click",
     "scoped_item_workflow", "form_workflow", "date_picker"}
PROOF BY DEF Actions, Script

\* The mouse click that is tried again by the page.
LEMMA ClickFits == Fits("click")
PROOF
  <1> DEFINE a == "click"
             L == {"body", "fail", "mouse", "ok", "again"}
  <1>1. a \in Actions /\ Script[a] = Click
    BY DEF Script, Actions
  <1>2. /\ Done(a) = {"again", "ok"}
        /\ a \in Gates
        /\ a \notin FailsClean \cup ActsLast \cup MayMiss
    BY DEF Done, Firm, FailsClean, ActsLast, MayMiss, Gates, Observers
  <1> HIDE DEF a
  <1>3. Part(Entry, a, L)
    BY <1>2 DEF Part, Entry, Ask, Node
  <1>4. Part(ClickSelector, a, L)
    BY <1>2 DEF Part, ClickSelector, Look, Act, Node
  <1>5. Part(Click, a, L)
    BY <1>3, <1>4, Joined DEF Click, Gated
  <1>6. /\ DOMAIN Entry \subseteq DOMAIN Click
        /\ DOMAIN ClickSelector \subseteq DOMAIN Click
    BY KeysOfParts DEF Click, Gated
  <1>7. L \cup {"start"} \subseteq DOMAIN Click \cup {"ok", "fail"}
    BY <1>6 DEF Entry, ClickSelector
  <1> QED BY <1>1, <1>5, <1>7, FitsIf DEF a

\* The focus, and the focus events after it.
LEMMA FocusElementFits == Fits("focus")
PROOF
  <1> DEFINE a == "focus"
             D == {"again", "settle", "ok"}
             L == {"act", "fail", "again", "settle", "ok"}
  <1>1. a \in Actions /\ Script[a] = FocusElement
    BY DEF Script, Actions
  <1>2. /\ Done(a) = D
        /\ a \notin FailsClean \cup ActsLast \cup MayMiss \cup Gates
    BY DEF Done, Firm, FailsClean, ActsLast, MayMiss, Gates, Observers
  <1> HIDE DEF a
  <1>3. Part(FocusElement, a, L)
    BY <1>2 DEF Part, FocusElement, Look, Act, Wait, Node
  <1>4. L \cup {"start"} \subseteq DOMAIN FocusElement \cup {"ok", "fail"}
    BY DEF FocusElement
  <1> QED BY <1>1, <1>3, <1>4, FitsIf DEF a

\* The gated actions on one element.
LEMMA HoverFits ==
  ASSUME NEW a \in {"hover", "type", "select_option", "set_checked", "upload_file"}
  PROVE  Fits(a)
PROOF
  <1> DEFINE L == {"body", "fail", "act", "ok"}
  <1>1. a \in Actions /\ Script[a] = Hover
    BY DEF Script, Actions, Hover, Type, SelectOption, SetChecked,
           UploadFile
  <1>2. /\ Done(a) = {"ok"}
        /\ a \in Gates
        /\ a \notin FailsClean \cup ActsLast \cup MayMiss
    BY DEF Done, Firm, FailsClean, ActsLast, MayMiss, Gates, Observers
  <1>3. Part(Entry, a, L)
    BY <1>2 DEF Part, Entry, Ask, Node
  <1>4. Part(SelectorAction, a, L)
    BY <1>2 DEF Part, SelectorAction, Look, Act, Node
  <1>5. Part(Hover, a, L)
    BY <1>3, <1>4, Joined DEF Hover, Gated
  <1>6. /\ DOMAIN Entry \subseteq DOMAIN Hover
        /\ DOMAIN SelectorAction \subseteq DOMAIN Hover
    BY KeysOfParts DEF Hover, Gated
  <1>7. L \cup {"start"} \subseteq DOMAIN Hover \cup {"ok", "fail"}
    BY <1>6 DEF Entry, SelectorAction
  <1> QED BY <1>1, <1>5, <1>7, FitsIf

\* The gated actions that are one call.
LEMMA PressFits ==
  ASSUME NEW a \in {"press", "scroll", "navigate"}
  PROVE  Fits(a)
PROOF
  <1> DEFINE L == {"body", "fail", "ok"}
  <1>1. a \in Actions /\ Script[a] = Press
    BY DEF Script, Actions, Press, Scroll, Navigate
  <1>2. /\ Done(a) = {"ok"}
        /\ a \in Gates
        /\ a \notin FailsClean \cup ActsLast \cup MayMiss
    BY DEF Done, Firm, FailsClean, ActsLast, MayMiss, Gates, Observers
  <1>3. Part(Entry, a, L)
    BY <1>2 DEF Part, Entry, Ask, Node
  <1>4. Part(Dispatched, a, L)
    BY <1>2 DEF Part, Dispatched, Act, Node
  <1>5. Part(Press, a, L)
    BY <1>3, <1>4, Joined DEF Press, Gated
  <1>6. /\ DOMAIN Entry \subseteq DOMAIN Press
        /\ DOMAIN Dispatched \subseteq DOMAIN Press
    BY KeysOfParts DEF Press, Gated
  <1>7. L \cup {"start"} \subseteq DOMAIN Press \cup {"ok", "fail"}
    BY <1>6 DEF Entry, Dispatched
  <1> QED BY <1>1, <1>5, <1>7, FitsIf

\* The gated stroke of the pointer.
LEMMA DragFits == Fits("drag")
PROOF
  <1> DEFINE a == "drag"
             L == {"body", "fail", "down", "move", "up", "ok"}
  <1>1. a \in Actions /\ Script[a] = Drag
    BY DEF Script, Actions
  <1>2. /\ Done(a) = {"ok"}
        /\ a \in Gates
        /\ a \notin FailsClean \cup ActsLast \cup MayMiss
    BY DEF Done, Firm, FailsClean, ActsLast, MayMiss, Gates, Observers
  <1> HIDE DEF a
  <1>3. Part(Entry, a, L)
    BY <1>2 DEF Part, Entry, Ask, Node
  <1>4. Part(DragFinds, a, L)
    BY <1>2 DEF Part, DragFinds, Look, Node
  <1>5. Part(Stroke, a, L)
    BY <1>2 DEF Part, Stroke, Touch, Act, Node
  <1>6. Part(Joint({DragFinds, Stroke}), a, L)
    BY <1>4, <1>5, Joined
  <1>7. Part(Drag, a, L)
    BY <1>3, <1>6, Joined DEF Drag, Gated
  <1>8. /\ DOMAIN DragFinds \subseteq DOMAIN Joint({DragFinds, Stroke})
        /\ DOMAIN Stroke \subseteq DOMAIN Joint({DragFinds, Stroke})
    BY KeysOfParts
  <1>9. /\ DOMAIN Entry \subseteq DOMAIN Drag
        /\ DOMAIN Joint({DragFinds, Stroke}) \subseteq DOMAIN Drag
    BY KeysOfParts DEF Drag, Gated
  <1>10. L \cup {"start"} \subseteq DOMAIN Drag \cup {"ok", "fail"}
    BY <1>8, <1>9 DEF Entry, DragFinds, Stroke
  <1> QED BY <1>1, <1>7, <1>10, FitsIf DEF a

\* The viewport, and a reload: one call.
LEMMA SetViewportFits ==
  ASSUME NEW a \in {"set_viewport", "reload"}
  PROVE  Fits(a)
PROOF
  <1> DEFINE L == {"ok", "fail"}
  <1>1. a \in Actions /\ Script[a] = SetViewport
    BY DEF Script, Actions, SetViewport, Reload
  <1>2. /\ Done(a) = {"ok"}
        /\ a \notin FailsClean \cup ActsLast \cup MayMiss \cup Gates
    BY DEF Done, Firm, FailsClean, ActsLast, MayMiss, Gates, Observers
  <1>3. Part(SetViewport, a, L)
    BY <1>2 DEF Part, SetViewport, Act, Node
  <1>4. L \cup {"start"} \subseteq DOMAIN SetViewport \cup {"ok", "fail"}
    BY DEF SetViewport
  <1> QED BY <1>1, <1>3, <1>4, FitsIf

\* A device that is looked up, and a slider that may not take its value.
LEMMA EmulateDeviceFits ==
  ASSUME NEW a \in {"emulate_device", "set_slider"}
  PROVE  Fits(a)
PROOF
  <1> DEFINE L == {"act", "fail", "ok"}
  <1>1. a \in Actions /\ Script[a] = EmulateDevice
    BY DEF Script, Actions, EmulateDevice, SetSlider
  <1>2. /\ Done(a) = {"ok"}
        /\ a \notin FailsClean \cup ActsLast \cup MayMiss \cup Gates
    BY DEF Done, Firm, FailsClean, ActsLast, MayMiss, Gates, Observers
  <1>3. Part(EmulateDevice, a, L)
    BY <1>2 DEF Part, EmulateDevice, Look, Act, Node
  <1>4. L \cup {"start"} \subseteq DOMAIN EmulateDevice \cup {"ok", "fail"}
    BY DEF EmulateDevice
  <1> QED BY <1>1, <1>3, <1>4, FitsIf

\* Back and forward.
LEMMA InHistoryFits ==
  ASSUME NEW a \in {"back", "forward"}
  PROVE  Fits(a)
PROOF
  <1> DEFINE L == {"go", "fail", "ok"}
  <1>1. a \in Actions /\ Script[a] = InHistory
    BY DEF Script, Actions, Back, Forward
  <1>2. /\ Done(a) = {"ok"}
        /\ a \notin FailsClean \cup ActsLast \cup MayMiss \cup Gates
    BY DEF Done, Firm, FailsClean, ActsLast, MayMiss, Gates, Observers
  <1>3. Part(InHistory, a, L)
    BY <1>2 DEF Part, InHistory, Look, Act, Node
  <1>4. L \cup {"start"} \subseteq DOMAIN InHistory \cup {"ok", "fail"}
    BY DEF InHistory
  <1> QED BY <1>1, <1>3, <1>4, FitsIf

\* The wait, which polls.
LEMMA WaitForFits == Fits("wait_for")
PROOF
  <1> DEFINE a == "wait_for"
             L == {"poll", "ok", "fail", "start"}
  <1>1. a \in Actions /\ Script[a] = WaitFor
    BY DEF Script, Actions
  <1>2. /\ Done(a) = {"ok"}
        /\ Firm(a) = {"ok"}
        /\ a \in FailsClean \cap ActsLast \cap MayMiss
        /\ a \notin Gates
    BY DEF Done, Firm, FailsClean, ActsLast, MayMiss, Gates, Observers
  <1> HIDE DEF a
  <1>3. Part(WaitFor, a, L)
    BY <1>2 DEF Part, WaitFor, Look, Wait, Node
  <1>4. L \cup {"start"} \subseteq DOMAIN WaitFor \cup {"ok", "fail"}
    BY DEF WaitFor
  <1> QED BY <1>1, <1>3, <1>4, FitsIf DEF a

\* The observers.
LEMMA ObserveFits ==
  ASSUME NEW a \in {"assert", "analyze_form", "accessibility_tree", "find", "screenshot",
                  "read_text"}
  PROVE  Fits(a)
PROOF
  <1> DEFINE L == {"ok", "fail"}
  <1>1. a \in Actions /\ Script[a] = Observe
    BY DEF Script, Actions, Asserts, AnalyzeForm, AccessibilityTree, Find,
           Screenshot, ReadText
  <1>2. /\ Done(a) = {"ok"}
        /\ Firm(a) = {"ok"}
        /\ a \in FailsClean \cap ActsLast \cap MayMiss
        /\ a \notin Gates
    BY DEF Done, Firm, FailsClean, ActsLast, MayMiss, Gates, Observers
  <1>3. Part(Observe, a, L)
    BY <1>2 DEF Part, Observe, Look, Node
  <1>4. L \cup {"start"} \subseteq DOMAIN Observe \cup {"ok", "fail"}
    BY DEF Observe
  <1> QED BY <1>1, <1>3, <1>4, FitsIf

\* The actions on one target, found first.
LEMMA OnTargetFits ==
  ASSUME NEW a \in {"format_text", "set_checkbox_grid", "scroll_element"}
  PROVE  Fits(a)
PROOF
  <1> DEFINE L == {"act", "fail", "ok"}
  <1>1. a \in Actions /\ Script[a] = OnTarget
    BY DEF Script, Actions, FormatText, SetCheckboxGrid, ScrollElement
  <1>2. /\ Done(a) = {"ok"}
        /\ Firm(a) = {"ok"}
        /\ a \in FailsClean \cap ActsLast
        /\ a \notin MayMiss \cup Gates
    BY DEF Done, Firm, FailsClean, ActsLast, MayMiss, Gates, Observers
  <1>3. Part(OnTarget, a, L)
    BY <1>2 DEF Part, OnTarget, Look, Act, Node
  <1>4. L \cup {"start"} \subseteq DOMAIN OnTarget \cup {"ok", "fail"}
    BY DEF OnTarget
  <1> QED BY <1>1, <1>3, <1>4, FitsIf

\* The text that is selected after its element was focused.
LEMMA SelectTextFits == Fits("select_text")
PROOF
  <1> DEFINE a == "select_text"
             L == {"focus", "act", "fail", "ok"}
  <1>1. a \in Actions /\ Script[a] = SelectText
    BY DEF Script, Actions
  <1>2. /\ Done(a) = {"ok"}
        /\ Firm(a) = {"ok"}
        /\ a \in ActsLast
        /\ a \notin FailsClean \cup MayMiss \cup Gates
    BY DEF Done, Firm, FailsClean, ActsLast, MayMiss, Gates, Observers
  <1> HIDE DEF a
  <1>3. Part(SelectText, a, L)
    BY <1>2 DEF Part, SelectText, Look, Touch, Act, Node
  <1>4. L \cup {"start"} \subseteq DOMAIN SelectText \cup {"ok", "fail"}
    BY DEF SelectText
  <1> QED BY <1>1, <1>3, <1>4, FitsIf DEF a

\* The option of an autocomplete list.
LEMMA AutocompleteSelectFits == Fits("autocomplete_select")
PROOF
  <1> DEFINE a == "autocomplete_select"
             D == {"accepted", "entered", "ok"}
             L == {"typing", "fail", "lookup", "wake", "settle", "shown", "accept",
               "ask", "offered", "arrow", "accepted", "ok", "arrowed",
               "enter", "entered"}
  <1>1. a \in Actions /\ Script[a] = AutocompleteSelect
    BY DEF Script, Actions
  <1>2. /\ Done(a) = D
        /\ a \notin FailsClean \cup ActsLast \cup MayMiss \cup Gates
    BY DEF Done, Firm, FailsClean, ActsLast, MayMiss, Gates, Observers
  <1> HIDE DEF a
  <1>3. Part(AutocompleteTypes, a, L)
    BY <1>2 DEF Part, AutocompleteTypes, Look, Touch, Node
  <1>4. Part(AutocompleteWakes, a, L)
    BY <1>2 DEF Part, AutocompleteWakes, Look, Touch, Wait, Node
  <1>5. Part(AutocompleteOptions, a, L)
    BY <1>2 DEF Part, AutocompleteOptions, Wait, Look, Node
  <1>6. Part(AutocompleteAccepts, a, L)
    BY <1>2 DEF Part, AutocompleteAccepts, Act, Wait, Touch, Node
  <1>7. Part(AutocompleteSelect, a, L)
    BY <1>3, <1>4, <1>5, <1>6, Joined DEF AutocompleteSelect
  <1>8. /\ DOMAIN AutocompleteTypes \subseteq DOMAIN AutocompleteSelect
        /\ DOMAIN AutocompleteWakes \subseteq DOMAIN AutocompleteSelect
        /\ DOMAIN AutocompleteOptions \subseteq DOMAIN AutocompleteSelect
        /\ DOMAIN AutocompleteAccepts \subseteq DOMAIN AutocompleteSelect
    BY KeysOfParts DEF AutocompleteSelect
  <1>9. L \cup {"start"} \subseteq DOMAIN AutocompleteSelect \cup {"ok", "fail"}
    BY <1>8 DEF AutocompleteTypes, AutocompleteWakes, AutocompleteOptions,
           AutocompleteAccepts
  <1> QED BY <1>1, <1>7, <1>9, FitsIf DEF a

\* The targets that are clicked one after the other.
LEMMA ClickOrderedValuesFits == Fits("click_ordered_values")
PROOF
  <1> DEFINE a == "click_ordered_values"
             L == {"click", "fail", "pause", "ok"}
  <1>1. a \in Actions /\ Script[a] = ClickOrderedValues
    BY DEF Script, Actions
  <1>2. /\ Done(a) = {"pause", "ok"}
        /\ Firm(a) = {"pause", "ok", "click"}
        /\ a \in FailsClean \cap ActsLast
        /\ a \notin MayMiss \cup Gates
    BY DEF Done, Firm, FailsClean, ActsLast, MayMiss, Gates, Observers
  <1> HIDE DEF a
  <1>3. Part(ClickOrderedValues, a, L)
    BY <1>2 DEF Part, ClickOrderedValues, Look, Act, Wait, Node
  <1>4. L \cup {"start"} \subseteq DOMAIN ClickOrderedValues \cup {"ok", "fail"}
    BY DEF ClickOrderedValues
  <1> QED BY <1>1, <1>3, <1>4, FitsIf DEF a

\* The path through a menu.
LEMMA SelectMenuPathFits == Fits("select_menu_path")
PROOF
  <1> DEFINE a == "select_menu_path"
             L == {"open", "final", "fail", "opened", "clicked", "start", "ok"}
  <1>1. a \in Actions /\ Script[a] = SelectMenuPath
    BY DEF Script, Actions
  <1>2. /\ Done(a) = {"clicked", "ok"}
        /\ Firm(a) = {"clicked", "ok"}
        /\ a \in ActsLast
        /\ a \notin FailsClean \cup MayMiss \cup Gates
    BY DEF Done, Firm, FailsClean, ActsLast, MayMiss, Gates, Observers
  <1> HIDE DEF a
  <1>3. Part(MenuFinds, a, L)
    BY <1>2 DEF Part, MenuFinds, Look, Node
  <1>4. Part(MenuActivates, a, L)
    BY <1>2 DEF Part, MenuActivates, Touch, Act, Node
  <1>5. Part(MenuSettles, a, L)
    BY <1>2 DEF Part, MenuSettles, Wait, Node
  <1>6. Part(SelectMenuPath, a, L)
    BY <1>3, <1>4, <1>5, Joined DEF SelectMenuPath
  <1>7. /\ DOMAIN MenuFinds \subseteq DOMAIN SelectMenuPath
        /\ DOMAIN MenuActivates \subseteq DOMAIN SelectMenuPath
        /\ DOMAIN MenuSettles \subseteq DOMAIN SelectMenuPath
    BY KeysOfParts DEF SelectMenuPath
  <1>8. L \cup {"start"} \subseteq DOMAIN SelectMenuPath \cup {"ok", "fail"}
    BY <1>7 DEF MenuFinds, MenuActivates, MenuSettles
  <1> QED BY <1>1, <1>6, <1>8, FitsIf DEF a

\* The menu of one item.
LEMMA ScopedMenuClickFits == Fits("scoped_menu_click")
PROOF
  <1> DEFINE a == "scoped_menu_click"
             L == {"scroll", "fail", "trigger", "open", "opened", "choose", "act",
               "clicked", "ok"}
  <1>1. a \in Actions /\ Script[a] = ScopedMenuClick
    BY DEF Script, Actions
  <1>2. /\ Done(a) = {"clicked", "ok"}
        /\ Firm(a) = {"clicked", "ok"}
        /\ a \in ActsLast
        /\ a \notin FailsClean \cup MayMiss \cup Gates
    BY DEF Done, Firm, FailsClean, ActsLast, MayMiss, Gates, Observers
  <1> HIDE DEF a
  <1>3. Part(ScopedMenuFinds, a, L)
    BY <1>2 DEF Part, ScopedMenuFinds, Look, Wait, Node
  <1>4. Part(ScopedMenuChooses, a, L)
    BY <1>2 DEF Part, ScopedMenuChooses, Touch, Wait, Look, Act, Node
  <1>5. Part(ScopedMenuClick, a, L)
    BY <1>3, <1>4, Joined DEF ScopedMenuClick
  <1>6. /\ DOMAIN ScopedMenuFinds \subseteq DOMAIN ScopedMenuClick
        /\ DOMAIN ScopedMenuChooses \subseteq DOMAIN ScopedMenuClick
    BY KeysOfParts DEF ScopedMenuClick
  <1>7. L \cup {"start"} \subseteq DOMAIN ScopedMenuClick \cup {"ok", "fail"}
    BY <1>6 DEF ScopedMenuFinds, ScopedMenuChooses
  <1> QED BY <1>1, <1>5, <1>7, FitsIf DEF a

\* The value at the end of a scrolled text.
LEMMA ScrollTextExtractFits == Fits("scroll_text_extract")
PROOF
  <1> DEFINE a == "scroll_text_extract"
             L == {"scroll", "fail", "words", "act", "ok"}
  <1>1. a \in Actions /\ Script[a] = ScrollTextExtract
    BY DEF Script, Actions
  <1>2. /\ Done(a) = {"ok"}
        /\ Firm(a) = {"ok"}
        /\ a \in ActsLast
        /\ a \notin FailsClean \cup MayMiss \cup Gates
    BY DEF Done, Firm, FailsClean, ActsLast, MayMiss, Gates, Observers
  <1> HIDE DEF a
  <1>3. Part(ScrollTextExtract, a, L)
    BY <1>2 DEF Part, ScrollTextExtract, Look, Touch, Act, Node
  <1>4. L \cup {"start"} \subseteq DOMAIN ScrollTextExtract \cup {"ok", "fail"}
    BY DEF ScrollTextExtract
  <1> QED BY <1>1, <1>3, <1>4, FitsIf DEF a

\* The stroke that does not ask the gate.
LEMMA DrawPathFits == Fits("draw_path")
PROOF
  <1> DEFINE a == "draw_path"
             L == {"down", "fail", "move", "up", "ok"}
  <1>1. a \in Actions /\ Script[a] = DrawPath
    BY DEF Script, Actions
  <1>2. /\ Done(a) = {"ok"}
        /\ a \notin FailsClean \cup ActsLast \cup MayMiss \cup Gates
    BY DEF Done, Firm, FailsClean, ActsLast, MayMiss, Gates, Observers
  <1> HIDE DEF a
  <1>3. Part(DrawFinds, a, L)
    BY <1>2 DEF Part, DrawFinds, Look, Node
  <1>4. Part(Stroke, a, L)
    BY <1>2 DEF Part, Stroke, Touch, Act, Node
  <1>5. Part(DrawPath, a, L)
    BY <1>3, <1>4, Joined DEF DrawPath
  <1>6. /\ DOMAIN DrawFinds \subseteq DOMAIN DrawPath
        /\ DOMAIN Stroke \subseteq DOMAIN DrawPath
    BY KeysOfParts DEF DrawPath
  <1>7. L \cup {"start"} \subseteq DOMAIN DrawPath \cup {"ok", "fail"}
    BY <1>6 DEF DrawFinds, Stroke
  <1> QED BY <1>1, <1>5, <1>7, FitsIf DEF a

\* The object that is turned until it faces the front.
LEMMA OrientVisualFits == Fits("orient_visual")
PROOF
  <1> DEFINE a == "orient_visual"
             L == {"rest", "fail", "start", "drag", "ok"}
  <1>1. a \in Actions /\ Script[a] = OrientVisual
    BY DEF Script, Actions
  <1>2. /\ Done(a) = {"ok"}
        /\ a \in MayMiss
        /\ a \notin FailsClean \cup ActsLast \cup Gates
    BY DEF Done, Firm, FailsClean, ActsLast, MayMiss, Gates, Observers
  <1> HIDE DEF a
  <1>3. Part(OrientDrag, a, L)
    BY <1>2 DEF Part, OrientDrag, Act, Wait, Node
  <1>4. Part(OrientInspect, a, L)
    BY <1>2 DEF Part, OrientInspect, Look, Node
  <1>5. Part(OrientVisual, a, L)
    BY <1>3, <1>4, Joined DEF OrientVisual
  <1>6. /\ DOMAIN OrientDrag \subseteq DOMAIN OrientVisual
        /\ DOMAIN OrientInspect \subseteq DOMAIN OrientVisual
    BY KeysOfParts DEF OrientVisual
  <1>7. L \cup {"start"} \subseteq DOMAIN OrientVisual \cup {"ok", "fail"}
    BY <1>6 DEF OrientDrag, OrientInspect
  <1> QED BY <1>1, <1>5, <1>7, FitsIf DEF a

\* The value derived from the page.
LEMMA DeriveAndActFits == Fits("derive_and_act")
PROOF
  <1> DEFINE a == "derive_and_act"
             D == {"picked", "submit", "submitted", "followed", "filled", "ok"}
             L == {"pick", "type", "fill", "fail", "picked", "submit", "ok", "submitted",
               "typed", "send", "results", "sent", "more", "follow",
               "followed", "filled"}
  <1>1. a \in Actions /\ Script[a] = DeriveAndAct
    BY DEF Script, Actions
  <1>2. /\ Done(a) = D
        /\ Firm(a) = D
        /\ a \in ActsLast
        /\ a \notin FailsClean \cup MayMiss \cup Gates
    BY DEF Done, Firm, FailsClean, ActsLast, MayMiss, Gates, Observers
  <1> HIDE DEF a
  <1>3. Part(DeriveReads, a, L)
    BY <1>2 DEF Part, DeriveReads, Look, Node
  <1>4. Part(DerivePicks, a, L)
    BY <1>2 DEF Part, DerivePicks, Act, Wait, Touch, Node
  <1>5. Part(DeriveSearches, a, L)
    BY <1>2 DEF Part, DeriveSearches, Touch, Wait, Node
  <1>6. Part(DeriveFollows, a, L)
    BY <1>2 DEF Part, DeriveFollows, Look, Wait, Act, Node
  <1>7. Part(DeriveFills, a, L)
    BY <1>2 DEF Part, DeriveFills, Act, Wait, Node
  <1>8. Part(DeriveAndAct, a, L)
    BY <1>3, <1>4, <1>5, <1>6, <1>7, Joined DEF DeriveAndAct
  <1>9. /\ DOMAIN DeriveReads \subseteq DOMAIN DeriveAndAct
        /\ DOMAIN DerivePicks \subseteq DOMAIN DeriveAndAct
        /\ DOMAIN DeriveSearches \subseteq DOMAIN DeriveAndAct
        /\ DOMAIN DeriveFollows \subseteq DOMAIN DeriveAndAct
        /\ DOMAIN DeriveFills \subseteq DOMAIN DeriveAndAct
    BY KeysOfParts DEF DeriveAndAct
  <1>10. L \cup {"start"} \subseteq DOMAIN DeriveAndAct \cup {"ok", "fail"}
    BY <1>9 DEF DeriveReads, DerivePicks, DeriveSearches, DeriveFollows,
           DeriveFills
  <1> QED BY <1>1, <1>8, <1>10, FitsIf DEF a

\* The generator that is clicked until a value fits.
LEMMA GenerateConstrainedValueFits == Fits("generate_constrained_value")
PROOF
  <1> DEFINE a == "generate_constrained_value"
             D == {"filled", "shown", "read", "submit", "submitted", "ok"}
             L == {"fill", "generate", "fail", "submit", "ok", "filled", "shown", "read",
               "submitted"}
  <1>1. a \in Actions /\ Script[a] = GenerateConstrainedValue
    BY DEF Script, Actions
  <1>2. /\ Done(a) = D
        /\ a \notin FailsClean \cup ActsLast \cup MayMiss \cup Gates
    BY DEF Done, Firm, FailsClean, ActsLast, MayMiss, Gates, Observers
  <1> HIDE DEF a
  <1>3. Part(GenerateFinds, a, L)
    BY <1>2 DEF Part, GenerateFinds, Look, Node
  <1>4. Part(GenerateReads, a, L)
    BY <1>2 DEF Part, GenerateReads, Look, Node
  <1>5. Part(GenerateClicks, a, L)
    BY <1>2 DEF Part, GenerateClicks, Act, Wait, Touch, Node
  <1>6. Part(GenerateConstrainedValue, a, L)
    BY <1>3, <1>4, <1>5, Joined DEF GenerateConstrainedValue
  <1>7. /\ DOMAIN GenerateFinds \subseteq DOMAIN GenerateConstrainedValue
        /\ DOMAIN GenerateReads \subseteq DOMAIN GenerateConstrainedValue
        /\ DOMAIN GenerateClicks \subseteq DOMAIN GenerateConstrainedValue
    BY KeysOfParts DEF GenerateConstrainedValue
  <1>8. L \cup {"start"} \subseteq DOMAIN GenerateConstrainedValue \cup {"ok", "fail"}
    BY <1>7 DEF GenerateFinds, GenerateReads, GenerateClicks
  <1> QED BY <1>1, <1>6, <1>8, FitsIf DEF a

\* The control clicked when a number satisfies the condition.
LEMMA ConditionalValueActionFits == Fits("conditional_value_action")
PROOF
  <1> DEFINE a == "conditional_value_action"
             L == {"poll", "fail", "act", "rest", "acted", "ok"}
  <1>1. a \in Actions /\ Script[a] = ConditionalValueAction
    BY DEF Script, Actions
  <1>2. /\ Done(a) = {"acted", "ok"}
        /\ Firm(a) = {"acted", "ok"}
        /\ a \in FailsClean \cap ActsLast
        /\ a \notin MayMiss \cup Gates
    BY DEF Done, Firm, FailsClean, ActsLast, MayMiss, Gates, Observers
  <1> HIDE DEF a
  <1>3. Part(ConditionFinds, a, L)
    BY <1>2 DEF Part, ConditionFinds, Look, Node
  <1>4. Part(ConditionPolls, a, L)
    BY <1>2 DEF Part, ConditionPolls, Look, Wait, Act, Node
  <1>5. Part(ConditionalValueAction, a, L)
    BY <1>3, <1>4, Joined DEF ConditionalValueAction
  <1>6. /\ DOMAIN ConditionFinds \subseteq DOMAIN ConditionalValueAction
        /\ DOMAIN ConditionPolls \subseteq DOMAIN ConditionalValueAction
    BY KeysOfParts DEF ConditionalValueAction
  <1>7. L \cup {"start"} \subseteq DOMAIN ConditionalValueAction \cup {"ok", "fail"}
    BY <1>6 DEF ConditionFinds, ConditionPolls
  <1> QED BY <1>1, <1>5, <1>7, FitsIf DEF a

\* The command typed key by key.
LEMMA CommandSurfaceActionFits == Fits("command_surface_action")
PROOF
  <1> DEFINE a == "command_surface_action"
             L == {"key", "fail", "typed", "enter", "entered", "ok"}
  <1>1. a \in Actions /\ Script[a] = CommandSurfaceAction
    BY DEF Script, Actions
  <1>2. /\ Done(a) = {"entered", "ok"}
        /\ Firm(a) = {"entered", "ok", "key", "typed", "enter"}
        /\ a \in FailsClean \cap ActsLast
        /\ a \notin MayMiss \cup Gates
    BY DEF Done, Firm, FailsClean, ActsLast, MayMiss, Gates, Observers
  <1> HIDE DEF a
  <1>3. Part(CommandFinds, a, L)
    BY <1>2 DEF Part, CommandFinds, Look, Node
  <1>4. Part(CommandTypes, a, L)
    BY <1>2 DEF Part, CommandTypes, Touch, Wait, Act, Node
  <1>5. Part(CommandSurfaceAction, a, L)
    BY <1>3, <1>4, Joined DEF CommandSurfaceAction
  <1>6. /\ DOMAIN CommandFinds \subseteq DOMAIN CommandSurfaceAction
        /\ DOMAIN CommandTypes \subseteq DOMAIN CommandSurfaceAction
    BY KeysOfParts DEF CommandSurfaceAction
  <1>7. L \cup {"start"} \subseteq DOMAIN CommandSurfaceAction \cup {"ok", "fail"}
    BY <1>6 DEF CommandFinds, CommandTypes
  <1> QED BY <1>1, <1>5, <1>7, FitsIf DEF a

\* The guesses by feedback.
LEMMA FeedbackLoopValueFits == Fits("feedback_loop_value")
PROOF
  <1> DEFINE a == "feedback_loop_value"
             D == {"answered", "read", "ok"}
             L == {"set", "fail", "written", "submit", "answered", "read", "ok"}
  <1>1. a \in Actions /\ Script[a] = FeedbackLoopValue
    BY DEF Script, Actions
  <1>2. /\ Done(a) = D
        /\ a \notin FailsClean \cup ActsLast \cup MayMiss \cup Gates
    BY DEF Done, Firm, FailsClean, ActsLast, MayMiss, Gates, Observers
  <1> HIDE DEF a
  <1>3. Part(FeedbackFinds, a, L)
    BY <1>2 DEF Part, FeedbackFinds, Look, Node
  <1>4. Part(FeedbackGuesses, a, L)
    BY <1>2 DEF Part, FeedbackGuesses, Touch, Wait, Act, Look, Node
  <1>5. Part(FeedbackLoopValue, a, L)
    BY <1>3, <1>4, Joined DEF FeedbackLoopValue
  <1>6. /\ DOMAIN FeedbackFinds \subseteq DOMAIN FeedbackLoopValue
        /\ DOMAIN FeedbackGuesses \subseteq DOMAIN FeedbackLoopValue
    BY KeysOfParts DEF FeedbackLoopValue
  <1>7. L \cup {"start"} \subseteq DOMAIN FeedbackLoopValue \cup {"ok", "fail"}
    BY <1>6 DEF FeedbackFinds, FeedbackGuesses
  <1> QED BY <1>1, <1>5, <1>7, FitsIf DEF a

\* The record looked for page by page.
LEMMA RecordPropertyClickFits == Fits("record_property_click")
PROOF
  <1> DEFINE a == "record_property_click"
             L == {"act", "next", "fail", "acted", "ok", "turned", "again", "rest",
               "start"}
  <1>1. a \in Actions /\ Script[a] = RecordPropertyClick
    BY DEF Script, Actions
  <1>2. /\ Done(a) = {"acted", "ok"}
        /\ Firm(a) = {"acted", "ok"}
        /\ a \in ActsLast
        /\ a \notin FailsClean \cup MayMiss \cup Gates
    BY DEF Done, Firm, FailsClean, ActsLast, MayMiss, Gates, Observers
  <1> HIDE DEF a
  <1>3. Part(RecordFinds, a, L)
    BY <1>2 DEF Part, RecordFinds, Look, Node
  <1>4. Part(RecordPages, a, L)
    BY <1>2 DEF Part, RecordPages, Act, Wait, Touch, Node
  <1>5. Part(RecordPropertyClick, a, L)
    BY <1>3, <1>4, Joined DEF RecordPropertyClick
  <1>6. /\ DOMAIN RecordFinds \subseteq DOMAIN RecordPropertyClick
        /\ DOMAIN RecordPages \subseteq DOMAIN RecordPropertyClick
    BY KeysOfParts DEF RecordPropertyClick
  <1>7. L \cup {"start"} \subseteq DOMAIN RecordPropertyClick \cup {"ok", "fail"}
    BY <1>6 DEF RecordFinds, RecordPages
  <1> QED BY <1>1, <1>5, <1>7, FitsIf DEF a

\* The target looked for in a tree.
LEMMA TreeSearchClickFits == Fits("tree_search_click")
PROOF
  <1> DEFINE a == "tree_search_click"
             L == {"find", "fail", "act", "expand", "expanded", "seen", "acted", "ok"}
  <1>1. a \in Actions /\ Script[a] = TreeSearchClick
    BY DEF Script, Actions
  <1>2. /\ Done(a) = {"acted", "ok"}
        /\ Firm(a) = {"acted", "ok"}
        /\ a \in ActsLast
        /\ a \notin FailsClean \cup MayMiss \cup Gates
    BY DEF Done, Firm, FailsClean, ActsLast, MayMiss, Gates, Observers
  <1> HIDE DEF a
  <1>3. Part(TreeFinds, a, L)
    BY <1>2 DEF Part, TreeFinds, Look, Node
  <1>4. Part(TreeExpands, a, L)
    BY <1>2 DEF Part, TreeExpands, Look, Touch, Wait, Act, Node
  <1>5. Part(TreeSearchClick, a, L)
    BY <1>3, <1>4, Joined DEF TreeSearchClick
  <1>6. /\ DOMAIN TreeFinds \subseteq DOMAIN TreeSearchClick
        /\ DOMAIN TreeExpands \subseteq DOMAIN TreeSearchClick
    BY KeysOfParts DEF TreeSearchClick
  <1>7. L \cup {"start"} \subseteq DOMAIN TreeSearchClick \cup {"ok", "fail"}
    BY <1>6 DEF TreeFinds, TreeExpands
  <1> QED BY <1>1, <1>5, <1>7, FitsIf DEF a

\* The surface sampled with the pointer.
LEMMA VisualFeedbackSearchFits == Fits("visual_feedback_search")
PROOF
  <1> DEFINE a == "visual_feedback_search"
             L == {"scroll", "fail", "near", "probe", "choose", "act", "ok"}
  <1>1. a \in Actions /\ Script[a] = VisualFeedbackSearch
    BY DEF Script, Actions
  <1>2. /\ Done(a) = {"ok"}
        /\ Firm(a) = {"ok"}
        /\ a \in ActsLast
        /\ a \notin FailsClean \cup MayMiss \cup Gates
    BY DEF Done, Firm, FailsClean, ActsLast, MayMiss, Gates, Observers
  <1> HIDE DEF a
  <1>3. Part(FeedbackSurface, a, L)
    BY <1>2 DEF Part, FeedbackSurface, Look, Wait, Node
  <1>4. Part(FeedbackReads, a, L)
    BY <1>2 DEF Part, FeedbackReads, Look, Node
  <1>5. Part(FeedbackProbes, a, L)
    BY <1>2 DEF Part, FeedbackProbes, Touch, Look, Act, Node
  <1>6. Part(VisualFeedbackSearch, a, L)
    BY <1>3, <1>4, <1>5, Joined DEF VisualFeedbackSearch
  <1>7. /\ DOMAIN FeedbackSurface \subseteq DOMAIN VisualFeedbackSearch
        /\ DOMAIN FeedbackReads \subseteq DOMAIN VisualFeedbackSearch
        /\ DOMAIN FeedbackProbes \subseteq DOMAIN VisualFeedbackSearch
    BY KeysOfParts DEF VisualFeedbackSearch
  <1>8. L \cup {"start"} \subseteq DOMAIN VisualFeedbackSearch \cup {"ok", "fail"}
    BY <1>7 DEF FeedbackSurface, FeedbackReads, FeedbackProbes
  <1> QED BY <1>1, <1>6, <1>8, FitsIf DEF a

\* The target that has to be revealed.
LEMMA DiscoverClickFits == Fits("discover_click")
PROOF
  <1> DEFINE a == "discover_click"
             L == {"fillTrigger", "opener", "find", "opened", "reveal", "search",
               "paged", "found", "morePaged", "page", "control", "fail",
               "morePage", "deferred", "ok", "hovered", "hover", "again",
               "act", "browserTarget", "acted", "browser", "mouse",
               "missed"}
  <1>1. a \in Actions /\ Script[a] = DiscoverClick
    BY DEF Script, Actions
  <1>2. /\ Done(a) = {"acted", "ok"}
        /\ Firm(a) = {"acted", "ok"}
        /\ a \in ActsLast \cap MayMiss
        /\ a \notin FailsClean \cup Gates
    BY DEF Done, Firm, FailsClean, ActsLast, MayMiss, Gates, Observers
  <1> HIDE DEF a
  <1>3. Part(DiscoverTrigger, a, L)
    BY <1>2 DEF Part, DiscoverTrigger, Look, Touch, Wait, Node
  <1>4. Part(DiscoverPages, a, L)
    BY <1>2 DEF Part, DiscoverPages, Touch, Wait, Node
  <1>5. Part(DiscoverControls, a, L)
    BY <1>2 DEF Part, DiscoverControls, Look, Touch, Node
  <1>6. Part(DiscoverMenus, a, L)
    BY <1>2 DEF Part, DiscoverMenus, Touch, Wait, Node
  <1>7. Part(DiscoverReveals, a, L)
    BY <1>2 DEF Part, DiscoverReveals, Look, Node
  <1>8. Part(DiscoverDeferred, a, L)
    BY <1>2 DEF Part, DiscoverDeferred, Touch, Wait, Node
  <1>9. Part(DiscoverEvents, a, L)
    BY <1>2 DEF Part, DiscoverEvents, Look, Act, Wait, Node
  <1>10. Part(DiscoverBrowser, a, L)
    BY <1>2 DEF Part, DiscoverBrowser, Ask, Act, Look, Node
  <1>11. Part(DiscoverClick, a, L)
    BY <1>3, <1>4, <1>5, <1>6, <1>7, <1>8, <1>9, <1>10, Joined DEF
       DiscoverClick
  <1>12. /\ DOMAIN DiscoverTrigger \subseteq DOMAIN DiscoverClick
        /\ DOMAIN DiscoverPages \subseteq DOMAIN DiscoverClick
        /\ DOMAIN DiscoverControls \subseteq DOMAIN DiscoverClick
        /\ DOMAIN DiscoverMenus \subseteq DOMAIN DiscoverClick
        /\ DOMAIN DiscoverReveals \subseteq DOMAIN DiscoverClick
        /\ DOMAIN DiscoverDeferred \subseteq DOMAIN DiscoverClick
        /\ DOMAIN DiscoverEvents \subseteq DOMAIN DiscoverClick
        /\ DOMAIN DiscoverBrowser \subseteq DOMAIN DiscoverClick
    BY KeysOfParts DEF DiscoverClick
  <1>13. L \cup {"start"} \subseteq DOMAIN DiscoverClick \cup {"ok", "fail"}
    BY <1>12 DEF DiscoverTrigger, DiscoverPages, DiscoverControls,
           DiscoverMenus, DiscoverReveals, DiscoverDeferred, DiscoverEvents,
           DiscoverBrowser
  <1> QED BY <1>1, <1>11, <1>13, FitsIf DEF a

\* The workflow on items of a list.
LEMMA ScopedItemWorkflowFits == Fits("scoped_item_workflow")
PROOF
  <1> DEFINE a == "scoped_item_workflow"
             D == {"eachDone", "enough", "actedNow", "actedThen", "fill", "setText",
               "textSet", "complete", "completed", "ok"}
             L == {"each", "item", "fail", "eachDone", "enough", "complete", "ok",
               "setText", "textSet", "actNow", "open", "itemAction",
               "actedNow", "opened", "actThen", "actedThen", "fill",
               "completed"}
  <1>1. a \in Actions /\ Script[a] = ScopedItemWorkflow
    BY DEF Script, Actions
  <1>2. /\ Done(a) = D
        /\ a \notin FailsClean \cup ActsLast \cup MayMiss \cup Gates
    BY DEF Done, Firm, FailsClean, ActsLast, MayMiss, Gates, Observers
  <1> HIDE DEF a
  <1>3. Part(ItemFinds, a, L)
    BY <1>2 DEF Part, ItemFinds, Look, Node
  <1>4. Part(ItemActions, a, L)
    BY <1>2 DEF Part, ItemActions, Act, Wait, Look, Node
  <1>5. Part(ItemFills, a, L)
    BY <1>2 DEF Part, ItemFills, Look, Touch, Wait, Node
  <1>6. Part(ItemOpens, a, L)
    BY <1>2 DEF Part, ItemOpens, Look, Act, Wait, Touch, Node
  <1>7. Part(ScopedItemWorkflow, a, L)
    BY <1>3, <1>4, <1>5, <1>6, Joined DEF ScopedItemWorkflow
  <1>8. /\ DOMAIN ItemFinds \subseteq DOMAIN ScopedItemWorkflow
        /\ DOMAIN ItemActions \subseteq DOMAIN ScopedItemWorkflow
        /\ DOMAIN ItemFills \subseteq DOMAIN ScopedItemWorkflow
        /\ DOMAIN ItemOpens \subseteq DOMAIN ScopedItemWorkflow
    BY KeysOfParts DEF ScopedItemWorkflow
  <1>9. L \cup {"start"} \subseteq DOMAIN ScopedItemWorkflow \cup {"ok", "fail"}
    BY <1>8 DEF ItemFinds, ItemActions, ItemFills, ItemOpens
  <1> QED BY <1>1, <1>7, <1>9, FitsIf DEF a

\* The workflow on a form.
LEMMA FormWorkflowFits == Fits("form_workflow")
PROOF
  <1> DEFINE a == "form_workflow"
             L == {"block", "fields", "blocked", "sure", "fill", "date", "submit",
               "preserve", "refuse", "suggest", "suggested", "wait", "fail", "filled", "sureSubmit", "sureWait", "ok",
               "submitted", "sureSubmitted", "results", "page", "pick",
               "sureResults", "surePage", "surePick", "paged", "surePaged"}
  <1>1. a \in Actions /\ Script[a] = FormWorkflow
    BY DEF Script, Actions
  <1>2. /\ a \in MayMiss
        /\ a \notin FailsClean \cup ActsLast \cup Gates
    BY DEF FailsClean, ActsLast, MayMiss, Gates, Observers
  <1> HIDE DEF a
  <1>3. Part(FormBlock, a, L)
    BY <1>2 DEF Part, FormBlock, Look, Act, Wait, Node
  <1>4. Part(FormFields, a, L)
    BY <1>2 DEF Part, FormFields, Look, Act, Wait, Node
  <1>5. Part(FormMatched, a, L)
    BY <1>2 DEF Part, FormMatched, Look, Touch, Wait, Node
  <1>6. Part(FormDate, a, L)
    BY <1>2 DEF Part, FormDate, Look, Act, Node
  <1>7. Part(FormSubmits, a, L)
    BY <1>2 DEF Part, FormSubmits, Act, Wait, Node
  <1>8. Part(FormResults, a, L)
    BY <1>2 DEF Part, FormResults, Wait, Look, Act, Node
  <1>9. Part(FormPages, a, L)
    BY <1>2 DEF Part, FormPages, Touch, Wait, Node
  <1>10. Part(FormWorkflow, a, L)
    BY <1>3, <1>4, <1>5, <1>6, <1>7, <1>8, <1>9, Joined DEF FormWorkflow
  <1>11. /\ DOMAIN FormBlock \subseteq DOMAIN FormWorkflow
        /\ DOMAIN FormFields \subseteq DOMAIN FormWorkflow
        /\ DOMAIN FormMatched \subseteq DOMAIN FormWorkflow
        /\ DOMAIN FormDate \subseteq DOMAIN FormWorkflow
        /\ DOMAIN FormSubmits \subseteq DOMAIN FormWorkflow
        /\ DOMAIN FormResults \subseteq DOMAIN FormWorkflow
        /\ DOMAIN FormPages \subseteq DOMAIN FormWorkflow
    BY KeysOfParts DEF FormWorkflow
  <1>12. L \cup {"start"} \subseteq DOMAIN FormWorkflow \cup {"ok", "fail"}
    BY <1>11 DEF FormBlock, FormFields, FormMatched, FormDate, FormSubmits,
           FormResults, FormPages
  <1> QED BY <1>1, <1>10, <1>12, FitsIf DEF a

\* The date picked or written.
LEMMA DatePickerFits == Fits("date_picker")
PROOF
  <1> DEFINE a == "date_picker"
             L == {"open", "cells", "opened", "act", "value", "fail", "ok", "written"}
  <1>1. a \in Actions /\ Script[a] = DatePicker
    BY DEF Script, Actions
  <1>2. /\ Done(a) = {"written", "ok"}
        /\ Firm(a) = {"written", "ok"}
        /\ a \in ActsLast
        /\ a \notin FailsClean \cup MayMiss \cup Gates
    BY DEF Done, Firm, FailsClean, ActsLast, MayMiss, Gates, Observers
  <1> HIDE DEF a
  <1>3. Part(DateOpens, a, L)
    BY <1>2 DEF Part, DateOpens, Look, Touch, Wait, Node
  <1>4. Part(DateCells, a, L)
    BY <1>2 DEF Part, DateCells, Look, Act, Node
  <1>5. Part(DateValue, a, L)
    BY <1>2 DEF Part, DateValue, Act, Wait, Node
  <1>6. Part(DatePicker, a, L)
    BY <1>3, <1>4, <1>5, Joined DEF DatePicker
  <1>7. /\ DOMAIN DateOpens \subseteq DOMAIN DatePicker
        /\ DOMAIN DateCells \subseteq DOMAIN DatePicker
        /\ DOMAIN DateValue \subseteq DOMAIN DatePicker
    BY KeysOfParts DEF DatePicker
  <1>8. L \cup {"start"} \subseteq DOMAIN DatePicker \cup {"ok", "fail"}
    BY <1>7 DEF DateOpens, DateCells, DateValue
  <1> QED BY <1>1, <1>6, <1>8, FitsIf DEF a

\* Every action has a script, and each script fits.
LEMMA ScriptsFit == \A a \in Actions : Fits(a)
PROOF
  BY ActionNames, ClickFits, FocusElementFits, HoverFits, PressFits, DragFits,
       SetViewportFits, EmulateDeviceFits, InHistoryFits, WaitForFits,
       ObserveFits, OnTargetFits, SelectTextFits, AutocompleteSelectFits,
       ClickOrderedValuesFits, SelectMenuPathFits, ScopedMenuClickFits,
       ScrollTextExtractFits, DrawPathFits, OrientVisualFits,
       DeriveAndActFits, GenerateConstrainedValueFits,
       ConditionalValueActionFits, CommandSurfaceActionFits,
       FeedbackLoopValueFits, RecordPropertyClickFits, TreeSearchClickFits,
       VisualFeedbackSearchFits, DiscoverClickFits, ScopedItemWorkflowFits,
       FormWorkflowFits, DatePickerFits

\* A script has not acted when it starts; when it is Ok it has, and when it
\* fails it is not where it cannot fail any more.
LEMMA Bounds ==
  ASSUME NEW a
  PROVE  /\ {"start", "fail"} \cap Done(a) = {}
         /\ "fail" \notin Firm(a) /\ Done(a) \subseteq Firm(a)
         /\ "ok" \in Done(a)
PROOF
  <1>1. {"start", "fail"} \cap Done(a) = {} /\ "ok" \in Done(a)
    BY DEF Done
  <1> QED BY <1>1 DEF Firm

-----------------------------------------------------------------------------
(* The plans.                                                              *)

\* Plans of at least one step, every step one of the scripts; only a sequence
\* has more than one.
Plans ==
  {p \in [sequence : BOOLEAN, steps : Seq(SUBSET Actions)] :
     p.steps # <<>> /\ (~p.sequence => Len(p.steps) = 1)}

\* A result that speaks of itself always gives a signal of K: as a step of a
\* sequence, and in a plan.
Heard(S, K) ==
  S \subseteq DOMAIN Emits =>
    \A a \in S : a \notin TopLevelOnly /\ Emits[a] \in K
Told(p, K) ==
  \A n \in DOMAIN p.steps :
    p.steps[n] \subseteq DOMAIN Emits =>
      \A a \in p.steps[n] : SignalsOf(a, p.sequence) \cap K # {}
\* No result says anything but what is in K.
TellsOnly(p, K) ==
  \A n \in DOMAIN p.steps :
    \A a \in p.steps[n] : SignalsOf(a, p.sequence) \subseteq K

AllSignals == {Emits[a] : a \in DOMAIN Emits}
Fields == {"slider_value_set", "file_uploaded"}
FieldCapabilities ==
  {"scoped-multi-action", "slider-checkbox-sequence", "scoped-field-fill",
   "multi-field-form-fill"}

\* The plans of a capability, or of none, whose effect shows among K, or which
\* are of a blind spot.
Good(c, K) ==
  {p \in Plans :
     \/ Told(p, K)
     \/ p.sequence /\ p.steps[1] \subseteq TopLevelOnly
     \/ Told(p, AllSignals) /\ TellsOnly(p, {"text_formatted"})
     \/ c \in FieldCapabilities /\ TellsOnly(p, K \cup Fields)}

\* What goes for the steps goes for the plan.
LEMMA ToldIf ==
  ASSUME NEW p \in Plans, NEW K, \A n \in DOMAIN p.steps : Heard(p.steps[n], K)
  PROVE  Told(p, K)
PROOF BY DEF Told, Heard, SignalsOf

\* A plan of steps that are heard is recognised.
LEMMA GoodIf ==
  ASSUME NEW p \in Plans, NEW c, NEW K, \A n \in DOMAIN p.steps : Heard(p.steps[n], K)
  PROVE  p \in Good(c, K)
PROOF
  <1>1. Told(p, K)
    BY ToldIf
  <1> QED BY <1>1 DEF Good

\* A click says nothing of itself.
LEMMA ClickIsMute == \A K : Heard({"click"}, K)
PROOF
  <1>1. "click" \notin DOMAIN Emits
    BY DEF Emits
  <1> QED BY <1>1 DEF Heard

\* A plan of a single action.
LEMMA OneShape ==
  ASSUME NEW a \in Actions, NEW c, NEW K, a \in DOMAIN Emits => Emits[a] \in K
  PROVE  One(a) \subseteq Good(c, K)
PROOF
  <1> DEFINE p == Plan(FALSE, <<{a}>>)
  <1>1. p \in Plans /\ p.sequence = FALSE
    BY DEF Plan, Plans
  <1>2. DOMAIN p.steps = {1} /\ p.steps[1] = {a}
    BY DEF Plan
  <1>3. Told(p, K)
    BY <1>1, <1>2 DEF Told, SignalsOf
  <1> QED BY <1>1, <1>3 DEF One, Good

\* A sequence of steps each of which is heard.
LEMMA HeardShapes ==
  ASSUME NEW S \in SUBSET Actions, NEW T \in SUBSET Actions, NEW c, NEW K,
         Heard(S, K), Heard(T, K)
  PROVE  /\ Plan(TRUE, <<S>>) \in Good(c, K)
         /\ Plan(TRUE, <<S, T>>) \in Good(c, K)
         /\ Plan(TRUE, <<S, T, {"click"}>>) \in Good(c, K)
PROOF
  <1>1. {"click"} \in SUBSET Actions
    BY DEF Actions, Script
  <1>2. Plan(TRUE, <<S>>) \in Good(c, K)
    <2> DEFINE p == Plan(TRUE, <<S>>)
    <2>1. p \in Plans
      BY DEF Plan, Plans
    <2>2. \A n \in DOMAIN p.steps : p.steps[n] = S
      BY DEF Plan
    <2> HIDE DEF p
    <2>3. p \in Good(c, K)
      BY <2>1, <2>2, GoodIf
    <2> QED BY <2>3 DEF p
  <1>3. Plan(TRUE, <<S, T>>) \in Good(c, K)
    <2> DEFINE p == Plan(TRUE, <<S, T>>)
    <2>1. p \in Plans
      BY DEF Plan, Plans
    <2>2. \A n \in DOMAIN p.steps : p.steps[n] \in {S, T}
      BY DEF Plan
    <2> HIDE DEF p
    <2>3. p \in Good(c, K)
      BY <2>1, <2>2, GoodIf
    <2> QED BY <2>3 DEF p
  <1>4. Plan(TRUE, <<S, T, {"click"}>>) \in Good(c, K)
    <2> DEFINE p == Plan(TRUE, <<S, T, {"click"}>>)
    <2>1. p \in Plans
      BY <1>1 DEF Plan, Plans
    <2>2. \A n \in DOMAIN p.steps : p.steps[n] \in {S, T, {"click"}}
      BY DEF Plan
    <2> HIDE DEF p
    <2>3. p \in Good(c, K)
      BY <2>1, <2>2, GoodIf, ClickIsMute
    <2> QED BY <2>3 DEF p
  <1> QED BY <1>2, <1>3, <1>4

\* A plan with a follow-up click.
LEMMA FollowUpShape ==
  ASSUME NEW a \in Actions, NEW c, NEW K,
         Heard({a}, K) \/ a \in TopLevelOnly
  PROVE  FollowUp(a) \subseteq Good(c, K)
PROOF
  <1>1. {"click"} \in SUBSET Actions
    BY DEF Actions, Script
  <1>2. CASE Heard({a}, K)
    <2>1. {a} \in SUBSET Actions
      OBVIOUS
    <2> QED BY <1>1, <1>2, <2>1, HeardShapes, ClickIsMute DEF FollowUp
  <1>3. CASE a \in TopLevelOnly
    <2> DEFINE p == Plan(TRUE, <<{a}, {"click"}>>)
    <2>1. p \in Plans
      BY <1>1 DEF Plan, Plans
    <2>2. p.sequence /\ p.steps[1] = {a}
      BY DEF Plan
    <2> HIDE DEF p
    <2>3. p \in Good(c, K)
      BY <1>3, <2>1, <2>2 DEF Good
    <2> QED BY <2>3 DEF FollowUp, p
  <1> QED BY <1>2, <1>3

\* One action, with or without a click, of which a step is heard.
LEMMA WithFollowUpShape ==
  ASSUME NEW a \in Actions, NEW c, NEW K, Heard({a}, K)
  PROVE  One(a) \subseteq Good(c, K) /\ WithFollowUp(a) \subseteq Good(c, K)
PROOF
  <1>1. a \in DOMAIN Emits => Emits[a] \in K
    BY DEF Heard
  <1> QED BY <1>1, OneShape, FollowUpShape DEF WithFollowUp

\* Sequences of any length have steps of two kinds.
LEMMA StepsShape ==
  ASSUME NEW S \in SUBSET Actions, NEW n \in Nat \ {0}, NEW p \in Steps(S, n)
  PROVE  p \in Plans /\ \A i \in DOMAIN p.steps : p.steps[i] \in {S, {"click"}}
PROOF
  <1> DEFINE first(k) == [i \in 1 .. k |-> S]
  <1>1. ASSUME NEW k \in n .. MaxPlanSteps
        PROVE  /\ first(k) \in Seq(SUBSET Actions) /\ Len(first(k)) = k
               /\ first(k) # <<>> /\ \A i \in 1 .. k : first(k)[i] = S
    <2>1. k \in Nat /\ k # 0
      BY MaxPlanStepsAssumption
    <2>2. first(k) \in [1 .. k -> SUBSET Actions]
      OBVIOUS
    <2>3. first(k) \in Seq(SUBSET Actions) /\ Len(first(k)) = k
      BY <2>1, <2>2
    <2>4. \A i \in 1 .. k : first(k)[i] = S
      OBVIOUS
    <2> HIDE DEF first
    <2> QED BY <2>1, <2>3, <2>4
  <1>2. {"click"} \in SUBSET Actions
    BY DEF Actions, Script
  <1>3. p \in {Plan(TRUE, first(k)) : k \in n .. MaxPlanSteps}
            \cup {Plan(TRUE, Append(first(k), {"click"})) :
                    k \in n .. MaxPlanSteps - 1}
    BY DEF Steps
  <1> HIDE DEF first
  <1>4. ASSUME NEW k \in n .. MaxPlanSteps, p = Plan(TRUE, first(k))
        PROVE  p \in Plans /\ \A i \in DOMAIN p.steps : p.steps[i] = S
    BY <1>1, <1>4 DEF Plan, Plans
  <1>5. ASSUME NEW k \in n .. MaxPlanSteps - 1,
               p = Plan(TRUE, Append(first(k), {"click"}))
        PROVE  /\ p \in Plans
               /\ \A i \in DOMAIN p.steps : p.steps[i] \in {S, {"click"}}
    <2>1. k \in n .. MaxPlanSteps
      BY MaxPlanStepsAssumption
    <2>2. /\ first(k) \in Seq(SUBSET Actions) /\ Len(first(k)) = k
          /\ \A i \in 1 .. k : first(k)[i] = S
      BY <1>1, <2>1
    <2>3. p.steps = Append(first(k), {"click"}) /\ p.sequence = TRUE
      BY <1>5 DEF Plan
    <2>4. p.steps \in Seq(SUBSET Actions) /\ p.steps # <<>>
      BY <1>2, <2>2, <2>3
    <2>5. p \in Plans
      BY <1>5, <2>3, <2>4 DEF Plan, Plans
    <2>6. \A i \in DOMAIN p.steps : p.steps[i] \in {S, {"click"}}
      BY <2>2, <2>3
    <2> QED BY <2>5, <2>6
  <1> QED BY <1>3, <1>4, <1>5

\* A sequence of any length whose steps are heard.
LEMMA HeardSteps ==
  ASSUME NEW S \in SUBSET Actions, NEW n \in Nat \ {0}, NEW c, NEW K,
         Heard(S, K)
  PROVE  Steps(S, n) \subseteq Good(c, K)
PROOF
  <1>1. ASSUME NEW p \in Steps(S, n)
        PROVE  p \in Good(c, K)
    <2>1. p \in Plans /\ \A i \in DOMAIN p.steps : p.steps[i] \in {S, {"click"}}
      BY StepsShape
    <2> QED BY <2>1, GoodIf, ClickIsMute
  <1> QED BY <1>1

\* What the results that are steps of sequences say of themselves.
LEMMA StepSignals ==
  /\ Emits["type"] = "value_control_set"
  /\ Emits["select_option"] = "option_selection_set"
  /\ Emits["upload_file"] = "file_uploaded"
  /\ Emits["set_slider"] = "slider_value_set"
  /\ Emits["select_text"] = "text_selected"
  /\ Emits["format_text"] = "text_formatted"
  /\ Emits["set_checkbox_grid"] = "checkbox_grid_set"
  /\ Emits["autocomplete_select"] = "autocomplete_option_selected"
  /\ Emits["scroll_text_extract"] = "scroll_text_value_used"
  /\ {"type", "select_option", "upload_file", "set_slider", "select_text",
      "format_text", "set_checkbox_grid", "autocomplete_select",
      "scroll_text_extract"} \subseteq DOMAIN Emits \ TopLevelOnly
PROOF BY DEF Emits, TopLevelOnly

\* What the results of single actions say of themselves.
LEMMA PlanSignals ==
  /\ Emits["derive_and_act"] = "derived_value_entered"
  /\ Emits["generate_constrained_value"] = "generated_value_submitted"
  /\ Emits["feedback_loop_value"] = "generated_value_submitted"
  /\ Emits["conditional_value_action"] = "conditional_action_completed"
  /\ Emits["command_surface_action"] = "command_surface_completed"
  /\ Emits["click_ordered_values"] = "ordered_targets_clicked"
  /\ Emits["select_menu_path"] = "menu_path_selected"
  /\ Emits["scoped_menu_click"] = "scoped_target_clicked"
  /\ Emits["record_property_click"] = "record_property_clicked"
  /\ Emits["tree_search_click"] = "tree_target_clicked"
  /\ Emits["visual_feedback_search"] = "pointer_feedback_target_clicked"
  /\ Emits["discover_click"] = "target_revealed_or_clicked"
  /\ Emits["form_workflow"] = "form_workflow_completed"
  /\ Emits["scoped_item_workflow"] = "scoped_workflow_completed"
  /\ Emits["date_picker"] = "calendar_date_selected"
PROOF BY DEF Emits

\* The actions whose results say nothing of themselves.
LEMMA Mute ==
  ASSUME NEW S,
         S \cap {"click", "set_checked", "drag", "scroll_element", "read_text"} # {}
  PROVE  \A K : Heard(S, K)
PROOF
  <1>1. {"click", "set_checked", "drag", "scroll_element", "read_text"}
          \cap DOMAIN Emits = {}
    BY DEF Emits
  <1> QED BY <1>1 DEF Heard

\* A value that was entered is looked for by these effects.
LEMMA ValueHeard ==
  ASSUME NEW e \in {"visible_count_value_used", "table_values_filled",
                    "table_cell_value_used", "text_copied_to_target",
                    "visible_text_entered", "color_picker_value_set",
                    "scoped_field_edited", "scoped_field_filled",
                    "numeric_value_set", "form_fields_filled",
                    "scroll_fill_and_submit_completed"}
  PROVE  Heard({"type"}, EffectSignalKinds(e))
PROOF
  <1>1. CASE e = "scroll_fill_and_submit_completed"
    <2>1. "value_control_set" \in WorkflowEffectKinds(e)
      BY <1>1 DEF WorkflowEffectKinds, ClickEffects
    <2> QED BY <2>1, StepSignals DEF Heard, EffectSignalKinds
  <1>2. CASE e # "scroll_fill_and_submit_completed"
    <2>1. "value_control_set" \in ValueEffectKinds(e)
      BY <1>2 DEF ValueEffectKinds
    <2> QED BY <2>1, StepSignals DEF Heard, EffectSignalKinds
  <1> QED BY <1>1, <1>2

\* The other steps of sequences are looked for by the effects of their
\* capabilities.
LEMMA StepsHeard ==
  /\ Heard({"scroll_text_extract"}, EffectSignalKinds("scroll_text_value_used"))
  /\ Heard({"select_text"}, EffectSignalKinds("text_selected"))
  /\ Heard({"select_option"}, EffectSignalKinds("list_options_selected"))
  /\ Heard({"select_option"}, EffectSignalKinds("scoped_field_filled"))
  /\ Heard({"set_checkbox_grid"}, EffectSignalKinds("checkbox_pattern_rendered"))
  /\ Heard({"set_slider"}, EffectSignalKinds("slider_values_set"))
  /\ Heard({"set_slider"}, EffectSignalKinds("slider_value_set"))
  /\ Heard({"upload_file"}, EffectSignalKinds("file_uploaded"))
  /\ Heard({"autocomplete_select"},
           EffectSignalKinds("autocomplete_option_selected"))
PROOF
  <1>1. /\ "scroll_text_value_used" \in ValueEffectKinds("scroll_text_value_used")
        /\ "option_selection_set" \in ValueEffectKinds("scoped_field_filled")
        /\ "slider_value_set" \in ValueEffectKinds("slider_values_set")
        /\ "slider_value_set" \in ValueEffectKinds("slider_value_set")
        /\ "file_uploaded" \in ValueEffectKinds("file_uploaded")
        /\ "autocomplete_option_selected" \in
             ValueEffectKinds("autocomplete_option_selected")
    BY DEF ValueEffectKinds
  <1>2. /\ "text_selected" \in ChoiceEffectKinds("text_selected")
        /\ "option_selection_set" \in ChoiceEffectKinds("list_options_selected")
        /\ "checkbox_grid_set" \in ChoiceEffectKinds("checkbox_pattern_rendered")
    BY DEF ChoiceEffectKinds
  <1> QED BY <1>1, <1>2, StepSignals DEF Heard, EffectSignalKinds

\* The single actions are looked for by the effects of their capabilities.
LEMMA PlansHeard ==
  /\ Emits["derive_and_act"] \in
       EffectSignalKinds("derived_value_or_action_completed")
  /\ Emits["generate_constrained_value"] \in
       EffectSignalKinds("generated_value_submitted")
  /\ Emits["feedback_loop_value"] \in
       EffectSignalKinds("generated_value_submitted")
  /\ Emits["conditional_value_action"] \in
       EffectSignalKinds("conditional_action_completed")
  /\ Emits["command_surface_action"] \in
       EffectSignalKinds("command_surface_completed")
  /\ Emits["click_ordered_values"] \in
       EffectSignalKinds("ordered_numeric_targets_clicked")
  /\ Emits["select_menu_path"] \in EffectSignalKinds("menu_path_selected")
  /\ Emits["scoped_menu_click"] \in EffectSignalKinds("scoped_target_clicked")
  /\ Emits["record_property_click"] \in
       EffectSignalKinds("record_property_clicked")
  /\ Emits["tree_search_click"] \in EffectSignalKinds("tree_target_clicked")
  /\ Emits["visual_feedback_search"] \in
       EffectSignalKinds("pointer_feedback_target_clicked")
  /\ Emits["discover_click"] \in
       EffectSignalKinds("target_revealed_or_clicked")
  /\ Emits["form_workflow"] \in EffectSignalKinds("form_workflow_completed")
  /\ Emits["scoped_item_workflow"] \in
       EffectSignalKinds("item_action_completed")
  /\ Emits["date_picker"] \in EffectSignalKinds("calendar_date_selected")
PROOF
  <1>1. /\ "derived_value_entered" \in
             WorkflowEffectKinds("derived_value_or_action_completed")
        /\ "generated_value_submitted" \in
             WorkflowEffectKinds("generated_value_submitted")
        /\ "conditional_action_completed" \in
             WorkflowEffectKinds("conditional_action_completed")
        /\ "command_surface_completed" \in
             WorkflowEffectKinds("command_surface_completed")
        /\ "form_workflow_completed" \in
             WorkflowEffectKinds("form_workflow_completed")
    BY DEF WorkflowEffectKinds, ClickEffects
  <1>2. \A e \in ClickEffects :
          {"scoped_workflow_completed", "ordered_targets_clicked",
           "scoped_target_clicked", "record_property_clicked",
           "tree_target_clicked", "target_revealed_or_clicked",
           "pointer_feedback_target_clicked"} \subseteq WorkflowEffectKinds(e)
    BY DEF WorkflowEffectKinds, ClickEffects
  <1>3. {"ordered_numeric_targets_clicked", "scoped_target_clicked",
         "record_property_clicked", "tree_target_clicked",
         "pointer_feedback_target_clicked", "target_revealed_or_clicked",
         "item_action_completed"} \subseteq ClickEffects
    BY DEF ClickEffects
  <1>4. /\ "menu_path_selected" \in ChoiceEffectKinds("menu_path_selected")
        /\ "calendar_date_selected" \in
             ChoiceEffectKinds("calendar_date_selected")
    BY DEF ChoiceEffectKinds
  <1> QED BY <1>1, <1>2, <1>3, <1>4, PlanSignals DEF EffectSignalKinds

\* Fields filled by file, slider, list or keyboard: some results are looked
\* for, and the others are those of the blind spot.
LEMMA FieldShape ==
  ASSUME NEW p \in Plans, NEW c \in FieldCapabilities, NEW K,
         {"value_control_set", "option_selection_set"} \subseteq K,
         \A n \in DOMAIN p.steps :
           p.steps[n] \subseteq ValueFieldActions \cup {"click"}
  PROVE  p \in Good(c, K)
PROOF
  <1>1. \A a \in ValueFieldActions : Emits[a] \in K \cup Fields
    BY StepSignals DEF ValueFieldActions, Fields
  <1>2. "click" \notin DOMAIN Emits
    BY DEF Emits
  <1>3. TellsOnly(p, K \cup Fields)
    BY <1>1, <1>2 DEF TellsOnly, SignalsOf
  <1> QED BY <1>3 DEF Good

\* The plans that fill one field, and those that fill several.
LEMMA FieldPlans ==
  ASSUME NEW c \in FieldCapabilities, NEW K,
         {"value_control_set", "option_selection_set"} \subseteq K
  PROVE  ValueField \subseteq Good(c, K)
         /\ Steps(ValueFieldActions, 2) \subseteq Good(c, K)
PROOF
  <1>1. ValueFieldActions \cup {"click"} \subseteq Actions
    BY ActionNames DEF ValueFieldActions
  <1>2. ASSUME NEW a \in ValueFieldActions
        PROVE  WithFollowUp(a) \subseteq Good(c, K)
    <2> DEFINE alone == Plan(FALSE, <<{a}>>)
               followed == Plan(TRUE, <<{a}, {"click"}>>)
    <2>1. {alone, followed} \subseteq Plans
      <3>1. alone \in Plans
        BY <1>1 DEF Plan, Plans
      <3>2. followed \in Plans
        BY <1>1 DEF Plan, Plans
      <3> QED BY <3>1, <3>2
    <2>2. \A n \in DOMAIN alone.steps : alone.steps[n] = {a}
      BY DEF Plan
    <2>3. \A n \in DOMAIN followed.steps : followed.steps[n] \in {{a}, {"click"}}
      BY DEF Plan
    <2> HIDE DEF alone, followed
    <2>4. alone \in Good(c, K)
      BY <2>1, <2>2, FieldShape
    <2>5. followed \in Good(c, K)
      BY <2>1, <2>3, FieldShape
    <2> QED BY <2>4, <2>5 DEF WithFollowUp, One, FollowUp, alone, followed
  <1>3. ASSUME NEW p \in Steps(ValueFieldActions, 2)
        PROVE  p \in Good(c, K)
    <2>1. ValueFieldActions \in SUBSET Actions /\ 2 \in Nat \ {0}
      BY <1>1
    <2>2. p \in Plans
          /\ \A i \in DOMAIN p.steps : p.steps[i] \in {ValueFieldActions, {"click"}}
      BY <1>3, <2>1, StepsShape
    <2> QED BY <2>2, FieldShape
  <1> QED BY <1>2, <1>3 DEF ValueField

\* Text that is formatted, which no effect looks for.
LEMMA StylePlans ==
  ASSUME NEW c, NEW K
  PROVE  EditorStylePlan \subseteq Good(c, K)
PROOF
  <1>1. ASSUME NEW p \in EditorStylePlan
        PROVE  p \in Good(c, K)
    <2>1. {"format_text"} \in SUBSET Actions /\ 1 \in Nat \ {0}
      BY ActionNames
    <2>2. p \in Plans
          /\ \A n \in DOMAIN p.steps : p.steps[n] \in {{"format_text"}, {"click"}}
      BY <1>1, <2>1, StepsShape DEF EditorStylePlan
    <2>3. Heard({"format_text"}, AllSignals)
      BY StepSignals DEF Heard, AllSignals
    <2>4. Told(p, AllSignals)
      BY <2>2, <2>3, ClickIsMute, ToldIf
    <2>5. "click" \notin DOMAIN Emits
      BY DEF Emits
    <2>6. TellsOnly(p, {"text_formatted"})
      BY <2>2, <2>5, StepSignals DEF TellsOnly, SignalsOf
    <2> QED BY <2>2, <2>4, <2>6 DEF Good
  <1> QED BY <1>1

\* What a capability with this effect may build.
Offer(name, effect) == Good(name, EffectSignalKinds(effect))

\* The capabilities that derive a value or read one from the page.
LEMMA ReasoningGood ==
  \A r \in ReasoningCapabilities :
    r.plans \subseteq Good(r.name, EffectSignalKinds(r.effect))
PROOF
  <1>1. /\ DeriveAndActPlan \subseteq
             Offer("derived-value", "derived_value_or_action_completed")
        /\ FeedbackLoopValuePlan \subseteq
             Offer("feedback-loop-value", "generated_value_submitted")
        /\ ConditionalValueActionPlan \subseteq
             Offer("conditional-value-action", "conditional_action_completed")
        /\ GenerateConstrainedValuePlan \subseteq
             Offer("numeric-constraint-generation", "generated_value_submitted")
    BY ActionNames, OneShape, PlansHeard
       DEF Offer, DeriveAndActPlan, FeedbackLoopValuePlan,
           ConditionalValueActionPlan, GenerateConstrainedValuePlan
  <1>2. VisualGeometrySelectionPlan \subseteq
          Offer("visual-geometry-selection", "visual_geometry_value_selected")
    BY ActionNames, WithFollowUpShape, Mute
       DEF Offer, VisualGeometrySelectionPlan
  <1>3. /\ CountPlan \subseteq
             Offer("visible-count-value", "visible_count_value_used")
        /\ TableLookupPlan \subseteq
             Offer("table-cell-lookup", "table_cell_value_used")
    BY ActionNames, WithFollowUpShape, Mute, ValueHeard
       DEF Offer, CountPlan, TableLookupPlan
  <1>4. ScrollTextExtractPlan \subseteq
          Offer("scrollable-text-extract", "scroll_text_value_used")
    BY ActionNames, WithFollowUpShape, StepsHeard
       DEF Offer, ScrollTextExtractPlan
  <1>5. TableToFormFillPlan \subseteq
          Offer("table-to-form-fill", "table_values_filled")
    BY ActionNames, HeardSteps, ValueHeard
       DEF Offer, TableToFormFillPlan
  <1>6. /\ CopyTextTransferPlan \subseteq
             Offer("copy-text-transfer", "text_copied_to_target")
        /\ VisibleTextTranscriptionPlan \subseteq
             Offer("visible-text-transcription", "visible_text_entered")
    BY ActionNames, WithFollowUpShape, ValueHeard
       DEF Offer, CopyTextTransferPlan, VisibleTextTranscriptionPlan
  <1> QED BY <1>1, <1>2, <1>3, <1>4, <1>5, <1>6 DEF ReasoningCapabilities,
         Cap, Offer

\* The capabilities that run a workflow or a sequence of steps.
LEMMA WorkflowGood ==
  \A r \in WorkflowCapabilities :
    r.plans \subseteq Good(r.name, EffectSignalKinds(r.effect))
PROOF
  <1>1. /\ CommandSurfaceActionPlan \subseteq
             Offer("command-surface-action", "command_surface_completed")
        /\ ScopedItemWorkflowPlan \subseteq
             Offer("scoped-item-workflow", "item_action_completed")
        /\ FormWorkflowPlan \subseteq
             Offer("form-result-workflow", "form_workflow_completed")
        /\ OrderedValueClickPlan \subseteq
             Offer("ordered-value-clicks", "ordered_numeric_targets_clicked")
    BY ActionNames, OneShape, PlansHeard
       DEF Offer, CommandSurfaceActionPlan, ScopedItemWorkflowPlan,
           FormWorkflowPlan, OrderedValueClickPlan
  <1>2. /\ CompoundFormStepsPlan \subseteq
             Offer("compound-form-steps", "compound_form_sequence_completed")
        /\ ScopedMultiActionPlan \subseteq
             Offer("scoped-multi-action", "scoped_multi_action_completed")
        /\ OrderedClickSequencePlan \subseteq
             Offer("ordered-click-sequence", "ordered_targets_clicked")
    BY ActionNames, HeardSteps, Mute
       DEF Offer, CompoundFormStepsPlan, ScopedMultiActionPlan,
           ValueFieldActions, OrderedClickSequencePlan
  <1>3. SliderCheckboxPlan \subseteq
          Offer("slider-checkbox-sequence", "slider_and_checkbox_values_set")
    <2> DEFINE S == {"set_slider", "set_checked"}
               K == EffectSignalKinds("slider_and_checkbox_values_set")
    <2>1. S \in SUBSET Actions /\ {"click"} \in SUBSET Actions
      BY ActionNames
    <2>2. Heard(S, K) /\ Heard({"click"}, K)
      BY Mute
    <2>3. SliderCheckboxPlan = Steps(S, 2) \cup {Plan(TRUE, <<S, {"click"}>>)}
      BY DEF SliderCheckboxPlan
    <2> HIDE DEF S, K
    <2>4. Steps(S, 2) \subseteq Good("slider-checkbox-sequence", K)
      BY <2>1, <2>2, HeardSteps
    <2>5. Plan(TRUE, <<S, {"click"}>>) \in Good("slider-checkbox-sequence", K)
      BY <2>1, <2>2, HeardShapes
    <2> QED BY <2>3, <2>4, <2>5 DEF Offer, K
  <1>4. ScrollFillPressPlan \subseteq
          Offer("scroll-fill-press", "scroll_fill_and_submit_completed")
    <2> DEFINE S == {"scroll_element"}
               T == {"type"}
               K == EffectSignalKinds("scroll_fill_and_submit_completed")
    <2>1. S \in SUBSET Actions /\ T \in SUBSET Actions
      BY ActionNames
    <2>2. Heard(S, K) /\ Heard(T, K)
      BY Mute, ValueHeard
    <2>3. ScrollFillPressPlan =
            {Plan(TRUE, <<S, T>>), Plan(TRUE, <<S, T, {"click"}>>)}
      BY DEF ScrollFillPressPlan
    <2> HIDE DEF S, T, K
    <2>4. /\ Plan(TRUE, <<S, T>>) \in Good("scroll-fill-press", K)
          /\ Plan(TRUE, <<S, T, {"click"}>>) \in Good("scroll-fill-press", K)
      BY <2>1, <2>2, HeardShapes
    <2> QED BY <2>3, <2>4 DEF Offer, K
  <1> QED BY <1>1, <1>2, <1>3, <1>4 DEF WorkflowCapabilities, Cap, Offer

\* The capabilities that find a target and click or select it.
LEMMA TargetGood ==
  \A r \in TargetCapabilities :
    r.plans \subseteq Good(r.name, EffectSignalKinds(r.effect))
PROOF
  <1>1. /\ ItemQuantitySelectionPlan \subseteq
             Offer("item-quantity-selection", "item_quantities_selected")
        /\ BinaryRowClassificationPlan \subseteq
             Offer("binary-row-classification", "row_classification_completed")
    BY ActionNames, HeardSteps, Mute
       DEF Offer, ItemQuantitySelectionPlan, BinaryRowClassificationPlan
  <1>2. /\ RecordPropertyClickPlan \subseteq
             Offer("record-property-lookup", "record_property_clicked")
        /\ VisualFeedbackSearchPlan \subseteq
             Offer("visual-feedback-search", "pointer_feedback_target_clicked")
        /\ TreeSearchClickPlan \subseteq
             Offer("hierarchical-tree-search", "tree_target_clicked")
        /\ MenuPathPlan \subseteq
             Offer("menu-path-selection", "menu_path_selected")
        /\ DiscoverClickPlan \subseteq
             Offer("discovery-click", "target_revealed_or_clicked")
    BY ActionNames, OneShape, PlansHeard
       DEF Offer, RecordPropertyClickPlan, VisualFeedbackSearchPlan,
           TreeSearchClickPlan, MenuPathPlan, DiscoverClickPlan
  <1>3. TextSelectionPlan \subseteq Offer("text-selection", "text_selected")
    BY ActionNames, WithFollowUpShape, StepsHeard, StylePlans
       DEF Offer, TextSelectionPlan
  <1>4. ScopedChildClickPlan \subseteq
          Offer("scoped-child-click", "scoped_target_clicked")
    BY ActionNames, OneShape, PlansHeard, WithFollowUpShape, Mute
       DEF Offer, ScopedChildClickPlan, HiddenScopedMenuClickPlan
  <1>5. /\ OrdinalClickPlan \subseteq
             Offer("ordinal-click-target", "ordinal_target_clicked")
        /\ TabSelectionPlan \subseteq
             Offer("tab-selection", "target_revealed_or_clicked")
        /\ ExtremeClickPlan \subseteq
             Offer("extreme-click", "ranked_target_clicked")
    BY ActionNames, WithFollowUpShape, Mute
       DEF Offer, OrdinalClickPlan, TabSelectionPlan, ExtremeClickPlan
  <1>6. ListSelectionPlan \subseteq
          Offer("list-option-selection", "list_options_selected")
    BY ActionNames, WithFollowUpShape, StepsHeard
       DEF Offer, ListSelectionPlan
  <1> QED BY <1>1, <1>2, <1>3, <1>4, <1>5, <1>6 DEF TargetCapabilities, Cap,
         Offer

\* The capabilities that work on drawings and grids.
LEMMA GeometryGood ==
  \A r \in GeometryCapabilities :
    r.plans \subseteq Good(r.name, EffectSignalKinds(r.effect))
PROOF
  <1>1. /\ VisualGeometryClickPlan \subseteq
             Offer("visual-geometry-click", "visual_object_clicked")
        /\ PerpendicularPointConstructionPlan \subseteq
             Offer("perpendicular-point-construction", "visual_object_clicked")
        /\ ResizeElementPlan \subseteq
             Offer("element-resize", "element_resized")
        /\ CoordinateGridPlan \subseteq
             Offer("coordinate-grid-click", "coordinate_target_clicked")
        /\ VisualObjectClickPlan \subseteq
             Offer("visual-object-click", "visual_object_clicked")
    BY ActionNames, WithFollowUpShape, Mute
       DEF Offer, VisualGeometryClickPlan,
           PerpendicularPointConstructionPlan, ResizeElementPlan,
           CoordinateGridPlan, VisualObjectClickPlan
  <1>2. VisualColorSelectionPlan \subseteq
          Offer("visual-color-selection", "visual_color_targets_selected")
    BY ActionNames, HeardSteps, Mute
       DEF Offer, VisualColorSelectionPlan
  <1>3. CheckboxGridPatternPlan \subseteq
          Offer("checkbox-grid-pattern", "checkbox_pattern_rendered")
    BY ActionNames, WithFollowUpShape, StepsHeard
       DEF Offer, CheckboxGridPatternPlan
  <1> QED BY <1>1, <1>2, <1>3 DEF GeometryCapabilities, Cap, Offer

\* The capabilities that set a control of a form.
LEMMA ControlGood ==
  \A r \in ControlCapabilities :
    r.plans \subseteq Good(r.name, EffectSignalKinds(r.effect))
PROOF
  <1>1. /\ ScopedCheckedControlPlan \subseteq
             Offer("scoped-checked-control", "scoped_checked_control_set")
        /\ GroupedChoiceControlPlan \subseteq
             Offer("grouped-choice-control", "grouped_choice_control_set")
        /\ OrdinalCheckedControlPlan \subseteq
             Offer("ordinal-checked-control", "ordinal_checked_control_set")
    BY ActionNames, WithFollowUpShape, Mute
       DEF Offer, ScopedCheckedControlPlan, GroupedChoiceControlPlan,
           OrdinalCheckedControlPlan
  <1>2. /\ ColorPickerInputPlan \subseteq
             Offer("color-picker-input", "color_picker_value_set")
        /\ ScopedFieldEditPlan \subseteq
             Offer("scoped-field-edit", "scoped_field_edited")
        /\ SpinbuttonPlan \subseteq
             Offer("spinbutton-value", "numeric_value_set")
    BY ActionNames, WithFollowUpShape, ValueHeard
       DEF Offer, ColorPickerInputPlan, ScopedFieldEditPlan, SpinbuttonPlan
  <1>3. DatePickerPlan \subseteq
          Offer("date-picker-selection", "calendar_date_selected")
    <2>1. "date_picker" \in Actions /\ "click" \in Actions
      BY ActionNames
    <2>2. "date_picker" \in TopLevelOnly
      BY DEF TopLevelOnly
    <2>3. One("date_picker") \subseteq
            Offer("date-picker-selection", "calendar_date_selected")
      BY <2>1, OneShape, PlansHeard DEF Offer
    <2>4. FollowUp("date_picker") \subseteq
            Offer("date-picker-selection", "calendar_date_selected")
      BY <2>1, <2>2, FollowUpShape DEF Offer
    <2>5. WithFollowUp("click") \subseteq
            Offer("date-picker-selection", "calendar_date_selected")
      BY <2>1, WithFollowUpShape, ClickIsMute DEF Offer
    <2> QED BY <2>3, <2>4, <2>5 DEF DatePickerPlan, WithFollowUp
  <1>4. MultiSliderPlan \subseteq
          Offer("multi-slider-values", "slider_values_set")
    BY ActionNames, HeardSteps, StepsHeard
       DEF Offer, MultiSliderPlan
  <1>5. /\ ScopedFieldFillPlan \subseteq
             Offer("scoped-field-fill", "scoped_field_filled")
        /\ MultiFieldFormPlan \subseteq
             Offer("multi-field-form-fill", "form_fields_filled")
    BY FieldPlans
       DEF Offer, ScopedFieldFillPlan, FieldCapabilities, EffectSignalKinds,
           ValueEffectKinds, MultiFieldFormPlan, MultiQuotedFieldPlan
  <1>6. /\ UploadFilePlan \subseteq Offer("file-upload", "file_uploaded")
        /\ SliderPlan \subseteq
             Offer("single-slider-value", "slider_value_set")
        /\ AutocompletePlan \subseteq
             Offer("autocomplete-selection", "autocomplete_option_selected")
    BY ActionNames, WithFollowUpShape, StepsHeard
       DEF Offer, UploadFilePlan, SliderPlan, AutocompletePlan
  <1> QED BY <1>1, <1>2, <1>3, <1>4, <1>5, <1>6 DEF ControlCapabilities, Cap,
         Offer

\* The plans of a capability show in the effect it promises.
LEMMA CapabilityPlans ==
  ASSUME NEW c \in Capabilities
  PROVE  /\ Capability[c].name = c
         /\ Capability[c].plans \subseteq
              Good(c, EffectSignalKinds(Capability[c].effect))
PROOF
  <1>1. Capability[c] \in CapabilityRegistry /\ Capability[c].name = c
    BY DEF Capability, Capabilities
  <1>2. \A r \in CapabilityRegistry :
          r.plans \subseteq Good(r.name, EffectSignalKinds(r.effect))
    BY ReasoningGood, WorkflowGood, TargetGood, GeometryGood, ControlGood
       DEF CapabilityRegistry
  <1> QED BY <1>1, <1>2

\* Any shape made of the scripts, for a plan without a capability.
LEMMA PlainShapes ==
  ASSUME NEW a \in Actions
  PROVE  /\ One(a) \subseteq Good("none", AllSignals)
         /\ FollowUp(a) \subseteq Good("none", AllSignals)
         /\ WithFollowUp(a) \subseteq Good("none", AllSignals)
         /\ a \notin TopLevelOnly => Steps({a}, 1) \subseteq Good("none", AllSignals)
PROOF
  <1>1. a \in DOMAIN Emits => Emits[a] \in AllSignals
    BY DEF AllSignals
  <1>2. Heard({a}, AllSignals) \/ a \in TopLevelOnly
    BY <1>1 DEF Heard
  <1>3. One(a) \subseteq Good("none", AllSignals)
    BY <1>1, OneShape
  <1>4. FollowUp(a) \subseteq Good("none", AllSignals)
    BY <1>2, FollowUpShape
  <1>5. ASSUME a \notin TopLevelOnly
        PROVE  Steps({a}, 1) \subseteq Good("none", AllSignals)
    <2>1. {a} \in SUBSET Actions /\ 1 \in Nat \ {0}
      OBVIOUS
    <2> QED BY <1>2, <1>5, <2>1, HeardSteps
  <1> QED BY <1>3, <1>4, <1>5 DEF WithFollowUp

\* The plans the daemon makes itself.
LEMMA DaemonPlans ==
  ASSUME NEW k \in DaemonKinds
  PROVE  BuildPlan[k] \subseteq Good("none", AllSignals)
PROOF
  <1>1. BuildScrollPlan \subseteq Good("none", AllSignals)
    BY PlainShapes, ActionNames DEF BuildScrollPlan
  <1>2. BuildNavigatePlan \subseteq Good("none", AllSignals)
    BY PlainShapes, ActionNames DEF BuildNavigatePlan
  <1>3. BuildFindPlan \subseteq Good("none", AllSignals)
    BY PlainShapes, ActionNames DEF BuildFindPlan
  <1>4. /\ BuildPlan["scroll"] = BuildScrollPlan
        /\ BuildPlan["navigate"] = BuildNavigatePlan
        /\ BuildPlan["find_elements"] = BuildFindPlan
        /\ BuildPlan["wait"] = One("wait_for")
        /\ \A a \in {"set_viewport", "emulate_device", "read_text", "assert",
                     "analyze_form", "accessibility_tree", "screenshot"} :
             BuildPlan[a] = One(a)
    BY DEF BuildPlan
  <1>5. \A a \in {"wait_for", "set_viewport", "emulate_device", "read_text",
                  "assert", "analyze_form", "accessibility_tree", "screenshot"} :
          One(a) \subseteq Good("none", AllSignals)
    BY PlainShapes, ActionNames
  <1> QED BY <1>1, <1>2, <1>3, <1>4, <1>5 DEF DaemonKinds

\* The click that completes a sequence without items.
LEMMA CompletionPlans == CompletionPlan \subseteq Good("none", AllSignals)
PROOF
  <1>1. {"click"} \in SUBSET Actions
    BY ActionNames
  <1> QED BY <1>1, ClickIsMute, HeardShapes DEF CompletionPlan

\* The plans for a drag.
LEMMA DragPlans == DragPlan \subseteq Good("none", AllSignals)
PROOF
  <1>1. \A a \in {"click", "drag", "draw_path", "orient_visual"} :
          One(a) \cup WithFollowUp(a) \subseteq Good("none", AllSignals)
    BY PlainShapes, ActionNames
  <1>2. Steps({"drag"}, 1) \subseteq Good("none", AllSignals)
    BY PlainShapes, ActionNames DEF TopLevelOnly
  <1> QED BY <1>1, <1>2, CompletionPlans
          DEF DragPlan, AngleBisectorPlan, CircleDrawPlan, LineDrawPlan,
              NumericSortDragPlan, GridSlotDragPlan, ListReorderDragPlan,
              VisualShapePartitionDragPlan, VisualOrientationPlan,
              DirectionalDragPlan, GeometryDragPlan

\* The plans made without a capability speak for themselves.
LEMMA PlainPlans ==
  ASSUME NEW k
  PROVE  PlainPlan(k) \subseteq Good("none", AllSignals)
PROOF
  <1>1. \A a \in {"press", "focus", "hover", "type", "click", "derive_and_act"} :
          One(a) \subseteq Good("none", AllSignals)
    BY PlainShapes, ActionNames
  <1>2. FieldPlan \subseteq Good("none", AllSignals)
    <2>1. WithFollowUp("type") \subseteq Good("none", AllSignals)
      BY PlainShapes, ActionNames
    <2>2. Steps({"type"}, 1) \subseteq Good("none", AllSignals)
      BY PlainShapes, ActionNames DEF TopLevelOnly
    <2> QED BY <2>1, <2>2 DEF FieldPlan
  <1>3. OptionPlan \cup CheckedPlan \subseteq Good("none", AllSignals)
    <2>1. \A a \in {"select_option", "click", "set_checked"} :
            WithFollowUp(a) \subseteq Good("none", AllSignals)
      BY PlainShapes, ActionNames
    <2>2. Steps({"set_checked"}, 1) \subseteq Good("none", AllSignals)
      BY PlainShapes, ActionNames DEF TopLevelOnly
    <2> QED BY <2>1, <2>2, CompletionPlans DEF OptionPlan, CheckedPlan
  <1>4. CASE k \in DaemonKinds
    <2>1. PlainPlan(k) = BuildPlan[k]
      BY <1>4 DEF PlainPlan, DaemonKinds
    <2> QED BY <1>4, <2>1, DaemonPlans
  <1>5. CASE k \notin DaemonKinds
    <2>1. PagePlan(k) \in
            {One(a) : a \in {"press", "focus", "hover", "type", "click"}}
              \cup {FieldPlan, OptionPlan, CheckedPlan, DragPlan}
      BY DEF PagePlan
    <2>2. PlainPlan(k) = One("derive_and_act") \cup PagePlan(k)
      BY <1>5 DEF PlainPlan, DeriveAndActPlan
    <2> QED BY <1>1, <1>2, <1>3, <2>1, <2>2, DragPlans
  <1> QED BY <1>4, <1>5

-----------------------------------------------------------------------------
(* The inductive invariant.                                                *)

\* The signals that are looked for in an answer.
LookedFor(c) ==
  IF c = "none" THEN AllSignals ELSE EffectSignalKinds(Capability[c].effect)

\* The plan that is executed is one that was offered.
Body == Plan(plan.sequence, plan.steps)
PlanFits ==
  /\ \/ plan = NoPlan /\ pc \in {"asked", "before", "plan", "answered"}
     \/ Body \in Good(plan.capability, LookedFor(plan.capability))
  /\ pc \in {"step", "run", "failed", "after"} => step # 0

\* Where a script is and what it has done.
Placed ==
  pc = "run" =>
    /\ action \notin MayMiss /\ ~acted => at \notin Done(action)
    /\ action \in ActsLast /\ acted => at \in Firm(action)
    /\ action \in FailsClean /\ touched => at \in Firm(action)
    /\ action \in Gates /\ at = "start" => ~touched /\ ~acted
    /\ failure = "turned_away" =>
         at \in {"missed", "ok"} \/ (at = "fail" /\ ~touched /\ ~acted)

\* What a failed step has left, and that nothing is done before the first.
Leaves ==
  /\ pc = "failed" =>
       /\ (failure = "fail" /\ action \in FailsClean) \/ failure = "turned_away"
            => ~touched /\ ~acted
       /\ failure = "fail" /\ action \in ActsLast => ~acted
  /\ pc \in {"run", "failed"} /\ step = 1 => earlier = Nothing

\* Nothing is done before the decision, and in a dry run nothing at all; a
\* step begins without a failure, and only those that may miss have missed.
Preparing == pc \in {"asked", "before", "plan", "decide"}
Untouched == ~touched /\ ~acted /\ ~late
Phases ==
  /\ Preparing => Untouched /\ step = 0 /\ signals = {}
  /\ request.dryRun => Untouched /\ (Preparing \/ pc = "answered")
  /\ answer = "blocked" => Untouched
  /\ answer # "none" => pc = "answered"
  /\ pc \notin {"run", "failed", "answered"} => failure = "none"
  /\ pc = "run" => failure \in {"none", "turned_away"}
  /\ missed \subseteq MayMiss

\* Every step that was executed has said what its action says, and nothing
\* else was said.
Executed == IF pc = "after" THEN Len(plan.steps) ELSE step - 1
Speaks ==
  pc \in {"step", "run", "after"} =>
    /\ \A n \in 1 .. Executed :
         \E a \in plan.steps[n] : SignalsOf(a, plan.sequence) \subseteq signals
    /\ \A s \in signals : \E n \in 1 .. Len(plan.steps) :
         \E a \in plan.steps[n] : s \in SignalsOf(a, plan.sequence)

IInv ==
  /\ TypeOK /\ PlanFits /\ Placed /\ Phases /\ Speaks
  /\ Leaves /\ EffectIsSeen

-----------------------------------------------------------------------------
(* What the steps need to know of scripts and plans.                       *)

\* A step of a script.
LEMMA ScriptStep ==
  ASSUME NEW a \in Actions, NEW l \in Labels(a) \ {"ok", "fail"},
         NEW m \in Script[a][l].next
  PROVE  /\ m \in Labels(a)
         /\ a \notin MayMiss /\ Script[a][l].does # "act" /\ l \notin Done(a)
              => m \notin Done(a)
         /\ a \in ActsLast /\ (Script[a][l].does = "act" \/ l \in Firm(a))
              => m \in Firm(a)
         /\ a \in FailsClean /\ (Script[a][l].does = "touch" \/ l \in Firm(a))
              => m \in Firm(a)
         /\ Script[a][l].does = "ask" /\ m = "fail" => l = "start" /\ a \in Gates
         /\ a \in Gates => m # "start"
         /\ l = "missed" => m = "ok"
PROOF
  <1>1. Part(Script[a], a, Labels(a)) /\ l \in DOMAIN Script[a]
    BY ScriptsFit DEF Fits, Labels
  <1> QED BY <1>1 DEF Part

\* The plan that is executed has steps, and they are scripts.
LEMMA PlanShape ==
  ASSUME NEW c, NEW K, Body \in Good(c, K)
  PROVE  /\ plan.steps \in Seq(SUBSET Actions) /\ Len(plan.steps) \in Nat \ {0}
         /\ \A n \in 1 .. Len(plan.steps) : plan.steps[n] \subseteq Actions
PROOF
  <1>1. plan.steps \in Seq(SUBSET Actions) /\ plan.steps # <<>>
    BY DEF Good, Plans, Body, Plan
  <1> QED BY <1>1

\* Once there is a plan, it is one that was offered.
LEMMA HasPlan ==
  ASSUME PlanFits, pc \notin {"asked", "before", "plan", "answered"}
  PROVE  /\ Body \in Good(plan.capability, LookedFor(plan.capability))
         /\ plan.steps \in Seq(SUBSET Actions) /\ Len(plan.steps) \in Nat \ {0}
         /\ \A n \in 1 .. Len(plan.steps) : plan.steps[n] \subseteq Actions
PROOF
  <1>1. Body \in Good(plan.capability, LookedFor(plan.capability))
    BY DEF PlanFits
  <1> QED BY <1>1, PlanShape

\* What a capability offers to a planned instruction.
LEMMA CandidatePlans ==
  ASSUME NEW p \in Candidates
  PROVE  /\ p.capability \in Capabilities
         /\ Plan(p.sequence, p.steps)
              \in Good(p.capability, LookedFor(p.capability))
         /\ p.steps # <<>> /\ p.steps \in Seq(SUBSET Actions)
PROOF
  <1> DEFINE ofPlan(c, q, multi) ==
               {Planned(c, EffectivePlanRank(c, n, multi), q) :
                  n \in PlanStepCount(q)}
             ofCapability(c, multi) ==
               UNION {ofPlan(c, q, multi) : q \in Capability[c].plans}
  <1>1. PICK c \in Capabilities :
          p \in ofCapability(c, TRUE) \/ p \in ofCapability(c, FALSE)
    <2>1. p \in Ranked(TRUE) \/ p \in Ranked(FALSE)
      BY DEF Candidates, RankedForOne, RankedForSeveral
    <2>2. \A multi : Ranked(multi) =
                       UNION {ofCapability(c, multi) : c \in Capabilities}
      BY DEF Ranked
    <2> HIDE DEF ofCapability
    <2> QED BY <2>1, <2>2
  <1>2. PICK q \in Capability[c].plans :
          p \in ofPlan(c, q, TRUE) \/ p \in ofPlan(c, q, FALSE)
    <2> HIDE DEF ofPlan
    <2> QED BY <1>1
  <1>3. p.capability = c /\ p.sequence = q.sequence /\ p.steps = q.steps
    <2>1. PICK rank : p = Planned(c, rank, q)
      BY <1>2
    <2> QED BY <2>1 DEF Planned
  <1>4. "none" \notin Capabilities
    BY DEF Capabilities, CapabilityRegistry, ReasoningCapabilities,
           WorkflowCapabilities, TargetCapabilities, GeometryCapabilities,
           ControlCapabilities, Cap
  <1>5. q \in Good(c, LookedFor(c))
    BY <1>4, CapabilityPlans DEF LookedFor
  <1>6. q \in Plans
    BY <1>5 DEF Good
  <1>7. Plan(q.sequence, q.steps) = q
    BY <1>6 DEF Plan, Plans
  <1> QED BY <1>3, <1>5, <1>6, <1>7 DEF Plans

\* What the steps of a plan have said is enough to recognise its effect, or
\* the plan is of a blind spot.
LEMMA Recognised ==
  ASSUME Body \in Good(plan.capability, LookedFor(plan.capability)),
         \A n \in 1 .. Len(plan.steps) :
           \E a \in plan.steps[n] : SignalsOf(a, plan.sequence) \subseteq signals,
         \A s \in signals : \E n \in 1 .. Len(plan.steps) :
           \E a \in plan.steps[n] : s \in SignalsOf(a, plan.sequence),
         Reports, NEW shown
  PROVE  Verdict(plan.capability, signals \cup shown) = "observed" \/ BlindSpot
PROOF
  <1> DEFINE K == LookedFor(plan.capability)
  <1>1. /\ Body.steps = plan.steps /\ Body.sequence = plan.sequence
        /\ DOMAIN plan.steps = 1 .. Len(plan.steps)
    BY PlanShape DEF Body, Plan
  <1>2. ASSUME signals \cap K # {}
        PROVE  Verdict(plan.capability, signals \cup shown) = "observed"
    BY <1>2 DEF Verdict, LookedFor
  <1>3. ASSUME NEW L, Told(Body, L)
        PROVE  signals \cap L # {}
    BY <1>1, <1>3 DEF Told, Reports
  <1>4. ASSUME NEW L, TellsOnly(Body, L)
        PROVE  signals \subseteq L
    BY <1>1, <1>4 DEF TellsOnly
  <1>5. CASE Told(Body, K)
    BY <1>2, <1>3, <1>5
  <1>6. CASE Body.sequence /\ Body.steps[1] \subseteq TopLevelOnly
    BY <1>1, <1>6 DEF BlindSpot
  <1>7. CASE Told(Body, AllSignals) /\ TellsOnly(Body, {"text_formatted"})
    <2>1. signals = {"text_formatted"}
      BY <1>3, <1>4, <1>7
    <2> QED BY <2>1 DEF BlindSpot
  <1>8. CASE plan.capability \in FieldCapabilities /\ TellsOnly(Body, K \cup Fields)
    <2>1. signals \cap K # {} \/ signals \subseteq Fields
      BY <1>4, <1>8
    <2> QED BY <1>2, <1>8, <2>1 DEF BlindSpot, FieldCapabilities, Fields
  <1> QED BY <1>5, <1>6, <1>7, <1>8 DEF Good

-----------------------------------------------------------------------------
(* The steps.                                                              *)

\* The invariant holds in the initial states.
LEMMA Initial == Init => IInv
PROOF
  <1> SUFFICES ASSUME Init
               PROVE  IInv
    OBVIOUS
  <1>1. TypeOK
    <2>1. plan.capability = "none" /\ plan.steps = <<>> /\ Len(plan.steps) = 0
      BY DEF Init, NoPlan
    <2>2. 0 \in 0 .. MaxTimeouts /\ 0 \in 0 .. MaxAborts
      BY InstructionAssumption
    <2>3. 0 \in 0 .. CaptureTries - 1 /\ 0 \in 0 .. 1 + MaxAlternates /\ 0 \in 0 .. 0
      BY DEF CaptureTries, MaxAlternates
    <2>4. Nothing \in Deeds
      BY DEF Nothing, Deeds
    <2> QED BY <2>1, <2>2, <2>3, <2>4 DEF Init, TypeOK
  <1>2. PlanFits
    BY DEF Init, PlanFits
  <1>3. Placed
    BY DEF Init, Placed
  <1>4. Phases
    BY DEF Init, Phases, Preparing, Untouched
  <1>5. Speaks
    BY DEF Init, Speaks
  <1>6. Leaves
    BY DEF Init, Leaves
  <1>7. EffectIsSeen
    BY DEF Init, EffectIsSeen
  <1> QED BY <1>1, <1>2, <1>3, <1>4, <1>5, <1>6, <1>7 DEF IInv

\* A step outside the scripts, which leaves what they did as it was.
LEMMA Outside ==
  ASSUME IInv, pc # "run", pc # "answered", pc' \notin {"run", "failed", "step"},
         TypeOK', PlanFits', Phases',
         UNCHANGED <<request, script, results>>,
         pc' = "after" => pc = "after" /\ plan' = plan,
         answer' # "done"
  PROVE  IInv'
PROOF
  <1>1. Placed'
    BY DEF Placed
  <1>2. Speaks'
    BY DEF IInv, Speaks, Executed, script, results
  <1>3. Leaves'
    BY DEF Leaves
  <1>4. EffectIsSeen'
    BY DEF EffectIsSeen
  <1> QED BY <1>1, <1>2, <1>3, <1>4 DEF IInv

\* The sentence is understood.
LEMMA AnalyzeStep == IInv /\ Analyze => IInv'
PROOF
  <1> SUFFICES ASSUME IInv, Analyze
               PROVE  IInv'
    OBVIOUS
  <1> USE DEF Analyze, Answer, script, planned, results, left, gate
  <1>1. TypeOK'
    BY DEF IInv, TypeOK
  <1>2. PlanFits'
    BY DEF IInv, PlanFits, Body
  <1>3. Phases'
    BY DEF IInv, Phases, Preparing, Untouched
  <1>4. answer' # "done"
    BY DEF IInv, Phases
  <1> QED BY <1>1, <1>2, <1>3, <1>4, Outside

\* The page is captured before the plan.
LEMMA CaptureBeforeStep == IInv /\ CaptureBefore => IInv'
PROOF
  <1> SUFFICES ASSUME IInv, CaptureBefore
               PROVE  IInv'
    OBVIOUS
  <1> USE DEF CaptureBefore, CaptureAgain, CaptureFails, Answer, script, planned,
              results, left, gate
  <1>1. TypeOK'
    BY DEF IInv, TypeOK, CaptureTries
  <1>2. PlanFits'
    BY DEF IInv, PlanFits, Body
  <1>3. Phases'
    BY DEF IInv, Phases, Preparing, Untouched
  <1>4. answer' # "done"
    BY DEF IInv, Phases
  <1> QED BY <1>1, <1>2, <1>3, <1>4, Outside

\* A plan is made, by a capability or without one.
LEMMA MakePlanStep == IInv /\ MakePlan => IInv'
PROOF
  <1> SUFFICES ASSUME IInv, MakePlan
               PROVE  IInv'
    OBVIOUS
  <1> USE DEF MakePlan, Answer, script, results, left, gate
  <1>1. \/ /\ pc' = "decide"
           /\ Body' \in Good(plan'.capability, LookedFor(plan'.capability))
           /\ plan'.capability \in Capabilities \cup {"none"}
           /\ plan'.steps \in Seq(SUBSET Actions)
        \/ pc' = "answered" /\ plan' = plan
    <2>1. ASSUME NEW p \in PlainPlan(request.kind), plan' = Planned("none", 0, p)
          PROVE  /\ Body' \in Good("none", AllSignals)
                 /\ plan'.capability = "none"
                 /\ plan'.steps \in Seq(SUBSET Actions)
      <3>1. p \in Good("none", AllSignals) /\ p \in Plans
        BY PlainPlans DEF Good
      <3>2. p = Plan(p.sequence, p.steps) /\ p.steps \in Seq(SUBSET Actions)
        BY <3>1 DEF Plans, Plan
      <3> QED BY <2>1, <3>1, <3>2 DEF Planned, Body
    <2>2. ASSUME NEW p \in Candidates, plan' = p
          PROVE  /\ Body' \in Good(plan'.capability, LookedFor(plan'.capability))
                 /\ plan'.capability \in Capabilities
                 /\ plan'.steps \in Seq(SUBSET Actions)
      BY <2>2, CandidatePlans DEF Body
    <2> QED BY <2>1, <2>2 DEF LookedFor
  <1>2. step' = 0 /\ step = 0
    BY DEF IInv, Phases, Preparing
  <1>3. TypeOK'
    BY <1>1, <1>2 DEF IInv, TypeOK
  <1>4. PlanFits'
    BY <1>1 DEF IInv, PlanFits, Body
  <1>5. Phases'
    BY <1>1 DEF IInv, Phases, Preparing, Untouched
  <1>6. answer' # "done"
    BY DEF IInv, Phases
  <1> QED BY <1>1, <1>3, <1>4, <1>5, <1>6, Outside

\* A plan is described only, or its first step begins.
LEMMA DecideStep == IInv /\ Decide => IInv'
PROOF
  <1> SUFFICES ASSUME IInv, Decide
               PROVE  IInv'
    OBVIOUS
  <1> USE DEF Decide, Blocked, BelowConfidence, Answer, results, left, gate
  <1>1. CASE pc' = "answered" /\ answer' # "done" /\ UNCHANGED <<step, attempt>>
    <2> USE <1>1 DEF script
    <2>1. TypeOK'
      BY DEF IInv, TypeOK
    <2>2. PlanFits'
      BY DEF IInv, PlanFits, Body
    <2>3. Phases'
      BY DEF IInv, Phases, Preparing, Untouched
    <2> QED BY <2>1, <2>2, <2>3, Outside
  <1>2. CASE ~request.dryRun /\ pc' = "step" /\ step' = 1 /\ attempt' = 1
             /\ UNCHANGED answer
    <2> USE <1>2
    <2>1. Len(plan.steps) \in Nat \ {0}
      BY HasPlan DEF IInv
    <2>2. TypeOK'
      BY <2>1 DEF IInv, TypeOK, MaxAlternates
    <2>3. PlanFits'
      BY DEF IInv, PlanFits, Body
    <2>4. Placed' /\ Leaves'
      BY DEF Placed, Leaves
    <2>5. Phases'
      BY DEF IInv, Phases, Preparing, Untouched
    <2>6. Speaks'
      BY DEF IInv, Phases, Preparing, Speaks, Executed
    <2>7. EffectIsSeen'
      BY DEF IInv, Phases, EffectIsSeen
    <2> QED BY <2>2, <2>3, <2>4, <2>5, <2>6, <2>7 DEF IInv
  <1> QED BY <1>1, <1>2

\* A step starts with the script of one of its actions.
LEMMA StartStepStep == IInv /\ StartStep => IInv'
PROOF
  <1> SUFFICES ASSUME IInv, StartStep
               PROVE  IInv'
    OBVIOUS
  <1> USE DEF StartStep, planned, results, left, gate, reply
  <1>1. step \in 1 .. Len(plan.steps) /\ action' \in Actions
        /\ plan.steps \in Seq(SUBSET Actions)
    <2>1. step \in 1 .. Len(plan.steps)
      BY HasPlan DEF IInv, TypeOK, PlanFits
    <2> QED BY <2>1, HasPlan DEF IInv
  <1>2. at' \in Labels(action') /\ at' \notin Done(action')
    <2>1. Fits(action')
      BY <1>1, ScriptsFit
    <2> QED BY <2>1, Bounds DEF Fits, Labels
  <1>3. TypeOK'
    <2>1. earlier' \in Deeds
      BY DEF IInv, TypeOK, Deeds, Nothing
    <2> QED BY <1>1, <1>2, <2>1 DEF IInv, TypeOK
  <1>4. PlanFits'
    BY DEF IInv, PlanFits, Body
  <1>5. failure = "none"
    BY DEF IInv, Phases
  <1>6. Placed'
    BY <1>2, <1>5 DEF Placed
  <1>7. Phases'
    BY <1>5 DEF IInv, Phases, Preparing, Untouched
  <1>8. Speaks'
    BY DEF IInv, Speaks, Executed
  <1>9. Leaves' /\ EffectIsSeen'
    BY DEF IInv, Phases, Leaves, EffectIsSeen
  <1> QED BY <1>3, <1>4, <1>6, <1>7, <1>8, <1>9 DEF IInv

\* Where a running script is.
LEMMA InScript ==
  ASSUME IInv, pc = "run"
  PROVE  /\ action \in Actions /\ at \in Labels(action)
         /\ step \in 1 .. Len(plan.steps) /\ action \in plan.steps[step]
         /\ ~request.dryRun /\ answer = "none"
PROOF
  <1>1. step \in 1 .. Len(plan.steps)
    BY HasPlan DEF IInv, TypeOK, PlanFits
  <1>2. action \in Actions
    BY <1>1, HasPlan DEF IInv, TypeOK
  <1> QED BY <1>1, <1>2 DEF IInv, TypeOK, Phases, Preparing

\* A step within a script goes on with the same plan and the same step of it.
LEMMA Within ==
  ASSUME IInv, pc = "run", pc' = "run",
         UNCHANGED <<request, tries, planned, step, action, earlier, results, left,
                     reply>>,
         at' \in Labels(action), touched' \in BOOLEAN, acted' \in BOOLEAN,
         failure' \in {"none", "turned_away"},
         aborts' \in 0 .. MaxAborts, abort' \in {"none", "pending"},
         Placed'
  PROVE  IInv'
PROOF
  <1> USE DEF planned, results, left, reply
  <1>1. TypeOK'
    BY DEF IInv, TypeOK, Causes
  <1>2. PlanFits'
    BY DEF IInv, PlanFits, Body
  <1>3. Phases'
    BY InScript DEF IInv, Phases, Preparing
  <1>4. Speaks'
    BY DEF IInv, Speaks, Executed
  <1>5. Leaves' /\ EffectIsSeen'
    BY InScript DEF IInv, Leaves, EffectIsSeen
  <1> QED BY <1>1, <1>2, <1>3, <1>4, <1>5 DEF IInv

\* A node of a script.
LEMMA RunNodeStep == IInv /\ RunNode => IInv'
PROOF
  <1> SUFFICES ASSUME IInv, RunNode
               PROVE  IInv'
    OBVIOUS
  <1> USE DEF RunNode, Running, Here
  <1>1. action \in Actions /\ at \in Labels(action) \ {"ok", "fail"}
    BY InScript
  <1> DEFINE does == Script[action][at].does
  <1>2. /\ at' \in Labels(action)
        /\ action \notin MayMiss /\ does # "act" /\ at \notin Done(action)
             => at' \notin Done(action)
        /\ action \in ActsLast /\ (does = "act" \/ at \in Firm(action))
             => at' \in Firm(action)
        /\ action \in FailsClean /\ (does = "touch" \/ at \in Firm(action))
             => at' \in Firm(action)
        /\ action \in Gates => at' # "start"
        /\ at = "missed" => at' = "ok"
    BY <1>1, ScriptStep
  <1>3. touched' \in BOOLEAN /\ acted' \in BOOLEAN
    BY DEF IInv, TypeOK
  <1>4. failure' \in {"none", "turned_away"} /\ failure' = failure
    BY DEF IInv, Phases
  <1>5. acted' <=> acted \/ does = "act"
    BY DEF IInv, TypeOK
  <1>6. touched' <=> touched \/ does = "touch"
    BY DEF IInv, TypeOK
  <1>7. action' = action /\ pc' = "run"
    OBVIOUS
  <1> HIDE DEF does
  <1>8. Placed'
    BY <1>1, <1>2, <1>4, <1>5, <1>6, <1>7 DEF IInv, Placed
  <1>9. aborts' \in 0 .. MaxAborts /\ abort' \in {"none", "pending"}
    BY DEF IInv, TypeOK, gate
  <1> QED BY <1>2, <1>3, <1>4, <1>8, <1>9, Within DEF left

\* The gate lets an action pass, or turns it away.
LEMMA PassGateStep == IInv /\ PassGate => IInv'
PROOF
  <1> SUFFICES ASSUME IInv, PassGate
               PROVE  IInv'
    OBVIOUS
  <1> USE DEF PassGate, Running, Here
  <1>1. action \in Actions /\ at \in Labels(action) \ {"ok", "fail"}
        /\ Script[action][at].does = "ask" /\ at' \in Script[action][at].next
    BY InScript DEF TurnedAway
  <1>2. /\ at' \in Labels(action)
        /\ action \notin MayMiss /\ at \notin Done(action)
             => at' \notin Done(action)
        /\ action \in ActsLast /\ at \in Firm(action) => at' \in Firm(action)
        /\ action \in FailsClean /\ at \in Firm(action) => at' \in Firm(action)
        /\ at' = "fail" => at = "start" /\ action \in Gates
        /\ action \in Gates => at' # "start"
        /\ at = "missed" => at' = "ok"
    BY <1>1, ScriptStep
  <1>3. touched' \in BOOLEAN /\ acted' \in BOOLEAN
    BY DEF IInv, TypeOK
  <1>4. failure' \in {"none", "turned_away"}
    BY DEF IInv, Phases
  <1>5. action' = action /\ pc' = "run" /\ touched' = touched /\ acted' = acted
    OBVIOUS
  <1>6. /\ failure' = "turned_away" /\ failure # "turned_away"
             => at' \in {"fail", "missed"}
        /\ failure = "turned_away" => at = "missed"
    BY <1>1 DEF IInv, Placed, TurnedAway
  <1>7. failure' = failure \/ at' \in {"fail", "missed"}
    BY DEF TurnedAway
  <1>8. Placed'
    BY <1>1, <1>2, <1>5, <1>6, <1>7 DEF IInv, Placed
  <1>9. aborts' \in 0 .. MaxAborts /\ abort' \in {"none", "pending"}
    BY DEF IInv, TypeOK
  <1> QED BY <1>2, <1>3, <1>4, <1>8, <1>9, Within

\* A step that is Ok has said what its action says; it has acted, or is one of
\* those that may miss.
LEMMA StepOkStep == IInv /\ StepOk => IInv'
PROOF
  <1> SUFFICES ASSUME IInv, StepOk
               PROVE  IInv'
    OBVIOUS
  <1> USE DEF StepOk, planned, left, gate, reply
  <1>1. /\ action \in Actions /\ step \in 1 .. Len(plan.steps)
        /\ action \in plan.steps[step] /\ ~request.dryRun /\ answer = "none"
        /\ Len(plan.steps) \in Nat \ {0}
    BY InScript, HasPlan DEF IInv
  <1>2. acted \/ action \in MayMiss
    BY Bounds DEF IInv, Placed
  <1>3. missed' \subseteq MayMiss /\ missed' \subseteq Actions
    BY <1>1, <1>2 DEF IInv, TypeOK, Phases
  <1>4. TypeOK'
    <2>1. step' \in 0 .. Len(plan.steps) /\ pc' \in {"step", "after"}
      BY <1>1
    <2> QED BY <1>3, <2>1 DEF IInv, TypeOK
  <1>5. PlanFits'
    BY <1>1 DEF IInv, PlanFits, Body
  <1>6. Placed' /\ Leaves'
    BY DEF Placed, Leaves
  <1>7. Phases'
    BY <1>1, <1>3 DEF Phases, Preparing
  <1>8. Speaks'
    <2>1. Executed' = step
      BY <1>1 DEF Executed
    <2>2. ASSUME NEW n \in 1 .. step
          PROVE  \E a \in plan.steps[n] : SignalsOf(a, plan.sequence) \subseteq signals'
      <3>1. CASE n = step
        BY <1>1, <3>1
      <3>2. CASE n # step
        <4>1. n \in 1 .. Executed
          BY <1>1, <3>2 DEF Executed
        <4> QED BY <4>1 DEF IInv, Speaks
      <3> QED BY <3>1, <3>2
    <2>3. ASSUME NEW s \in signals'
          PROVE  \E n \in 1 .. Len(plan.steps) :
                   \E a \in plan.steps[n] : s \in SignalsOf(a, plan.sequence)
      BY <1>1 DEF IInv, Speaks
    <2> QED BY <2>1, <2>2, <2>3 DEF Speaks
  <1>9. EffectIsSeen'
    BY <1>1 DEF EffectIsSeen
  <1> QED BY <1>4, <1>5, <1>6, <1>7, <1>8, <1>9 DEF IInv

\* A step that ends the attempt: nothing but the cause is noted, and a script
\* that failed of itself or was turned away is where it may fail.
LEMMA EndsAttempt ==
  ASSUME IInv, pc = "run", pc' = "failed",
         UNCHANGED <<request, tries, planned, script, results, gate, reply>>,
         failure' \in Causes, late' \in BOOLEAN, timeouts' \in 0 .. MaxTimeouts,
         failure' \in {"fail", "turned_away"} =>
           /\ at = "fail"
           /\ failure' = "turned_away" => failure = "turned_away"
  PROVE  IInv'
PROOF
  <1> USE DEF planned, results, script, gate, reply
  <1>1. TypeOK'
    BY DEF IInv, TypeOK
  <1>2. PlanFits'
    BY DEF IInv, PlanFits, Body
  <1>3. Placed' /\ Speaks'
    BY DEF Placed, Speaks
  <1>4. Phases'
    BY InScript DEF IInv, Phases, Preparing
  <1>5. Leaves'
    <2>1. FailsClean \subseteq ActsLast
      BY DEF ActsLast
    <2>2. failure' = "fail" /\ action \in ActsLast => ~acted
      BY Bounds DEF IInv, Placed
    <2>3. failure' = "fail" /\ action \in FailsClean => ~touched
      BY Bounds DEF IInv, Placed
    <2>4. failure' = "turned_away" => ~touched /\ ~acted
      BY DEF IInv, Placed
    <2>5. step = 1 => earlier = Nothing
      BY DEF IInv, Leaves
    <2> QED BY <2>1, <2>2, <2>3, <2>4, <2>5 DEF Leaves
  <1>6. EffectIsSeen'
    BY InScript DEF EffectIsSeen
  <1> QED BY <1>1, <1>2, <1>3, <1>4, <1>5, <1>6 DEF IInv

\* A step fails.
LEMMA StepFailsStep == IInv /\ StepFails => IInv'
PROOF
  <1> SUFFICES ASSUME IInv, StepFails
               PROVE  IInv'
    OBVIOUS
  <1>1. failure' \in {"fail", "turned_away"}
        /\ (failure' = "turned_away" => failure = "turned_away")
    BY DEF IInv, Phases, StepFails
  <1>2. late' \in BOOLEAN /\ timeouts' \in 0 .. MaxTimeouts
    BY DEF IInv, TypeOK, StepFails, left
  <1> QED BY <1>1, <1>2, EndsAttempt DEF StepFails, Causes

\* A script is left behind.
LEMMA ScriptTimesOutStep == IInv /\ ScriptTimesOut => IInv'
PROOF
  <1> SUFFICES ASSUME IInv, ScriptTimesOut
               PROVE  IInv'
    OBVIOUS
  <1>1. late' \in BOOLEAN /\ timeouts' \in 0 .. MaxTimeouts
    BY InstructionAssumption DEF IInv, TypeOK, ScriptTimesOut
  <1> QED BY <1>1, EndsAttempt DEF ScriptTimesOut, Running, Causes

\* A script ends with its page.
LEMMA ContextLostStep == IInv /\ ContextLost => IInv'
PROOF
  <1> SUFFICES ASSUME IInv, ContextLost
               PROVE  IInv'
    OBVIOUS
  <1>1. late' \in BOOLEAN /\ timeouts' \in 0 .. MaxTimeouts
    BY DEF IInv, TypeOK, ContextLost, left
  <1> QED BY <1>1, EndsAttempt DEF ContextLost, Running, Causes

\* The attempt's failure is the answer.
LEMMA GiveUpStep == IInv /\ GiveUp => IInv'
PROOF
  <1> SUFFICES ASSUME IInv, GiveUp
               PROVE  IInv'
    OBVIOUS
  <1> USE DEF GiveUp, Answer, planned, script, results, left, gate
  <1>1. TypeOK'
    BY DEF IInv, TypeOK
  <1>2. PlanFits'
    BY DEF IInv, PlanFits, Body
  <1>3. Placed' /\ Speaks' /\ Leaves' /\ EffectIsSeen'
    BY DEF Placed, Speaks, Leaves, EffectIsSeen
  <1>4. Phases'
    BY DEF IInv, Phases, Preparing, Untouched
  <1> QED BY <1>1, <1>2, <1>3, <1>4 DEF IInv

\* An alternate is tried.
LEMMA TryAlternateStep == IInv /\ TryAlternate => IInv'
PROOF
  <1> SUFFICES ASSUME IInv, TryAlternate
               PROVE  IInv'
    OBVIOUS
  <1> USE DEF TryAlternate, left, gate, reply
  <1>1. plan' \in Candidates
    OBVIOUS
  <1>2. /\ plan'.capability \in Capabilities
        /\ Body' \in Good(plan'.capability, LookedFor(plan'.capability))
        /\ plan'.steps \in Seq(SUBSET Actions) /\ Len(plan'.steps) \in Nat \ {0}
    BY <1>1, CandidatePlans DEF Body
  <1>3. answer = "none" /\ ~request.dryRun
    BY DEF IInv, TypeOK, Phases, Preparing
  <1>4. TypeOK'
    <2>1. tried' \subseteq Capabilities
      BY DEF IInv, TypeOK
    <2>2. attempt' \in 0 .. 1 + MaxAlternates
      BY DEF IInv, TypeOK, MaxAlternates
    <2> QED BY <1>2, <2>1, <2>2 DEF IInv, TypeOK
  <1>5. PlanFits'
    BY <1>2 DEF PlanFits, Body
  <1>6. Placed' /\ Leaves'
    BY DEF Placed, Leaves
  <1>7. Phases'
    BY <1>3 DEF Phases, Preparing
  <1>8. Speaks'
    BY DEF Speaks, Executed
  <1>9. EffectIsSeen'
    BY <1>3 DEF EffectIsSeen
  <1> QED BY <1>4, <1>5, <1>6, <1>7, <1>8, <1>9 DEF IInv

\* The page is captured again, and the effect judged.
LEMMA CaptureAfterStep == IInv /\ CaptureAfter => IInv'
PROOF
  <1> SUFFICES ASSUME IInv, CaptureAfter
               PROVE  IInv'
    OBVIOUS
  <1> USE DEF CaptureAfter, CaptureAgain, CaptureFails, Answer, planned, script,
              results, left, gate
  <1>1. TypeOK'
    <2>1. verdict' \in {"none", "observed", "not_observed", "executed_unverified"}
      BY DEF IInv, TypeOK, Verdict
    <2> QED BY <2>1 DEF IInv, TypeOK, CaptureTries
  <1>2. PlanFits'
    BY DEF IInv, PlanFits, Body
  <1>3. Phases'
    BY DEF IInv, Phases, Preparing, Untouched
  <1>4. Placed' /\ Leaves'
    BY DEF Placed, Leaves
  <1>5. Speaks'
    BY DEF IInv, Speaks, Executed
  <1>6. EffectIsSeen'
    <2> SUFFICES ASSUME answer' = "done", Reports'
                 PROVE  verdict' = "observed" \/ BlindSpot'
      BY DEF EffectIsSeen
    <2>1. answer # "done"
      BY DEF IInv, Phases
    <2>2. PICK shown \in {{}} \cup {{s} : s \in PageSignals} :
            verdict' = Verdict(plan.capability, signals \cup shown)
      BY <2>1
    <2>3. Reports
      BY DEF Reports
    <2>4. Executed = Len(plan.steps)
      BY DEF Executed
    <2>5. Verdict(plan.capability, signals \cup shown) = "observed" \/ BlindSpot
      BY <2>3, <2>4, HasPlan, Recognised DEF IInv, Speaks
    <2> QED BY <2>2, <2>5 DEF BlindSpot
  <1> QED BY <1>1, <1>2, <1>3, <1>4, <1>5, <1>6 DEF IInv

\* The operator aborts, or nothing happens.
LEMMA AbortOrStutter ==
  ASSUME IInv, aborts' \in 0 .. MaxAborts, abort' \in {"none", "pending"},
         UNCHANGED <<request, pc, tries, planned, script, results, failure, left,
                     reply>>
  PROVE  IInv'
PROOF
  <1> USE DEF planned, script, results, left, reply
  <1>1. TypeOK'
    BY DEF IInv, TypeOK
  <1>2. PlanFits' /\ Placed'
    BY DEF IInv, PlanFits, Body, Placed
  <1>3. Phases' /\ Speaks'
    BY DEF IInv, Phases, Preparing, Untouched, Speaks, Executed
  <1>4. Leaves' /\ EffectIsSeen'
    BY DEF IInv, Leaves, EffectIsSeen, Reports, BlindSpot
  <1> QED BY <1>1, <1>2, <1>3, <1>4 DEF IInv

\* Every step of act_instruction keeps the invariant.
LEMMA Inductive == IInv /\ [Next]_vars => IInv'
PROOF
  <1>1. ASSUME IInv, Abort
        PROVE  IInv'
    <2>1. aborts' \in 0 .. MaxAborts /\ abort' \in {"none", "pending"}
      BY <1>1, InstructionAssumption DEF IInv, TypeOK, Abort
    <2> QED BY <1>1, <2>1, AbortOrStutter DEF Abort
  <1>2. ASSUME IInv, UNCHANGED vars
        PROVE  IInv'
    <2>1. aborts' \in 0 .. MaxAborts /\ abort' \in {"none", "pending"}
      BY <1>2 DEF IInv, TypeOK, vars, gate
    <2> QED BY <1>2, <2>1, AbortOrStutter DEF vars
  <1> QED BY <1>1, <1>2, AnalyzeStep, CaptureBeforeStep, MakePlanStep, DecideStep,
             StartStepStep, RunNodeStep, PassGateStep, StepOkStep, StepFailsStep,
             ScriptTimesOutStep, ContextLostStep, GiveUpStep, TryAlternateStep,
             CaptureAfterStep
          DEF Next, Execute, Answered

-----------------------------------------------------------------------------
(* The theorems.                                                           *)

\* The invariant holds in every reachable state.
THEOREM Invariance == Spec => []IInv
PROOF
  <1> QED BY Initial, Inductive, PTL DEF Spec

\* The state of act_instruction is well typed: a script is always at one of
\* its own labels, for an action of the step it runs.
THEOREM TypeCorrect == Spec => []TypeOK
PROOF
  <1>1. IInv => TypeOK
    BY DEF IInv
  <1> QED BY <1>1, Invariance, PTL

\* A plan that failed and is not a sequence failed at its first step.
LEMMA FirstStep ==
  ASSUME IInv, pc = "failed", ~plan.sequence
  PROVE  step = 1
PROOF
  <1>1. Body \in Good(plan.capability, LookedFor(plan.capability))
        /\ step \in 0 .. Len(plan.steps) /\ step # 0
    BY HasPlan DEF IInv, TypeOK, PlanFits
  <1>2. Len(plan.steps) = 1
    BY <1>1 DEF Good, Plans, Body, Plan
  <1> QED BY <1>1, <1>2

\* For plans of every length and any alternates: an attempt that failed at
\* its first step, as the first plan always has when it gets an alternate,
\* has left the page alone if its script fails clean or was turned away, and
\* has not acted if its script acts last.
THEOREM RetriesSafety == Spec => RetriesOnCleanPage
PROOF
  <1> DEFINE Clean ==
        /\ (failure = "fail" /\ action \in FailsClean) \/ failure = "turned_away"
             => ~touched /\ ~acted /\ earlier = Nothing
        /\ failure = "fail" /\ action \in ActsLast => ~acted /\ ~earlier.acted
  <1>1. ASSUME IInv, [Next]_vars, attempt' > attempt, attempt >= 1,
               attempt = 1 \/ step = 1
        PROVE  Clean
    <2>1. TryAlternate
      BY <1>1 DEF IInv, TypeOK, vars, planned, Next, Execute, Analyze, CaptureBefore,
              MakePlan, Decide, StartStep, RunNode, PassGate, StepOk, StepFails,
              ScriptTimesOut, ContextLost, GiveUp, CaptureAfter, Abort, Answered
    <2>2. pc = "failed" /\ (attempt = 1 => ~plan.sequence)
      BY <2>1 DEF TryAlternate
    <2>3. step = 1
      BY <1>1, <2>2, FirstStep
    <2>4. earlier = Nothing /\ ~earlier.acted
      BY <1>1, <2>2, <2>3 DEF IInv, Leaves, Nothing
    <2> QED BY <1>1, <2>2, <2>4 DEF IInv, Leaves
  <1>2. IInv /\ [Next]_vars =>
          [attempt' > attempt /\ attempt >= 1 /\ (attempt = 1 \/ step = 1) => Clean]_vars
    BY <1>1
  <1> QED BY <1>2, Invariance, PTL DEF Spec, RetriesOnCleanPage

\* "done" means that every step acted, but for those that may miss; a dry run
\* and a blocked plan have not touched the page.
THEOREM DoneSafety == Spec => []DoneMeansActed
PROOF
  <1>1. IInv => DoneMeansActed
    BY DEF IInv, Phases, Untouched, DoneMeansActed
  <1> QED BY <1>1, Invariance, PTL

\* For every capability, whatever its plan: an effect that is reported is
\* recognised, or the plan is of a blind spot.
THEOREM EffectSafety == Spec => []EffectIsSeen
PROOF
  <1>1. IInv => EffectIsSeen
    BY DEF IInv
  <1> QED BY <1>1, Invariance, PTL
=============================================================================
