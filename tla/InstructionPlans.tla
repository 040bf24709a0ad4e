--------------------------- MODULE InstructionPlans ---------------------------
(***************************************************************************)
(* The planner behind act_instruction (cli/src/daemon/handlers/instruction *)
(* planner_js.rs, planner.rs, model.rs) and the table by which its result  *)
(* is judged (verification.rs): which capabilities may answer which kind   *)
(* of instruction, with plans of which shape, how they are ranked, and     *)
(* which signals count as their effect.                                    *)
(*                                                                         *)
(* Abstractions.                                                           *)
(*  - Whether a capability finds something on the page (its build function *)
(*    and the words it tests for) is a choice; what is kept of "applies"   *)
(*    is the kinds of instruction it asks for.                             *)
(*  - A plan keeps the actions its steps come from, their number and       *)
(*    whether it ends in a follow-up click.                                *)
(*  - Confidence is a choice: among equal ranks any order is possible.     *)
(***************************************************************************)
EXTENDS Integers, Sequences, InstructionScripts

CONSTANT MaxPlanSteps  \* bound: steps of a planned sequence

ASSUME MaxPlanStepsAssumption == MaxPlanSteps \in Nat /\ MaxPlanSteps >= 3

-----------------------------------------------------------------------------
(* Shapes of plans.  "sequence" is the action of that name: only other     *)
(* plans fall back on alternates.  A step is the set of actions it may be. *)

Plan(sequence, steps) == [sequence |-> sequence, steps |-> steps]

One(a) == {Plan(FALSE, <<{a}>>)}
FollowUp(a) == {Plan(TRUE, <<{a}, {"click"}>>)}
WithFollowUp(a) == One(a) \cup FollowUp(a)
\* At least n steps, each one of the given actions, and maybe a click.
Steps(actions, n) ==
  LET first(k) == [i \in 1 .. k |-> actions]
  IN  {Plan(TRUE, first(k)) : k \in n .. MaxPlanSteps}
        \cup {Plan(TRUE, Append(first(k), {"click"})) : k \in n .. MaxPlanSteps - 1}

\* A sequence of which no item was found is its completing click alone.
CompletionPlan == {Plan(TRUE, <<{"click"}>>)}

\* How one field is filled: by a file, a slider, a list or the keyboard.
ValueFieldActions == {"upload_file", "set_slider", "select_option", "type"}
ValueField == UNION {WithFollowUp(a) : a \in ValueFieldActions}

-----------------------------------------------------------------------------
(* What each capability builds.                                            *)

DeriveAndActPlan == One("derive_and_act")
FeedbackLoopValuePlan == One("feedback_loop_value")
ConditionalValueActionPlan == One("conditional_value_action")
CommandSurfaceActionPlan == One("command_surface_action")
GenerateConstrainedValuePlan == One("generate_constrained_value")
ScopedItemWorkflowPlan == One("scoped_item_workflow")
FormWorkflowPlan == One("form_workflow")
CompoundFormStepsPlan == Steps({"set_checked", "type", "select_option"}, 2)
ItemQuantitySelectionPlan == Steps({"click"}, 1)
BinaryRowClassificationPlan == Steps({"click"}, 1)
RecordPropertyClickPlan == One("record_property_click")
EditorStylePlan == Steps({"format_text"}, 1)
TextSelectionPlan == WithFollowUp("select_text") \cup EditorStylePlan
VisualGeometrySelectionPlan == One("click")
VisualGeometryClickPlan == WithFollowUp("click")
PerpendicularPointConstructionPlan == WithFollowUp("click")
VisualFeedbackSearchPlan == One("visual_feedback_search")
TreeSearchClickPlan == One("tree_search_click")
ScrollTextExtractPlan == WithFollowUp("scroll_text_extract")
ResizeElementPlan == WithFollowUp("drag")
MenuPathPlan == One("select_menu_path")
OrderedClickSequencePlan == Steps({"click"}, 2)
HiddenScopedMenuClickPlan == One("scoped_menu_click")
ScopedChildClickPlan == One("click") \cup HiddenScopedMenuClickPlan
OrdinalClickPlan == One("click")
OrderedValueClickPlan == One("click_ordered_values")
CoordinateGridPlan == One("click")
CheckboxGridPatternPlan == WithFollowUp("set_checkbox_grid")
ScopedCheckedControlPlan == WithFollowUp("set_checked")
GroupedChoiceControlPlan == WithFollowUp("set_checked")
OrdinalCheckedControlPlan == One("set_checked")
ColorPickerInputPlan == WithFollowUp("type")
VisualColorSelectionPlan == Steps({"click"}, 1)
VisualObjectClickPlan == WithFollowUp("click")
DatePickerPlan == WithFollowUp("date_picker") \cup WithFollowUp("click")
MultiSliderPlan == Steps({"set_slider"}, 2)
ScopedMultiActionPlan ==
  Steps(ValueFieldActions \cup {"click", "set_checked"}, 2)
ScopedFieldFillPlan == ValueField
ScopedFieldEditPlan == One("type")
SliderCheckboxPlan ==
  Steps({"set_slider", "set_checked"}, 2)
    \cup {Plan(TRUE, <<{"set_slider", "set_checked"}, {"click"}>>)}
MultiQuotedFieldPlan == Steps(ValueFieldActions, 2)
MultiFieldFormPlan == MultiQuotedFieldPlan \cup Steps(ValueFieldActions, 2)
UploadFilePlan == WithFollowUp("upload_file")
SliderPlan == WithFollowUp("set_slider")
AutocompletePlan == WithFollowUp("autocomplete_select")
SpinbuttonPlan == WithFollowUp("type")
CopyTextTransferPlan == WithFollowUp("type")
VisibleTextTranscriptionPlan == WithFollowUp("type")
TableToFormFillPlan == Steps({"type"}, 1)
TableLookupPlan == One("click") \cup WithFollowUp("type") \cup One("read_text")
ListSelectionPlan == WithFollowUp("select_option")
TabSelectionPlan == WithFollowUp("click")
DiscoverClickPlan == One("discover_click")
ExtremeClickPlan == WithFollowUp("click")
CountPlan == One("click") \cup WithFollowUp("type")
ScrollFillPressPlan ==
  {Plan(TRUE, <<{"scroll_element"}, {"type"}>>),
   Plan(TRUE, <<{"scroll_element"}, {"type"}, {"click"}>>)}

-----------------------------------------------------------------------------
(* InstructionKind, and the plans made without a capability.               *)

\* The kinds the daemon plans for itself ...
DaemonKinds ==
  {"scroll", "wait", "navigate", "set_viewport", "emulate_device", "read_text",
   "analyze_form", "accessibility_tree", "find_elements", "assert",
   "screenshot"}
\* ... and those it hands to the planner in the page.
PageKinds ==
  {"click", "focus", "hover", "fill", "clear_field", "append_field",
   "select_option", "set_checked", "upload_file", "press_key",
   "render_pattern", "count", "drag"}
Kinds == DaemonKinds \cup PageKinds \cup {"unknown"}

BuildScrollPlan ==
  One("scroll") \cup One("scroll_element") \cup FollowUp("scroll_element")
BuildNavigatePlan ==
  One("navigate") \cup One("back") \cup One("forward") \cup One("reload")
BuildFindPlan == One("find") \cup One("form_workflow")
BuildPlan ==
  [scroll |-> BuildScrollPlan, wait |-> One("wait_for"),
   navigate |-> BuildNavigatePlan, set_viewport |-> One("set_viewport"),
   emulate_device |-> One("emulate_device"), read_text |-> One("read_text"),
   analyze_form |-> One("analyze_form"),
   accessibility_tree |-> One("accessibility_tree"),
   find_elements |-> BuildFindPlan, assert |-> One("assert"),
   screenshot |-> One("screenshot")]

\* The ten ways to read a drag, tried in this order, then a plain one.
AngleBisectorPlan == WithFollowUp("click")
CircleDrawPlan == WithFollowUp("draw_path")
LineDrawPlan == WithFollowUp("drag")
NumericSortDragPlan == Steps({"drag"}, 1) \cup CompletionPlan
GridSlotDragPlan == WithFollowUp("drag")
ListReorderDragPlan == WithFollowUp("drag")
VisualShapePartitionDragPlan == Steps({"drag"}, 1)
VisualOrientationPlan == WithFollowUp("orient_visual")
DirectionalDragPlan == WithFollowUp("drag")
GeometryDragPlan == WithFollowUp("drag")
DragPlan ==
  AngleBisectorPlan \cup CircleDrawPlan \cup LineDrawPlan
    \cup NumericSortDragPlan \cup GridSlotDragPlan \cup ListReorderDragPlan
    \cup VisualShapePartitionDragPlan \cup VisualOrientationPlan
    \cup DirectionalDragPlan \cup GeometryDragPlan \cup One("drag")

FieldPlan == WithFollowUp("type") \cup Steps({"type"}, 1)
OptionPlan ==
  WithFollowUp("select_option") \cup Steps({"set_checked"}, 1) \cup CompletionPlan
    \cup WithFollowUp("click")
CheckedPlan ==
  WithFollowUp("set_checked") \cup Steps({"set_checked"}, 1) \cup CompletionPlan

\* What is planned for a kind when no capability offers anything.
PagePlan(kind) ==
  CASE kind = "press_key" -> One("press")
    [] kind = "focus" -> One("focus")
    [] kind = "hover" -> One("hover")
    [] kind \in {"clear_field", "append_field"} -> One("type")
    [] kind = "fill" -> FieldPlan
    [] kind = "select_option" -> OptionPlan
    [] kind = "set_checked" -> CheckedPlan
    [] kind = "drag" -> DragPlan
    [] OTHER -> One("click")
PlainPlan(kind) ==
  IF kind \in DaemonKinds THEN BuildPlan[kind]
  ELSE DeriveAndActPlan \cup PagePlan(kind)

-----------------------------------------------------------------------------
(* capabilityRegistry.                                                     *)

AnyKind == PageKinds
Selecting == {"set_checked", "select_option"}
Clicking == {"click", "select_option"}
Entering == {"fill", "select_option"}

Cap(name, priority, category, effect, kinds, plans) ==
  [name |-> name, priority |-> priority, category |-> category,
   effect |-> effect, kinds |-> kinds, plans |-> plans]

ReasoningCapabilities ==
  {Cap("derived-value", 118, "reasoning", "derived_value_or_action_completed",
       AnyKind, DeriveAndActPlan),
   Cap("feedback-loop-value", 119, "reasoning", "generated_value_submitted",
       {"fill", "click"}, FeedbackLoopValuePlan),
   Cap("conditional-value-action", 121, "reasoning",
       "conditional_action_completed", AnyKind, ConditionalValueActionPlan),
   Cap("numeric-constraint-generation", 118, "reasoning",
       "generated_value_submitted", AnyKind, GenerateConstrainedValuePlan),
   Cap("visual-geometry-selection", 115, "reasoning",
       "visual_geometry_value_selected", {"click", "count"},
       VisualGeometrySelectionPlan),
   Cap("visible-count-value", 78, "read", "visible_count_value_used",
       AnyKind, CountPlan),
   Cap("scrollable-text-extract", 120, "read", "scroll_text_value_used",
       AnyKind, ScrollTextExtractPlan),
   Cap("table-to-form-fill", 122, "read", "table_values_filled", AnyKind,
       TableToFormFillPlan),
   Cap("table-cell-lookup", 119, "read", "table_cell_value_used", AnyKind,
       TableLookupPlan),
   Cap("copy-text-transfer", 121, "text_transfer", "text_copied_to_target",
       AnyKind, CopyTextTransferPlan),
   Cap("visible-text-transcription", 120, "text_transfer",
       "visible_text_entered", AnyKind, VisibleTextTranscriptionPlan)}

WorkflowCapabilities ==
  {Cap("command-surface-action", 122, "workflow", "command_surface_completed",
       AnyKind, CommandSurfaceActionPlan),
   Cap("scoped-item-workflow", 118, "workflow", "item_action_completed",
       AnyKind, ScopedItemWorkflowPlan),
   Cap("form-result-workflow", 117, "workflow", "form_workflow_completed",
       AnyKind, FormWorkflowPlan),
   Cap("compound-form-steps", 122, "sequence",
       "compound_form_sequence_completed", AnyKind, CompoundFormStepsPlan),
   Cap("scoped-multi-action", 95, "sequence",
       "scoped_multi_action_completed", AnyKind, ScopedMultiActionPlan),
   Cap("slider-checkbox-sequence", 92, "sequence",
       "slider_and_checkbox_values_set", {"fill"}, SliderCheckboxPlan),
   Cap("scroll-fill-press", 75, "sequence",
       "scroll_fill_and_submit_completed", {"fill"}, ScrollFillPressPlan),
   Cap("ordered-click-sequence", 110, "sequence", "ordered_targets_clicked",
       {"click"}, OrderedClickSequencePlan),
   Cap("ordered-value-clicks", 105, "sequence",
       "ordered_numeric_targets_clicked", {"click"}, OrderedValueClickPlan)}

TargetCapabilities ==
  {Cap("item-quantity-selection", 123, "selection", "item_quantities_selected",
       AnyKind, ItemQuantitySelectionPlan),
   Cap("binary-row-classification", 124, "classification",
       "row_classification_completed", AnyKind, BinaryRowClassificationPlan),
   Cap("record-property-lookup", 123, "navigation",
       "record_property_clicked", AnyKind, RecordPropertyClickPlan),
   Cap("text-selection", 116, "text", "text_selected", AnyKind,
       TextSelectionPlan),
   Cap("visual-feedback-search", 121, "visual",
       "pointer_feedback_target_clicked", {"click"},
       VisualFeedbackSearchPlan),
   Cap("hierarchical-tree-search", 122, "navigation", "tree_target_clicked",
       {"click"}, TreeSearchClickPlan),
   Cap("menu-path-selection", 112, "selection", "menu_path_selected",
       {"select_option"}, MenuPathPlan),
   Cap("scoped-child-click", 109, "selection", "scoped_target_clicked",
       {"click"}, ScopedChildClickPlan),
   Cap("ordinal-click-target", 108, "selection", "ordinal_target_clicked",
       {"click"}, OrdinalClickPlan),
   Cap("list-option-selection", 87, "selection", "list_options_selected",
       {"select_option"}, ListSelectionPlan),
   Cap("tab-selection", 116, "navigation", "target_revealed_or_clicked",
       Clicking, TabSelectionPlan),
   Cap("discovery-click", 115, "discovery", "target_revealed_or_clicked",
       AnyKind, DiscoverClickPlan),
   Cap("extreme-click", 120, "selection", "ranked_target_clicked", AnyKind,
       ExtremeClickPlan)}

GeometryCapabilities ==
  {Cap("visual-geometry-click", 116, "geometry", "visual_object_clicked",
       {"click"}, VisualGeometryClickPlan),
   Cap("perpendicular-point-construction", 116, "geometry",
       "visual_object_clicked", AnyKind, PerpendicularPointConstructionPlan),
   Cap("element-resize", 119, "geometry", "element_resized", AnyKind,
       ResizeElementPlan),
   Cap("coordinate-grid-click", 103, "geometry",
       "coordinate_target_clicked", {"click"}, CoordinateGridPlan),
   Cap("visual-color-selection", 117, "visual",
       "visual_color_targets_selected", Clicking, VisualColorSelectionPlan),
   Cap("visual-object-click", 116, "visual", "visual_object_clicked",
       {"click"}, VisualObjectClickPlan),
   Cap("checkbox-grid-pattern", 100, "pattern", "checkbox_pattern_rendered",
       AnyKind, CheckboxGridPatternPlan)}

ControlCapabilities ==
  {Cap("scoped-checked-control", 100, "form_control",
       "scoped_checked_control_set", Selecting, ScopedCheckedControlPlan),
   Cap("grouped-choice-control", 113, "form_control",
       "grouped_choice_control_set", Selecting, GroupedChoiceControlPlan),
   Cap("ordinal-checked-control", 99, "form_control",
       "ordinal_checked_control_set", Selecting, OrdinalCheckedControlPlan),
   Cap("color-picker-input", 118, "form_control", "color_picker_value_set",
       Entering \cup {"click"}, ColorPickerInputPlan),
   Cap("date-picker-selection", 96, "form_control",
       "calendar_date_selected", Entering \cup {"click"}, DatePickerPlan),
   Cap("multi-slider-values", 95, "form_control", "slider_values_set",
       {"fill"}, MultiSliderPlan),
   Cap("scoped-field-fill", 94, "form_control", "scoped_field_filled",
       Entering, ScopedFieldFillPlan),
   Cap("scoped-field-edit", 93, "form_control", "scoped_field_edited",
       {"clear_field", "append_field"}, ScopedFieldEditPlan),
   Cap("multi-field-form-fill", 91, "form_control", "form_fields_filled",
       {"fill"}, MultiFieldFormPlan),
   Cap("file-upload", 91, "form_control", "file_uploaded", {"upload_file"},
       UploadFilePlan),
   Cap("single-slider-value", 90, "form_control", "slider_value_set",
       {"fill"}, SliderPlan),
   Cap("autocomplete-selection", 89, "form_control",
       "autocomplete_option_selected", Entering, AutocompletePlan),
   Cap("spinbutton-value", 88, "form_control", "numeric_value_set",
       {"fill"}, SpinbuttonPlan)}

CapabilityRegistry ==
  ReasoningCapabilities \cup WorkflowCapabilities \cup TargetCapabilities
    \cup GeometryCapabilities \cup ControlCapabilities
Capabilities == {r.name : r \in CapabilityRegistry}
Capability ==
  [c \in Capabilities |-> CHOOSE r \in CapabilityRegistry : r.name = c]

\* The capabilities whose "applies" lets an instruction of this kind in.
Offers(kind) == {c \in Capabilities : kind \in Capability[c].kinds}
-----------------------------------------------------------------------------
(* planStepCount, effectivePlanRank: what candidates are sorted by.        *)

\* The steps a plan counts as; a workflow counts its fields, a single action
\* nothing.
PlanStepCount(p) ==
  IF p.sequence THEN {Len(p.steps)}
  ELSE IF p.steps[1] = {"form_workflow"} THEN 1 .. MaxPlanSteps
  ELSE IF p.steps[1] = {"scoped_item_workflow"} THEN {0, 2}
  ELSE {0}

\* "multi" says whether the instruction asks for several actions in so many
\* words (hasExplicitMultiActionRequest).
EffectivePlanRank(c, count, multi) ==
  LET composite == Capability[c].category \in {"sequence", "workflow"}
      long == IF multi /\ count >= 2 THEN 34 ELSE IF count >= 3 THEN 14 ELSE 0
      asked == IF multi /\ composite THEN 8 ELSE 0
      single == IF multi /\ ~composite /\ count <= 1 THEN 8 ELSE 0
  IN  Capability[c].priority + long + asked - single

\* plan_step_count, of the daemon: here every other plan counts as one step.
DaemonStepCount(p) == IF p.sequence THEN Len(p.steps) ELSE 1

-----------------------------------------------------------------------------
(* verification.rs: the signals an action's result gives of itself, those  *)
(* that show in the page, and the ones each effect is recognised by.       *)

\* What the result of an action that went well always says.
Emits ==
  [type |-> "value_control_set", select_option |-> "option_selection_set",
   upload_file |-> "file_uploaded", set_slider |-> "slider_value_set",
   select_text |-> "text_selected", format_text |-> "text_formatted",
   set_checkbox_grid |-> "checkbox_grid_set",
   autocomplete_select |-> "autocomplete_option_selected",
   click_ordered_values |-> "ordered_targets_clicked",
   select_menu_path |-> "menu_path_selected",
   scoped_menu_click |-> "scoped_target_clicked",
   scroll_text_extract |-> "scroll_text_value_used",
   draw_path |-> "pointer_path_drawn",
   orient_visual |-> "visual_object_clicked",
   derive_and_act |-> "derived_value_entered",
   generate_constrained_value |-> "generated_value_submitted",
   feedback_loop_value |-> "generated_value_submitted",
   conditional_value_action |-> "conditional_action_completed",
   command_surface_action |-> "command_surface_completed",
   record_property_click |-> "record_property_clicked",
   tree_search_click |-> "tree_target_clicked",
   visual_feedback_search |-> "pointer_feedback_target_clicked",
   discover_click |-> "target_revealed_or_clicked",
   form_workflow |-> "form_workflow_completed",
   scoped_item_workflow |-> "scoped_workflow_completed",
   date_picker |-> "calendar_date_selected",
   press |-> "key_pressed", wait_for |-> "wait_condition_met",
   navigate |-> "navigation_completed", back |-> "navigation_completed",
   forward |-> "navigation_completed", reload |-> "navigation_completed",
   set_viewport |-> "viewport_set", emulate_device |-> "device_emulated",
   analyze_form |-> "form_analyzed", assert |-> "assertion_verified",
   screenshot |-> "screenshot_captured", hover |-> "element_hovered"]

\* Read from the result of a whole plan only, not from a step of a sequence.
TopLevelOnly ==
  {"draw_path", "orient_visual", "derive_and_act", "feedback_loop_value",
   "generate_constrained_value", "conditional_value_action",
   "command_surface_action", "date_picker", "press", "wait_for", "navigate",
   "back", "forward", "reload", "set_viewport", "emulate_device",
   "analyze_form", "assert", "screenshot", "hover"}
\* Mutant of SignalsOf: no result of a step is looked into.
SignalsOfWholePlans(a, sequence) ==
  IF a \notin DOMAIN Emits \/ sequence THEN {} ELSE {Emits[a]}
SignalsOf(a, sequence) ==
  IF a \notin DOMAIN Emits \/ (sequence /\ a \in TopLevelOnly)
  THEN {} ELSE {Emits[a]}

\* Signals that compare the page models before and after, or that a result
\* may also lack.
PageSignals ==
  {"url_changed", "body_text_changed", "interactive_count_changed",
   "checked_state_set", "requested_value_visible_or_set"}

Requested == {"requested_value_visible_or_set"}
Bodily == {"body_text_changed"}
Visible == {"body_text_changed", "interactive_count_changed"}
ClickEffects ==
  {"item_action_completed", "item_quantities_selected",
   "pointer_feedback_target_clicked", "record_property_clicked",
   "row_classification_completed", "tree_target_clicked",
   "target_revealed_or_clicked", "visual_object_clicked",
   "ranked_target_clicked", "coordinate_target_clicked",
   "scoped_target_clicked", "ordinal_target_clicked",
   "ordered_targets_clicked", "ordered_numeric_targets_clicked",
   "scroll_fill_and_submit_completed"}

\* effect_signal_kinds.
ValueEffectKinds(effect) ==
  CASE effect = "form_fields_filled" ->
         {"form_workflow_completed", "value_control_set",
          "option_selection_set"} \cup Requested
    [] effect \in {"table_values_filled", "text_copied_to_target",
                   "table_cell_value_used"} ->
         {"value_control_set"} \cup Requested \cup Bodily
    [] effect = "scoped_field_filled" ->
         {"value_control_set", "option_selection_set"} \cup Requested
    [] effect \in {"scoped_field_edited", "visible_text_entered",
                   "visible_count_value_used"} ->
         {"value_control_set"} \cup Requested
    [] effect \in {"slider_value_set", "slider_values_set", "numeric_value_set"} ->
         {"slider_value_set", "value_control_set"}
    [] effect = "slider_and_checkbox_values_set" ->
         {"value_control_set", "checked_state_set"}
    [] effect = "color_picker_value_set" ->
         {"value_control_set", "checked_state_set"} \cup Requested \cup Bodily
    [] effect = "scroll_text_value_used" ->
         {"scroll_text_value_used", "value_control_set"} \cup Requested
    [] effect \in {"file_uploaded", "autocomplete_option_selected"} -> {effect}
    [] OTHER -> {}
ChoiceEffectKinds(effect) ==
  CASE effect \in {"ordinal_checked_control_set", "scoped_checked_control_set"} ->
         {"checked_state_set"}
    [] effect = "grouped_choice_control_set" ->
         {"checked_state_set", "option_selection_set"}
    [] effect = "checkbox_pattern_rendered" ->
         {"checkbox_grid_set", "checked_state_set"}
    [] effect = "visual_color_targets_selected" ->
         {"checked_state_set"} \cup Visible
    [] effect \in {"list_options_selected", "menu_path_selected"} ->
         {"menu_path_selected", "option_selection_set"} \cup Visible
    [] effect = "text_selected" -> {"text_selected"}
    [] effect = "element_resized" -> {"pointer_path_drawn"} \cup Bodily
    [] effect = "calendar_date_selected" ->
         {"calendar_date_selected", "value_control_set"} \cup Requested
           \cup Bodily
    [] OTHER -> {}
WorkflowEffectKinds(effect) ==
  CASE effect = "scoped_multi_action_completed" ->
         {"scoped_workflow_completed", "scoped_target_clicked",
          "form_workflow_completed", "value_control_set",
          "option_selection_set", "checked_state_set"} \cup Requested
           \cup Visible
    [] effect = "derived_value_or_action_completed" ->
         {"derived_value_entered", "value_control_set"} \cup Visible
    [] effect = "generated_value_submitted" ->
         {"generated_value_submitted", "value_control_set"} \cup Visible
    [] effect = "conditional_action_completed" ->
         {"conditional_action_completed"} \cup Visible
    [] effect = "command_surface_completed" ->
         {"command_surface_completed"} \cup Bodily
    [] effect = "visual_geometry_value_selected" -> Visible
    [] effect \in {"form_workflow_completed",
                   "compound_form_sequence_completed"} ->
         {"form_workflow_completed", "value_control_set",
          "option_selection_set", "checked_state_set"} \cup Requested
           \cup Visible
    [] effect \in ClickEffects ->
         {"scoped_workflow_completed", "ordered_targets_clicked",
          "scoped_target_clicked", "record_property_clicked",
          "tree_target_clicked", "target_revealed_or_clicked",
          "pointer_feedback_target_clicked", "visual_object_clicked",
          "value_control_set", "checked_state_set"} \cup Requested
           \cup Visible
    [] OTHER -> {}
EffectSignalKinds(effect) ==
  ValueEffectKinds(effect) \cup ChoiceEffectKinds(effect)
    \cup WorkflowEffectKinds(effect)

\* The status of an answer: with a capability its effect must show, without
\* one any signal will do (all of them are strong).
Verdict(c, found) ==
  IF c = "none"
  THEN IF found # {} THEN "observed" ELSE "executed_unverified"
  ELSE LET kinds == EffectSignalKinds(Capability[c].effect)
       IN  IF kinds = {} THEN "executed_unverified"
           ELSE IF found \cap kinds # {} THEN "observed" ELSE "not_observed"

=============================================================================
