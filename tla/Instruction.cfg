SPECIFICATION Spec
CONSTANTS
  MaxPlanSteps = 3
  KindsAsked = {"scroll", "wait", "navigate", "set_viewport", "emulate_device", "read_text", "analyze_form", "accessibility_tree", "find_elements", "assert", "screenshot", "click", "focus", "hover", "fill", "clear_field", "append_field", "select_option", "set_checked", "upload_file", "press_key", "render_pattern", "count", "drag", "unknown"}
  StepLimits = {2, 8}
  Fallbacks = {"ordinal-click-target", "ordered-value-clicks", "discovery-click", "scoped-multi-action", "text-selection", "scoped-item-workflow", "conditional-value-action"}
  MaxTimeouts = 1
  MaxAborts = 1
PROPERTIES RetriesOnCleanPage
INVARIANTS
  TypeOK
  DoneMeansActed
  EffectIsSeen
