SPECIFICATION Spec
CONSTANTS
  Creds = {good, bad}
  GoodCreds = {good}
  Selections = {s1}
  Layouts = {l1}
  Modes = {"Default", "Focus", "Custom"}
  Legacy = FALSE
  Faults = {}
  None = None
PROPERTY ResetLeavesNothing
