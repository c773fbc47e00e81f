SPECIFICATION Spec
CONSTANTS
  Backends = {"gtk", "win32", "android"}
  Forms = {"fields", "radios", "picker", "slider", "scrollbar", "tabs", "nav"}
  Apps = {"plain", "tidy", "insert", "validate"}
  Texts = {"", "a", "b"}
  Toggles = {t1, t2, t3}
  MaxBinds = 2
  MaxRows = 3
  Top = 5
  Steps = 3
  MaxBar = 3
  TabsMax = 2
  NavDepth = 2
INVARIANTS
  FieldsHold
  ChoicesHold
PROPERTY BindingsAgreeAfterwards
CHECK_DEADLOCK FALSE
