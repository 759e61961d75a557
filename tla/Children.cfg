SPECIFICATION Spec
CONSTANTS
  Child = {"c1", "c2"}
  Host = "host"
  Shell = "shell"
  MaxStops = 3
INVARIANTS NoStrangerSignalled NoneOutlives TerminalIsFollowed TerminalComesBack
PROPERTIES ChildrenReported
CHECK_DEADLOCK FALSE
