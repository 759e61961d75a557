SPECIFICATION Spec
CONSTANTS
    Interval = 3
    MaxRestarts = 3
INVARIANTS
    NoTickAfterDrop
PROPERTIES
    RestartHoldsOff
    DropReturns
    KeepsTicking
CHECK_DEADLOCK FALSE
