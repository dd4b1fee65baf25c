\* Three messages of any kinds; the server stops when its scope is closed.
CONSTANT MaxSent = 3
SPECIFICATION Spec
CHECK_DEADLOCK FALSE
INVARIANTS ExitWins
PROPERTIES ShutdownEnds
