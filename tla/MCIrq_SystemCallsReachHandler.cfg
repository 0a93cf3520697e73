\* A program makes a system call.
CONSTANTS
    TICK_MOD = 6
    WAIT_TICKS = 2
    KEYS = {"char"}
    KEYS_FROM <- KeyboardStages
    PROGRAMS = TRUE
SPECIFICATION Spec
CHECK_DEADLOCK FALSE
INVARIANT SystemCallsReachHandler
