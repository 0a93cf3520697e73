\* A command that waits, no system call.
CONSTANTS
    TICK_MOD = 6
    WAIT_TICKS = 2
    KEYS = {"sleep", "line", "ctrl_c", "char"}
    KEYS_FROM <- KeyboardStages
    PROGRAMS = FALSE
SPECIFICATION FairSpec
CHECK_DEADLOCK FALSE
PROPERTY SleepReturns
