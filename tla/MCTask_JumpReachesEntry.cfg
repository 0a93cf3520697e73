CONSTANTS
    MAX_TASKS = 3
    TICK_MOD = 16
    SLEEP_TICKS = {2}
    SYSTEM_CALLS = FALSE
SPECIFICATION Spec
CHECK_DEADLOCK FALSE
INVARIANT
    JumpReachesEntry
