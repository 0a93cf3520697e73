\* Kernel and two tasks; sleeps of 0 ticks and across the wrap of the counter.
CONSTANTS
    MAX_TASKS = 3
    TICK_MOD = 6
    SLEEP_TICKS = {0, 2, 4}
    SYSTEM_CALLS = TRUE
SPECIFICATION Spec
CHECK_DEADLOCK FALSE
INVARIANTS
    TypeOK
    OneTaskRuns
PROPERTIES
    TasksKept
    StarvationFree
    SleeperWakes
