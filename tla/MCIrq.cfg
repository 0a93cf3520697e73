\* Any keys, typed once the keyboard handler is registered; a program runs.
CONSTANTS
    TICK_MOD = 6
    WAIT_TICKS = 2
    KEYS = {"sleep", "line", "ctrl_c", "char"}
    KEYS_FROM <- KeyboardStages
    PROGRAMS = TRUE
SPECIFICATION FairSpec
CHECK_DEADLOCK FALSE
INVARIANTS
    TypeOK
    InterruptsInTurn
    KeyHasInterrupt
PROPERTIES
    KeysRead
    TicksCounted
