\* A session of each group of commands.  After a ping or a name lookup the
\* kernel waits, and after MAX_LOADS loads and all ends nothing is left to
\* do.
CONSTANTS
    us = us
    gateway = gateway
    server = server
    far = far
    HOSTS <- MCHosts
    LOCAL_NET <- MCLocal
    our_ip = us
    NET_GATEWAY = gateway
    NET_DNS = server
    MACS = {m1, m2}
    ARP_CACHE_SIZE = 2
    ANSWERS <- MCAnswers
    None = None
    x = x
    y = y
    z = z
    w = w
    s = s
    t = t
    long = long
    NAMES = {x, y, z, w}
    TEXTS = {s, t, long}
    CUT <- MCCut
    ENV_MAX_VARS = 3
    MAX_ALIASES = 2
    DEFAULTS <- MCDefaults
    Nothing = Nothing
    MAX_ELF_SLOTS = 2
    MAX_TASKS = 4
    FILES <- MCFiles
    MAX_LOADS = 5
    Nobody = Nobody
    WIDTH = 4
    LITERALS = {0, 1, 3, 8}
    LINES = 2
    BYTES = {"a", "b", " "}
    EXPRESSIONS <- MCExpressions
    DOCUMENTS <- MCDocuments
    PATTERNS <- MCPatterns
SPECIFICATION AnswersSpec
SYMMETRY MacSymmetry
CHECK_DEADLOCK FALSE
INVARIANTS
    ShellTypeOK
    SentToNextHop
    WaitsOnlyForStrangers
    EntryKept
    AnswersRight
PROPERTIES
    ImplementsNeighbours
    ImplementsMaps
