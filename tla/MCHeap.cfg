\* Requests of 17 and 40 bytes split a block or take a small one whole; 0 is legal.
CONSTANTS
    HEAP_SIZE = 112
    WORD_MOD = 256
    REQUESTS = {0, 17, 40}
SPECIFICATION Spec
INVARIANTS
    TypeOK
    Tiling
    Ownership
    Coalesced
    RefusesOnlyWhenFull
PROPERTIES
    Returns
    ImplementsAllocator
