CONSTANTS
    PAGE_SIZE = 4
    TOTAL_FRAMES = 6
    KERNEL_END = 10
    TABLE_SIZE = 2
    DIR_SIZE = 5
    IDENTITY_MAP_TABLES = 3
    MMIO <- MCMmio
    PHYSICAL = {0, 7}
SPECIFICATION Spec
INVARIANTS
    TypeOK
    FramesAccounted
    KernelStays
    RegistersMapped
PROPERTY ImplementsAddressSpace
