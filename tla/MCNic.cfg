\* Both cards, and packets from the moment the card is started.
CONSTANTS
    a = a
    b = b
    PACKETS <- MCPackets
    NoPacket = NoPacket
    NUM_RX_DESC = 3
    NUM_TX_DESC = 2
    RX_BUF_SIZE = 24
    TX_BUF_COUNT = 2
    SIZES <- MCSizes
    PCI_MAX_DEVICES = 2
    SLOTS = {0}
    MACHINES <- MCMachines
SPECIFICATION FairSpec
CHECK_DEADLOCK FALSE
CONSTRAINT OneFlaw
INVARIANTS
    TypeOK
    PacketIntact
    RoomReturned
PROPERTIES
    ImplementsLink
    HandedUp
