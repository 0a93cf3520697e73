CONSTANTS
    a = a  b = b  long = long  x = x  y = y  nl = nl
    RAMFS_MAX_FILES = 2
    RAMFS_MAX_FILESIZE = 2
    NAMES = {a, b, long}
    STORED <- MCStored
    MAX_OPEN_FILES = 2
    CREATED = {a, b}
    BYTES = {x, y, nl}
    NEWLINE = nl
    DATA <- MCData
    LENGTHS = {1, 2}
SPECIFICATION Spec
INVARIANT TypeOK
PROPERTY ImplementsFileSystem
