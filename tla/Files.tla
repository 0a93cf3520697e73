------------------------------- MODULE Files -------------------------------
(***************************************************************************)
(* Files as the shell and the system calls use them: ramfs under the table  *)
(* of open files of kernel/syscall.c and the file commands of shell/shell.c. *)
(* Both run with interrupts disabled, the commands in the keyboard interrupt *)
(* and the calls in theirs, so that each is one step; the table is shared by *)
(* all tasks, and a task that ends leaves its descriptors open.             *)
(***************************************************************************)
EXTENDS Ramfs

CONSTANTS
    MAX_OPEN_FILES,    \* descriptors (16)
    CREATED,           \* names that touch and SYS_CREATE are given
    BYTES, NEWLINE,    \* what files hold, and '\n'
    DATA,              \* what is written at a time
    LENGTHS            \* lengths of reads

ASSUME OpenFilesAssumption == MAX_OPEN_FILES \in Nat \ {0}
ASSUME InputsAssumption ==
    /\ CREATED \subseteq NAMES /\ NEWLINE \in BYTES
    /\ DATA \subseteq Seq(BYTES) /\ LENGTHS \subseteq Nat

VARIABLES
    files,         \* the slots of ramfs
    open_files,    \* index -> name, of the entries whose open_used is set
    result         \* what the last call returned

vars == <<files, open_files, result>>

FD_FILE_BASE == 4
Indices == 0 .. MAX_OPEN_FILES - 1
File == [used : BOOLEAN, name : NAMES \cup {NoName}, data : Seq(BYTES)]

TypeOK ==
    /\ files \in [Slots -> File]
    /\ \A i \in Slots : Len(files[i].data) <= RAMFS_MAX_FILESIZE
    /\ DOMAIN open_files \subseteq Indices
    /\ \A f \in DOMAIN open_files : open_files[f] \in FitNames
    /\ result.value \in Int /\ result.data \in Seq(BYTES)

\* ramfs_init, syscall_init
Init ==
    /\ files = [i \in Slots |-> FreeSlot]
    /\ open_files = [f \in {} |-> NoName]
    /\ result = [call |-> "none", on |-> 0, value |-> 0, data |-> <<>>]

Return(call, on, value) == result' = [call |-> call, on |-> on, value |-> value, data |-> <<>>]

-----------------------------------------------------------------------------
(***************************************************************************)
(* The commands of the shell.                                               *)
(***************************************************************************)
cmd_touch ==
    \E n \in CREATED :
        /\ files' = Created(files, n)
        /\ Return("create", n, ramfs_create(files, n))
        /\ UNCHANGED open_files

\* write <name> <content>, and the files that kernel_main installs.
cmd_write ==
    \E n \in FitNames, d \in DATA :
        /\ files' = Written(files, n, d)
        /\ Return("write", n, ramfs_write(files, n, d))
        /\ UNCHANGED open_files

\* A newline follows the text, if there is room for it.
cmd_append ==
    \E n \in FitNames, d \in DATA :
        LET text == Appended(files, n, d)
        IN  /\ files' = Appended(text, n, <<NEWLINE>>)
            /\ Return("append", n, ramfs_append(files, n, d))
            /\ UNCHANGED open_files

cmd_rm ==
    \E n \in NAMES :
        /\ files' = Deleted(files, n)
        /\ Return("delete", n, ramfs_delete(files, n))
        /\ UNCHANGED open_files

\* An empty file is not copied.
cmd_cp ==
    \E src, dst \in FitNames :
        /\ ramfs_exists(files, src)
        /\ LET d == ReadData(files, src, RAMFS_MAX_FILESIZE)
           IN  /\ d # <<>>
               /\ files' = Written(files, dst, d)
               /\ Return("write", dst, ramfs_write(files, dst, d))
        /\ UNCHANGED open_files

-----------------------------------------------------------------------------
(***************************************************************************)
(* The system calls.                                                        *)
(***************************************************************************)
sys_create_handler ==
    \E n \in CREATED :
        /\ files' = Created(files, n)
        /\ Return("create", n, ramfs_create(files, n))
        /\ UNCHANGED open_files

sys_delete_handler ==
    \E n \in NAMES :
        /\ files' = Deleted(files, n)
        /\ Return("delete", n, ramfs_delete(files, n))
        /\ UNCHANGED open_files

Unused_All == Indices
Unused == Indices \ DOMAIN open_files

\* alloc_fd: the first unused entry, with a copy of the name.
AllocFd(n) ==
    LET i == First(Unused)
    IN  /\ open_files' = [j \in DOMAIN open_files \cup {i} |->
                              IF j = i THEN STORED[n] ELSE open_files[j]]
        /\ Return("open", n, i + FD_FILE_BASE)

sys_open_handler ==
    \E n \in NAMES :
        /\ UNCHANGED files
        /\ \/ ramfs_exists(files, n) /\ Unused # {} /\ AllocFd(n)
           \/ /\ ~ ramfs_exists(files, n) \/ Unused = {}
              /\ Return("open", n, -1) /\ UNCHANGED open_files

\* Descriptors that callers pass: those below FD_FILE_BASE are the console's.
Passed == FD_FILE_BASE - 1 .. FD_FILE_BASE + MAX_OPEN_FILES

\* fd_to_name finds a name.
IsOpen(fd) == fd - FD_FILE_BASE \in DOMAIN open_files
fd_to_name(fd) == open_files[fd - FD_FILE_BASE]

\* Closing a descriptor that is not open, or out of range, succeeds.
sys_close_handler ==
    \E fd \in Passed :
        /\ \/ /\ fd < FD_FILE_BASE
              /\ Return("close", fd, -1) /\ UNCHANGED open_files
           \/ /\ fd >= FD_FILE_BASE
              /\ open_files' = [i \in DOMAIN open_files \ {fd - FD_FILE_BASE} |-> open_files[i]]
              /\ Return("close", fd, 0)
        /\ UNCHANGED files

\* A file that was deleted since it was opened is made anew.
sys_write_handler ==
    \E fd \in Passed, d \in DATA :
        /\ fd >= FD_FILE_BASE
        /\ \/ /\ IsOpen(fd)
              /\ files' = Written(files, fd_to_name(fd), d)
              /\ Return("write", fd, ramfs_write(files, fd_to_name(fd), d))
           \/ /\ ~ IsOpen(fd)
              /\ Return("write", fd, -1) /\ UNCHANGED files
        /\ UNCHANGED open_files

Readable(fd) == IsOpen(fd) /\ ramfs_exists(files, fd_to_name(fd))

sys_read_handler ==
    \E fd \in Passed, len \in LENGTHS :
        /\ fd >= FD_FILE_BASE
        /\ \/ /\ Readable(fd)
              /\ LET d == ReadData(files, fd_to_name(fd), len)
                 IN  result' = [call |-> "read", on |-> fd, value |-> Len(d), data |-> d]
           \/ ~ Readable(fd) /\ Return("read", fd, -1)
        /\ UNCHANGED <<files, open_files>>

-----------------------------------------------------------------------------
Next ==
    \/ cmd_touch \/ cmd_write \/ cmd_append \/ cmd_rm \/ cmd_cp
    \/ sys_create_handler \/ sys_delete_handler \/ sys_open_handler
    \/ sys_close_handler \/ sys_write_handler \/ sys_read_handler

Spec == Init /\ [][Next]_vars

-----------------------------------------------------------------------------
\* What slots fs hold, by name, and what open files o are called by their
\* descriptors.
StoreOf(fs) ==
    [n \in {fs[i].name : i \in {i \in Slots : fs[i].used}} |-> fs[find_file(fs, n)].data]
OpenOf(o) == [f \in {i + FD_FILE_BASE : i \in DOMAIN o} |-> o[f - FD_FILE_BASE]]

Abstract == INSTANCE FileSystem WITH
    MAX_FILES <- RAMFS_MAX_FILES, MAX_SIZE <- RAMFS_MAX_FILESIZE,
    DESCRIPTORS <- {i + FD_FILE_BASE : i \in Indices},
    CONSOLE <- 0 .. FD_FILE_BASE - 1, OTHERS <- {FD_FILE_BASE + MAX_OPEN_FILES},
    store <- StoreOf(files), open <- OpenOf(open_files)

\* The slots and the table of open files keep the promise of FileSystem, for
\* what each call changes and for what it returns: a file keeps its contents,
\* and a descriptor its name, whatever happens to the others.
ImplementsFileSystem == Abstract!Spec
=============================================================================
