------------------------------- MODULE Ramfs -------------------------------
(***************************************************************************)
(* The file store, kernel/ramfs.c: an array of slots that is searched by    *)
(* name.  Each function is given as what it returns and what it leaves in   *)
(* the array, for an array fs; a command that calls several composes them.  *)
(***************************************************************************)
EXTENDS Integers, Sequences

CONSTANTS
    RAMFS_MAX_FILES,       \* slots (64)
    RAMFS_MAX_FILESIZE,    \* bytes of a file (4096)
    NAMES,                 \* names that callers use
    STORED                 \* name -> its first RAMFS_MAX_NAME - 1 characters

ASSUME SlotsAssumption ==
    /\ RAMFS_MAX_FILES \in Nat \ {0}
    /\ RAMFS_MAX_FILESIZE \in Nat
ASSUME StoredAssumption ==
    /\ STORED \in [NAMES -> NAMES]
    /\ \A n \in NAMES : STORED[STORED[n]] = STORED[n]

\* The names that fit in a slot.
FitNames == {n \in NAMES : STORED[n] = n}

Slots == 1 .. RAMFS_MAX_FILES
NoName == ""
FreeSlot == [used |-> FALSE, name |-> NoName, data |-> <<>>]

Holders(fs, n) == {i \in Slots : fs[i].used /\ fs[i].name = n}
FreeSlots(fs) == {i \in Slots : ~ fs[i].used}
First(S) == CHOOSE i \in S : \A j \in S : i <= j

ramfs_exists(fs, n) == Holders(fs, n) # {}
find_file(fs, n) == First(Holders(fs, n))

find_free_slot(fs) == First(FreeSlots(fs))

\* memcpy of at most RAMFS_MAX_FILESIZE bytes
Clip_Unchecked(d) == d
Clip(d) == IF Len(d) > RAMFS_MAX_FILESIZE THEN SubSeq(d, 1, RAMFS_MAX_FILESIZE) ELSE d

-----------------------------------------------------------------------------
ramfs_create_Unchecked(fs, n) == IF FreeSlots(fs) = {} THEN -2 ELSE 0
ramfs_create(fs, n) ==
    IF ramfs_exists(fs, n) THEN -1
    ELSE IF FreeSlots(fs) = {} THEN -2 ELSE 0

Created(fs, n) ==
    IF ramfs_create(fs, n) # 0 THEN fs
    ELSE [fs EXCEPT ![find_free_slot(fs)] = [used |-> TRUE, name |-> STORED[n], data |-> <<>>]]

\* For a name that fits, as every caller's does: a longer one is created and
\* then not found under its full name, and the data goes to address 0.
ramfs_write(fs, n, d) ==
    IF ramfs_exists(fs, n) \/ ramfs_create(fs, n) = 0 THEN Len(Clip(d)) ELSE -1

Written(fs, n, d) ==
    IF ramfs_write(fs, n, d) < 0 THEN fs
    ELSE LET made == Created(fs, n)
         IN  [made EXCEPT ![find_file(made, n)].data = Clip(d)]

Appended_Result(fs, n, d) == Clip(fs[find_file(fs, n)].data \o d)

ramfs_append(fs, n, d) ==
    IF ramfs_exists(fs, n)
    THEN Len(Appended_Result(fs, n, d)) - Len(fs[find_file(fs, n)].data)
    ELSE -1

Appended(fs, n, d) ==
    IF ramfs_exists(fs, n)
    THEN [fs EXCEPT ![find_file(fs, n)].data = Appended_Result(fs, n, d)]
    ELSE fs

\* The bytes that ramfs_read copies.
ReadData(fs, n, len) ==
    LET data == fs[find_file(fs, n)].data
    IN  IF Len(data) < len THEN data ELSE SubSeq(data, 1, len)

ramfs_delete(fs, n) == IF ramfs_exists(fs, n) THEN 0 ELSE -1

Deleted(fs, n) ==
    IF ramfs_exists(fs, n) THEN [fs EXCEPT ![find_file(fs, n)] = FreeSlot] ELSE fs
============================================================================
