---------------------------- MODULE FilesProofs ----------------------------
(***************************************************************************)
(* The file store and the open files, for any number of slots, descriptors  *)
(* and names, any size of a file and any data: the slots keep their types   *)
(* and sizes, and together with the table of open files they implement      *)
(* module FileSystem.  The latter needs that names which are created fit in *)
(* a slot: kernel/ramfs.c stores a longer one under its first characters,   *)
(* where a second file of that name does not keep it out.                   *)
(***************************************************************************)
EXTENDS Files, FiniteSetTheorems, SequenceTheorems, TLAPS

\* Of slots fs: their types and sizes.
Typed(fs) ==
    /\ fs \in [Slots -> File]
    /\ \A i \in Slots : Len(fs[i].data) <= RAMFS_MAX_FILESIZE

\* A name is held by one slot, and is a name that can be looked up.
OneSlotEach(fs) ==
    /\ \A i, j \in Slots :
        fs[i].used /\ fs[j].used /\ fs[i].name = fs[j].name => i = j
    /\ \A i \in Slots : fs[i].used => fs[i].name \in FitNames

Sound(fs) == Typed(fs) /\ OneSlotEach(fs)

IInv == TypeOK /\ OneSlotEach(files)

-----------------------------------------------------------------------------
(* The least element that First chooses.                                    *)
LEMMA FirstIsLeast ==
    ASSUME NEW S \in SUBSET Nat, S # {}
    PROVE  First(S) \in S /\ \A j \in S : First(S) <= j
<1> DEFINE Less == {p \in Nat \X Nat : p[1] < p[2]}
<1>1. IsWellFoundedOn(Less, Nat)
  <2>1. OpToRel(<, Nat) = Less
    BY Zenon DEF OpToRel
  <2>2. QED  BY <2>1, NatLessThanWellFounded, Zenon
<1>2. PICK i \in S : \A j \in S : <<j, i>> \notin Less
  BY <1>1, WFMin, Zenon
<1>3. ASSUME NEW j \in S PROVE i <= j
  <2>1. i \in Nat /\ j \in Nat
    OBVIOUS
  <2>2. j < i => <<j, i>> \in Less
    BY <2>1
  <2>3. QED  BY <1>2, <2>1, <2>2
<1>4. QED  BY <1>2, <1>3 DEF First

(* What a search for a name, and for a free slot, finds.                    *)
LEMMA SearchFacts ==
    ASSUME NEW fs, NEW n
    PROVE  /\ ramfs_exists(fs, n) => /\ find_file(fs, n) \in Slots
                                     /\ fs[find_file(fs, n)].used
                                     /\ fs[find_file(fs, n)].name = n
           /\ FreeSlots(fs) # {} => /\ find_free_slot(fs) \in Slots
                                    /\ ~ fs[find_free_slot(fs)].used
           /\ ramfs_exists(fs, n) <=> \E i \in Slots : fs[i].used /\ fs[i].name = n
<1>1. Holders(fs, n) \in SUBSET Nat /\ FreeSlots(fs) \in SUBSET Nat
  BY DEF Holders, FreeSlots, Slots
<1>2. ramfs_exists(fs, n) => find_file(fs, n) \in Holders(fs, n)
  BY <1>1, FirstIsLeast DEF ramfs_exists, find_file
<1>3. FreeSlots(fs) # {} => find_free_slot(fs) \in FreeSlots(fs)
  BY <1>1, FirstIsLeast DEF find_free_slot
<1>4. QED  BY <1>2, <1>3 DEF Holders, FreeSlots, ramfs_exists

(* The one slot of a name is what a search for it finds.                    *)
LEMMA FindOnly ==
    ASSUME NEW fs, OneSlotEach(fs), NEW i \in Slots, fs[i].used
    PROVE  ramfs_exists(fs, fs[i].name) /\ find_file(fs, fs[i].name) = i
<1>1. ramfs_exists(fs, fs[i].name)
  BY SearchFacts
<1>2. QED  BY <1>1, SearchFacts DEF OneSlotEach

LEMMA StoredFits ==
    ASSUME NEW n \in NAMES
    PROVE  STORED[n] \in FitNames /\ (n \in FitNames => STORED[n] = n)
BY StoredAssumption DEF FitNames

-----------------------------------------------------------------------------
(* What is copied into a file fits in it.                                   *)
LEMMA ClipFacts ==
    ASSUME NEW d \in Seq(BYTES)
    PROVE  /\ Clip(d) \in Seq(BYTES)
           /\ Len(Clip(d)) \in Nat /\ Len(Clip(d)) <= RAMFS_MAX_FILESIZE
           /\ Len(Clip(d)) = IF Len(d) > RAMFS_MAX_FILESIZE
                             THEN RAMFS_MAX_FILESIZE ELSE Len(d)
           /\ \A k \in 1 .. Len(Clip(d)) : Clip(d)[k] = d[k]
<1>1. Len(d) \in Nat /\ RAMFS_MAX_FILESIZE \in Nat
  BY SlotsAssumption, LenProperties
<1>2. CASE Len(d) > RAMFS_MAX_FILESIZE
  <2>1. \A k \in 1 .. RAMFS_MAX_FILESIZE : d[k] \in BYTES
    BY <1>1, <1>2, ElementOfSeq
  <2> DEFINE c == SubSeq(d, 1, RAMFS_MAX_FILESIZE)
  <2>2. /\ c \in Seq(BYTES) /\ Len(c) = RAMFS_MAX_FILESIZE
        /\ \A k \in 1 .. RAMFS_MAX_FILESIZE : c[k] = d[k]
    BY <1>1, <2>1, SubSeqProperties
  <2>3. QED  BY <1>1, <1>2, <2>2 DEF Clip
<1>3. CASE ~ (Len(d) > RAMFS_MAX_FILESIZE)
  BY <1>1, <1>3 DEF Clip
<1>4. QED  BY <1>2, <1>3

(* To clip twice, before and after more is added, is to clip once.          *)
LEMMA ClipTwice ==
    ASSUME NEW c \in Seq(BYTES), NEW d \in Seq(BYTES)
    PROVE  Clip(Clip(c) \o d) = Clip(c \o d)
<1>1. /\ Clip(c) \o d \in Seq(BYTES) /\ c \o d \in Seq(BYTES)
      /\ Len(Clip(c) \o d) = Len(Clip(c)) + Len(d) /\ Len(c \o d) = Len(c) + Len(d)
      /\ \A k \in 1 .. Len(Clip(c)) + Len(d) :
            (Clip(c) \o d)[k] = IF k <= Len(Clip(c)) THEN Clip(c)[k] ELSE d[k - Len(Clip(c))]
      /\ \A k \in 1 .. Len(c) + Len(d) :
            (c \o d)[k] = IF k <= Len(c) THEN c[k] ELSE d[k - Len(c)]
  <2>1. Clip(c) \in Seq(BYTES)
    BY ClipFacts
  <2>2. /\ Clip(c) \o d \in Seq(BYTES)
        /\ Len(Clip(c) \o d) = Len(Clip(c)) + Len(d)
        /\ \A k \in 1 .. Len(Clip(c)) + Len(d) :
              (Clip(c) \o d)[k] = IF k <= Len(Clip(c)) THEN Clip(c)[k] ELSE d[k - Len(Clip(c))]
    BY <2>1, ConcatProperties
  <2>3. QED  BY <2>2, ConcatProperties
<1>2. Len(c) \in Nat /\ Len(d) \in Nat /\ RAMFS_MAX_FILESIZE \in Nat
  BY SlotsAssumption, LenProperties
<1> DEFINE p == Clip(Clip(c) \o d)
           q == Clip(c \o d)
<1>3. /\ p \in Seq(BYTES) /\ q \in Seq(BYTES)
      /\ \A k \in 1 .. Len(p) : p[k] = (Clip(c) \o d)[k]
      /\ \A k \in 1 .. Len(q) : q[k] = (c \o d)[k]
      /\ Len(p) = IF Len(Clip(c)) + Len(d) > RAMFS_MAX_FILESIZE
                  THEN RAMFS_MAX_FILESIZE ELSE Len(Clip(c)) + Len(d)
      /\ Len(q) = IF Len(c) + Len(d) > RAMFS_MAX_FILESIZE
                  THEN RAMFS_MAX_FILESIZE ELSE Len(c) + Len(d)
  BY <1>1, ClipFacts
<1>4. /\ Len(Clip(c)) = IF Len(c) > RAMFS_MAX_FILESIZE THEN RAMFS_MAX_FILESIZE ELSE Len(c)
      /\ \A k \in 1 .. Len(Clip(c)) : Clip(c)[k] = c[k]
  BY ClipFacts
<1>5. Len(p) = Len(q)
  BY <1>2, <1>3, <1>4
<1>6. ASSUME NEW k \in 1 .. Len(p) PROVE p[k] = q[k]
  <2>1. /\ p[k] = IF k <= Len(Clip(c)) THEN Clip(c)[k] ELSE d[k - Len(Clip(c))]
        /\ q[k] = IF k <= Len(c) THEN c[k] ELSE d[k - Len(c)]
    BY <1>1, <1>2, <1>3, <1>4, <1>5, SMTT(30)
  <2>2. QED  BY <1>2, <1>3, <1>4, <2>1
<1>7. QED  BY <1>3, <1>5, <1>6, SeqEqual

-----------------------------------------------------------------------------
(* What the functions of ramfs do to the slots.                             *)

LEMMA CreatedTyped ==
    ASSUME NEW fs, Typed(fs), NEW n \in NAMES
    PROVE  Typed(Created(fs, n)) /\ ramfs_create(fs, n) \in {-2, -1, 0}
<1>1. ramfs_create(fs, n) = 0 => FreeSlots(fs) # {}
  BY DEF ramfs_create
<1>2. STORED[n] \in NAMES
  BY StoredAssumption
<1> DEFINE file == [used |-> TRUE, name |-> STORED[n], data |-> <<>>]
<1>3. file \in File /\ Len(file.data) = 0
  <2>1. <<>> \in Seq(BYTES) /\ Len(<<>>) = 0
    BY EmptySeq
  <2>2. QED  BY <1>2, <2>1 DEF File
<1>4. CASE ramfs_create(fs, n) = 0
  <2>1. Created(fs, n) = [fs EXCEPT ![find_free_slot(fs)] = file]
    BY <1>4 DEF Created
  <2>2. find_free_slot(fs) \in Slots
    BY <1>1, <1>4, SearchFacts
  <2> HIDE DEF file
  <2>3. QED  BY <1>3, <1>4, <2>1, <2>2, SlotsAssumption DEF Typed
<1>5. CASE ramfs_create(fs, n) # 0
  BY <1>5 DEF Created, ramfs_create
<1>6. QED  BY <1>4, <1>5

(* A created file is there, and is empty; the others are what they were.    *)
LEMMA CreatedSlots ==
    ASSUME NEW fs, Sound(fs), NEW n \in FitNames, ramfs_create(fs, n) = 0
    PROVE  \E k \in Slots :
             /\ ~ fs[k].used
             /\ Created(fs, n) = [fs EXCEPT ![k] = [used |-> TRUE, name |-> n, data |-> <<>>]]
             /\ OneSlotEach(Created(fs, n))
             /\ ramfs_exists(Created(fs, n), n)
<1> DEFINE k == find_free_slot(fs)
           file == [used |-> TRUE, name |-> n, data |-> <<>>]
<1>1. ~ ramfs_exists(fs, n) /\ FreeSlots(fs) # {}
  BY DEF ramfs_create
<1>2. k \in Slots /\ ~ fs[k].used
  BY <1>1, SearchFacts
<1>3. Created(fs, n) = [fs EXCEPT ![k] = file]
  BY DEF Created, FitNames
<1>4. \A i \in Slots : fs[i].used => fs[i].name # n
  BY <1>1, SearchFacts
<1> HIDE DEF k
<1>5. /\ Created(fs, n)[k] = file
      /\ \A i \in Slots \ {k} : Created(fs, n)[i] = fs[i]
  BY <1>2, <1>3 DEF Sound, Typed
<1>6. OneSlotEach(Created(fs, n))
  BY <1>2, <1>4, <1>5 DEF OneSlotEach, Sound
<1>7. ramfs_exists(Created(fs, n), n)
  BY <1>2, <1>5, SearchFacts
<1>8. QED  BY <1>2, <1>3, <1>6, <1>7

(* The contents of one slot are replaced.                                   *)
Filled(fs, k, d) == [fs EXCEPT ![k].data = d]

LEMMA FilledSlots ==
    ASSUME NEW fs, Typed(fs), NEW k \in Slots, NEW d \in Seq(BYTES), Len(d) <= RAMFS_MAX_FILESIZE
    PROVE  /\ Typed(Filled(fs, k, d))
           /\ Filled(fs, k, d)[k].data = d
           /\ \A i \in Slots : /\ Filled(fs, k, d)[i].used = fs[i].used
                               /\ Filled(fs, k, d)[i].name = fs[i].name
                               /\ i # k => Filled(fs, k, d)[i] = fs[i]
<1>1. /\ fs \in [Slots -> File] /\ fs[k] \in File
  BY DEF Typed
<1>2. [fs[k] EXCEPT !.data = d] \in File
  BY <1>1 DEF File
<1> DEFINE gs == [fs EXCEPT ![k] = [fs[k] EXCEPT !.data = d]]
<1>3. Filled(fs, k, d) = gs
  BY DEF Filled
<1>4. /\ gs \in [Slots -> File] /\ gs[k] = [fs[k] EXCEPT !.data = d]
      /\ \A i \in Slots \ {k} : gs[i] = fs[i]
  BY <1>1, <1>2
<1>5. /\ gs[k].data = d /\ gs[k].used = fs[k].used /\ gs[k].name = fs[k].name
  BY <1>1, <1>4 DEF File
<1> HIDE DEF gs
<1>6. Typed(gs)
  BY <1>4, <1>5 DEF Typed
<1>7. QED  BY <1>3, <1>4, <1>5, <1>6

LEMMA FilledSound ==
    ASSUME NEW fs, Sound(fs), NEW k \in Slots, NEW d \in Seq(BYTES), Len(d) <= RAMFS_MAX_FILESIZE
    PROVE  Sound(Filled(fs, k, d))
<1>1. Typed(fs) /\ OneSlotEach(fs)
  BY DEF Sound
<1>2. /\ Typed(Filled(fs, k, d))
      /\ \A i \in Slots : /\ Filled(fs, k, d)[i].used = fs[i].used
                          /\ Filled(fs, k, d)[i].name = fs[i].name
  BY <1>1, FilledSlots
<1>3. OneSlotEach(Filled(fs, k, d))
  BY <1>1, <1>2, Zenon DEF OneSlotEach
<1>4. QED  BY <1>2, <1>3 DEF Sound

LEMMA WrittenIsFilled ==
    ASSUME NEW fs, NEW n, NEW d
    PROVE  Written(fs, n, d) =
             IF ramfs_write(fs, n, d) < 0 THEN fs
             ELSE Filled(Created(fs, n), find_file(Created(fs, n), n), Clip(d))
BY DEF Written, Filled

\* What a read copies is a part of the file.
LEMMA ReadFacts ==
    ASSUME NEW fs, Typed(fs), NEW n, ramfs_exists(fs, n), NEW len \in Nat
    PROVE  LET data == fs[find_file(fs, n)].data IN
           /\ data \in Seq(BYTES) /\ Len(data) \in Nat /\ Len(data) <= RAMFS_MAX_FILESIZE
           /\ ReadData(fs, n, len) \in Seq(BYTES)
           /\ Len(ReadData(fs, n, len)) \in Nat
           /\ Len(ReadData(fs, n, len)) <= RAMFS_MAX_FILESIZE
           /\ ReadData(fs, n, RAMFS_MAX_FILESIZE) = data
           /\ ReadData(fs, n, len) = IF len < Len(data) THEN SubSeq(data, 1, len) ELSE data
<1> DEFINE data == fs[find_file(fs, n)].data
<1>1. find_file(fs, n) \in Slots
  BY SearchFacts
<1>2. data \in Seq(BYTES) /\ Len(data) <= RAMFS_MAX_FILESIZE
  BY <1>1 DEF Typed, File
<1>3. Len(data) \in Nat /\ SubSeq(data, 1, Len(data)) = data /\ RAMFS_MAX_FILESIZE \in Nat
  BY <1>2, LenProperties, SubSeqFull, SlotsAssumption
<1>4. \A m \in Nat : ReadData(fs, n, m) = IF Len(data) < m THEN data ELSE SubSeq(data, 1, m)
  BY DEF ReadData
<1> HIDE DEF data
<1>5. ASSUME NEW m \in Nat, m <= Len(data)
      PROVE  SubSeq(data, 1, m) \in Seq(BYTES) /\ Len(SubSeq(data, 1, m)) = m
  <2>1. \A i \in 1 .. m : data[i] \in BYTES
    BY <1>2, <1>3, <1>5, ElementOfSeq
  <2>2. QED  BY <2>1, <1>5, SubSeqProperties
<1>6. ReadData(fs, n, RAMFS_MAX_FILESIZE) = data
  BY <1>2, <1>3, <1>4
<1>7. ReadData(fs, n, len) = IF len < Len(data) THEN SubSeq(data, 1, len) ELSE data
  BY <1>3, <1>4
<1>8. QED  BY <1>2, <1>3, <1>5, <1>6, <1>7 DEF data

LEMMA WrittenTyped ==
    ASSUME NEW fs, Typed(fs), NEW n \in FitNames, NEW d \in Seq(BYTES)
    PROVE  Typed(Written(fs, n, d)) /\ ramfs_write(fs, n, d) \in Int
<1>1. n \in NAMES /\ STORED[n] = n
  BY DEF FitNames
<1>2. Clip(d) \in Seq(BYTES) /\ Len(Clip(d)) \in Nat /\ Len(Clip(d)) <= RAMFS_MAX_FILESIZE
  BY ClipFacts
<1> DEFINE made == Created(fs, n)
<1>3. Typed(made)
  BY <1>1, CreatedTyped
<1>4. CASE ~ ramfs_exists(fs, n) /\ ramfs_create(fs, n) # 0
  BY <1>4 DEF Written, ramfs_write
<1>5. CASE ramfs_exists(fs, n) \/ ramfs_create(fs, n) = 0
  <2>1. ramfs_exists(made, n)
    <3>1. CASE ramfs_exists(fs, n)
      BY <3>1 DEF Created, ramfs_create
    <3>2. CASE ramfs_create(fs, n) = 0
      <4>1. FreeSlots(fs) # {}
        BY <3>2 DEF ramfs_create
      <4>2. find_free_slot(fs) \in Slots
        BY <4>1, SearchFacts
      <4>3. made[find_free_slot(fs)] = [used |-> TRUE, name |-> n, data |-> <<>>]
        BY <1>1, <3>2, <4>2 DEF Created, Typed
      <4>4. made[find_free_slot(fs)].used /\ made[find_free_slot(fs)].name = n
        BY <4>3
      <4>5. QED  BY <4>2, <4>4, SearchFacts
    <3>3. QED  BY <1>5, <3>1, <3>2
  <2>2. find_file(made, n) \in Slots
    BY <2>1, SearchFacts
  <2>3. Written(fs, n, d) = Filled(made, find_file(made, n), Clip(d))
    BY <1>2, <1>5, WrittenIsFilled DEF ramfs_write
  <2>4. QED  BY <1>2, <1>3, <1>5, <2>2, <2>3, FilledSlots DEF ramfs_write
<1>6. QED  BY <1>4, <1>5

LEMMA AppendedTyped ==
    ASSUME NEW fs, Typed(fs), NEW n, NEW d \in Seq(BYTES)
    PROVE  /\ Typed(Appended(fs, n, d)) /\ ramfs_append(fs, n, d) \in Int
           /\ OneSlotEach(fs) => OneSlotEach(Appended(fs, n, d))
<1>1. CASE ~ ramfs_exists(fs, n)
  BY <1>1 DEF Appended, ramfs_append
<1>2. CASE ramfs_exists(fs, n)
  <2> DEFINE k == find_file(fs, n)
             c == fs[k].data
             e == Appended_Result(fs, n, d)
  <2>1. k \in Slots
    BY <1>2, SearchFacts
  <2>2. c \in Seq(BYTES) /\ Len(c) \in Nat
    BY <1>2, ReadFacts
  <2>3. e = Clip(c \o d) /\ c \o d \in Seq(BYTES)
    BY <2>2, ConcatProperties DEF Appended_Result
  <2>4. e \in Seq(BYTES) /\ Len(e) \in Nat /\ Len(e) <= RAMFS_MAX_FILESIZE
    BY <2>3, ClipFacts
  <2>5. Appended(fs, n, d) = Filled(fs, k, e)
    BY <1>2 DEF Appended, Filled
  <2>6. ramfs_append(fs, n, d) = Len(e) - Len(c)
    BY <1>2 DEF ramfs_append
  <2> HIDE DEF k, c, e
  <2>7. QED  BY <2>1, <2>2, <2>4, <2>5, <2>6, FilledSlots, FilledSound DEF Sound
<1>3. QED  BY <1>1, <1>2

LEMMA DeletedTyped ==
    ASSUME NEW fs, Typed(fs), NEW n
    PROVE  Typed(Deleted(fs, n)) /\ ramfs_delete(fs, n) \in {-1, 0}
<1>1. FreeSlot \in File /\ Len(FreeSlot.data) = 0
  <2>1. <<>> \in Seq(BYTES) /\ Len(<<>>) = 0
    BY EmptySeq
  <2>2. QED  BY <2>1 DEF FreeSlot, File
<1>2. CASE ~ ramfs_exists(fs, n)
  BY <1>2 DEF Deleted, ramfs_delete
<1>3. CASE ramfs_exists(fs, n)
  <2>1. find_file(fs, n) \in Slots
    BY <1>3, SearchFacts
  <2>2. Deleted(fs, n) = [fs EXCEPT ![find_file(fs, n)] = FreeSlot]
    BY <1>3 DEF Deleted
  <2>3. QED  BY <1>1, <1>3, <2>1, <2>2, SlotsAssumption DEF Typed, ramfs_delete
<1>4. QED  BY <1>2, <1>3

-----------------------------------------------------------------------------
(* The type invariant.                                                      *)

OpenTyped ==
    /\ DOMAIN open_files \subseteq Indices
    /\ \A f \in DOMAIN open_files : open_files[f] \in FitNames

ResultTyped == result.value \in Int /\ result.data \in Seq(BYTES)

LEMMA TypeParts == TypeOK <=> Typed(files) /\ OpenTyped /\ ResultTyped
BY DEF TypeOK, Typed, OpenTyped, ResultTyped

LEMMA ReturnTyped ==
    ASSUME NEW call, NEW on, NEW value \in Int, Return(call, on, value)
    PROVE  ResultTyped'
<1>1. <<>> \in Seq(BYTES)
  BY EmptySeq
<1>2. QED  BY <1>1 DEF Return, ResultTyped

LEMMA NewDescriptor ==
    ASSUME Unused # {}
    PROVE  First(Unused) \in Indices \ DOMAIN open_files
<1>1. Unused \in SUBSET Nat
  BY DEF Unused, Indices
<1>2. QED  BY <1>1, FirstIsLeast DEF Unused

LEMMA OpenedTyped ==
    ASSUME OpenTyped, NEW n \in NAMES, Unused # {}, AllocFd(n)
    PROVE  OpenTyped' /\ ResultTyped'
<1>1. First(Unused) \in Indices /\ First(Unused) \in Int
  BY NewDescriptor DEF Indices
<1>2. STORED[n] \in FitNames
  BY StoredFits
<1>3. OpenTyped'
  BY <1>1, <1>2 DEF OpenTyped, AllocFd
<1>4. First(Unused) + FD_FILE_BASE \in Int
  BY <1>1 DEF FD_FILE_BASE
<1>5. QED  BY <1>3, <1>4, ReturnTyped DEF AllocFd

LEMMA ClosedTyped ==
    ASSUME OpenTyped, NEW S, open_files' = [i \in DOMAIN open_files \ S |-> open_files[i]]
    PROVE  OpenTyped'
BY DEF OpenTyped

LEMMA InitTypeOK == Init => TypeOK
<1> SUFFICES ASSUME Init PROVE TypeOK
  OBVIOUS
<1>1. <<>> \in Seq(BYTES) /\ Len(<<>>) = 0
  BY EmptySeq
<1>2. FreeSlot \in File /\ Len(FreeSlot.data) = 0
  BY <1>1 DEF FreeSlot, File
<1>3. Typed(files)
  BY <1>2, SlotsAssumption DEF Init, Typed
<1>4. OpenTyped /\ ResultTyped
  BY <1>1 DEF Init, OpenTyped, ResultTyped
<1>5. QED  BY <1>3, <1>4, TypeParts

\* The bytes read from an open file.
LEMMA ReadTyped ==
    ASSUME Typed(files), NEW fd, NEW len \in LENGTHS, Readable(fd),
           result' = [call |-> "read", on |-> fd,
                      value |-> Len(ReadData(files, fd_to_name(fd), len)),
                      data |-> ReadData(files, fd_to_name(fd), len)]
    PROVE  ResultTyped'
<1>1. len \in Nat /\ ramfs_exists(files, fd_to_name(fd))
  BY InputsAssumption DEF Readable
<1>2. /\ ReadData(files, fd_to_name(fd), len) \in Seq(BYTES)
      /\ Len(ReadData(files, fd_to_name(fd), len)) \in Nat
  BY <1>1, ReadFacts
<1>3. QED  BY <1>2 DEF ResultTyped

LEMMA NextTypeOK == TypeOK /\ [Next]_vars => TypeOK'
<1> SUFFICES ASSUME TypeOK, [Next]_vars
             PROVE  Typed(files') /\ OpenTyped' /\ ResultTyped'
  BY TypeParts DEF TypeOK, Typed, OpenTyped, ResultTyped
<1>1. Typed(files) /\ OpenTyped /\ ResultTyped
  BY TypeParts
<1>2. UNCHANGED open_files => OpenTyped'
  BY <1>1 DEF OpenTyped
<1>3. CREATED \subseteq NAMES /\ FitNames \subseteq NAMES /\ DATA \subseteq Seq(BYTES)
  BY InputsAssumption DEF FitNames
<1>4. CASE cmd_touch \/ sys_create_handler
  <2>1. PICK n \in CREATED : /\ files' = Created(files, n)
                             /\ Return("create", n, ramfs_create(files, n))
                             /\ UNCHANGED open_files
    BY <1>4 DEF cmd_touch, sys_create_handler
  <2>2. Typed(Created(files, n)) /\ ramfs_create(files, n) \in Int
    BY <1>1, <1>3, CreatedTyped
  <2>3. QED  BY <1>2, <2>1, <2>2, ReturnTyped
<1>5. CASE cmd_write
  <2>1. PICK n \in FitNames, d \in DATA : /\ files' = Written(files, n, d)
                                          /\ Return("write", n, ramfs_write(files, n, d))
                                          /\ UNCHANGED open_files
    BY <1>5 DEF cmd_write
  <2>2. Typed(Written(files, n, d)) /\ ramfs_write(files, n, d) \in Int
    BY <1>1, <1>3, WrittenTyped
  <2>3. QED  BY <1>2, <2>1, <2>2, ReturnTyped
<1>6. CASE cmd_append
  <2>1. PICK n \in FitNames, d \in DATA :
          /\ files' = Appended(Appended(files, n, d), n, <<NEWLINE>>)
          /\ Return("append", n, ramfs_append(files, n, d))
          /\ UNCHANGED open_files
    BY <1>6 DEF cmd_append
  <2>2. <<NEWLINE>> \in Seq(BYTES)
    BY InputsAssumption
  <2>3. Typed(Appended(files, n, d)) /\ ramfs_append(files, n, d) \in Int
    BY <1>1, <1>3, AppendedTyped
  <2>4. Typed(Appended(Appended(files, n, d), n, <<NEWLINE>>))
    BY <2>2, <2>3, AppendedTyped
  <2>5. QED  BY <1>2, <2>1, <2>3, <2>4, ReturnTyped
<1>7. CASE cmd_rm \/ sys_delete_handler
  <2>1. PICK n \in NAMES : /\ files' = Deleted(files, n)
                           /\ Return("delete", n, ramfs_delete(files, n))
                           /\ UNCHANGED open_files
    BY <1>7 DEF cmd_rm, sys_delete_handler
  <2>2. Typed(Deleted(files, n)) /\ ramfs_delete(files, n) \in Int
    BY <1>1, DeletedTyped
  <2>3. QED  BY <1>2, <2>1, <2>2, ReturnTyped
<1>8. CASE cmd_cp
  <2>1. PICK src \in FitNames, dst \in FitNames :
          LET d == ReadData(files, src, RAMFS_MAX_FILESIZE) IN
          /\ ramfs_exists(files, src)
          /\ files' = Written(files, dst, d)
          /\ Return("write", dst, ramfs_write(files, dst, d))
          /\ UNCHANGED open_files
    BY <1>8 DEF cmd_cp
  <2>2. ReadData(files, src, RAMFS_MAX_FILESIZE) \in Seq(BYTES)
    BY <1>1, <2>1, ReadFacts, SlotsAssumption
  <2>3. /\ Typed(Written(files, dst, ReadData(files, src, RAMFS_MAX_FILESIZE)))
        /\ ramfs_write(files, dst, ReadData(files, src, RAMFS_MAX_FILESIZE)) \in Int
    BY <1>1, <2>2, WrittenTyped
  <2>4. QED  BY <1>2, <2>1, <2>3, ReturnTyped
<1>9. CASE sys_open_handler
  <2>1. PICK n \in NAMES :
          /\ UNCHANGED files
          /\ \/ Unused # {} /\ AllocFd(n)
             \/ Return("open", n, -1) /\ UNCHANGED open_files
    BY <1>9 DEF sys_open_handler
  <2>2. CASE Unused # {} /\ AllocFd(n)
    BY <1>1, <2>1, <2>2, OpenedTyped
  <2>3. CASE Return("open", n, -1) /\ UNCHANGED open_files
    BY <1>1, <1>2, <2>1, <2>3, ReturnTyped
  <2>4. QED  BY <2>1, <2>2, <2>3
<1>10. CASE sys_close_handler
  <2>1. PICK fd \in Passed :
          /\ \/ Return("close", fd, -1) /\ UNCHANGED open_files
             \/ /\ open_files' = [i \in DOMAIN open_files \ {fd - FD_FILE_BASE} |-> open_files[i]]
                /\ Return("close", fd, 0)
          /\ UNCHANGED files
    BY <1>10 DEF sys_close_handler
  <2>2. ResultTyped'
    BY <2>1, ReturnTyped
  <2>3. OpenTyped'
    BY <1>1, <1>2, <2>1, ClosedTyped
  <2>4. QED  BY <1>1, <2>1, <2>2, <2>3
<1>11. CASE sys_write_handler
  <2>1. PICK fd \in Passed, d \in DATA :
          /\ \/ /\ IsOpen(fd)
                /\ files' = Written(files, fd_to_name(fd), d)
                /\ Return("write", fd, ramfs_write(files, fd_to_name(fd), d))
             \/ Return("write", fd, -1) /\ UNCHANGED files
          /\ UNCHANGED open_files
    BY <1>11 DEF sys_write_handler
  <2>2. IsOpen(fd) => /\ Typed(Written(files, fd_to_name(fd), d))
                      /\ ramfs_write(files, fd_to_name(fd), d) \in Int
    BY <1>1, <1>3, WrittenTyped DEF OpenTyped, IsOpen, fd_to_name
  <2>3. QED  BY <1>1, <1>2, <2>1, <2>2, ReturnTyped
<1>12. CASE sys_read_handler
  <2>1. PICK fd \in Passed, len \in LENGTHS :
          /\ \/ /\ Readable(fd)
                /\ result' = [call |-> "read", on |-> fd,
                              value |-> Len(ReadData(files, fd_to_name(fd), len)),
                              data |-> ReadData(files, fd_to_name(fd), len)]
             \/ Return("read", fd, -1)
          /\ UNCHANGED <<files, open_files>>
    BY <1>12 DEF sys_read_handler
  <2>2. ResultTyped'
    BY <1>1, <2>1, ReadTyped, ReturnTyped
  <2>3. QED  BY <1>1, <1>2, <2>1, <2>2
<1>13. CASE UNCHANGED vars
  BY <1>1, <1>2, <1>13 DEF vars, ResultTyped
<1>14. QED
  BY <1>4, <1>5, <1>6, <1>7, <1>8, <1>9, <1>10, <1>11, <1>12, <1>13 DEF Next

(* The slots and the descriptors keep their types, a file is never longer   *)
(* than RAMFS_MAX_FILESIZE, and a descriptor names a file by a name that    *)
(* fits in a slot, whatever names the callers create.                       *)
THEOREM TypeCorrect == Spec => []TypeOK
<1>1. QED  BY InitTypeOK, NextTypeOK, PTL DEF Spec

-----------------------------------------------------------------------------
(* The store that the slots stand for.                                      *)

Put(s, n, d) == [m \in DOMAIN s \cup {n} |-> IF m = n THEN d ELSE s[m]]
Without(s, n) == [m \in DOMAIN s \ {n} |-> s[m]]

LEMMA StoreFacts ==
    ASSUME NEW fs, NEW n
    PROVE  /\ n \in DOMAIN StoreOf(fs) <=> ramfs_exists(fs, n)
           /\ ramfs_exists(fs, n) => StoreOf(fs)[n] = fs[find_file(fs, n)].data
           /\ StoreOf(fs) = [m \in DOMAIN StoreOf(fs) |-> StoreOf(fs)[m]]
<1>1. DOMAIN StoreOf(fs) = {fs[i].name : i \in {i \in Slots : fs[i].used}}
  BY DEF StoreOf
<1>2. n \in DOMAIN StoreOf(fs) <=> ramfs_exists(fs, n)
  BY <1>1, SearchFacts
<1>3. n \in DOMAIN StoreOf(fs) => StoreOf(fs)[n] = fs[find_file(fs, n)].data
  BY DEF StoreOf
<1>4. StoreOf(fs) = [m \in DOMAIN StoreOf(fs) |-> StoreOf(fs)[m]]
  BY DEF StoreOf
<1>5. QED  BY <1>2, <1>3, <1>4

(* A slot that is free, or that already holds n, comes to hold d as n.      *)
LEMMA StorePut ==
    ASSUME NEW fs, NEW gs, OneSlotEach(fs), OneSlotEach(gs), NEW k \in Slots, NEW n, NEW d,
           gs[k].used, gs[k].name = n, gs[k].data = d,
           \A i \in Slots \ {k} : gs[i] = fs[i],
           fs[k].used => fs[k].name = n
    PROVE  StoreOf(gs) = Put(StoreOf(fs), n, d)
<1>1. \A m : ramfs_exists(gs, m) <=> m = n \/ ramfs_exists(fs, m)
  BY SearchFacts
<1>2. DOMAIN StoreOf(gs) = DOMAIN StoreOf(fs) \cup {n}
  BY <1>1, StoreFacts
<1>3. StoreOf(gs)[n] = d
  BY <1>1, StoreFacts, FindOnly
<1>4. ASSUME NEW m \in DOMAIN StoreOf(fs), m # n PROVE StoreOf(gs)[m] = StoreOf(fs)[m]
  <2>1. PICK i \in Slots : fs[i].used /\ fs[i].name = m
    BY StoreFacts, SearchFacts
  <2>2. i # k /\ gs[i] = fs[i]
    BY <1>4, <2>1
  <2>3. find_file(fs, m) = i /\ find_file(gs, m) = i /\ ramfs_exists(gs, m) /\ ramfs_exists(fs, m)
    BY <2>1, <2>2, FindOnly
  <2>4. QED  BY <2>2, <2>3, StoreFacts
<1>5. StoreOf(gs) = [m \in DOMAIN StoreOf(gs) |-> StoreOf(gs)[m]]
  BY StoreFacts
<1>6. QED  BY <1>2, <1>3, <1>4, <1>5 DEF Put

(* The slot that holds n is given up.                                       *)
LEMMA StoreWithout ==
    ASSUME NEW fs, NEW gs, OneSlotEach(fs), OneSlotEach(gs), NEW k \in Slots, NEW n,
           fs[k].used, fs[k].name = n, ~ gs[k].used,
           \A i \in Slots \ {k} : gs[i] = fs[i]
    PROVE  StoreOf(gs) = Without(StoreOf(fs), n)
<1>1. \A m : ramfs_exists(gs, m) <=> m # n /\ ramfs_exists(fs, m)
  BY SearchFacts DEF OneSlotEach
<1>2. DOMAIN StoreOf(gs) = DOMAIN StoreOf(fs) \ {n}
  BY <1>1, StoreFacts
<1>3. ASSUME NEW m \in DOMAIN StoreOf(fs), m # n PROVE StoreOf(gs)[m] = StoreOf(fs)[m]
  <2>1. PICK i \in Slots : fs[i].used /\ fs[i].name = m
    BY StoreFacts, SearchFacts
  <2>2. i # k /\ gs[i] = fs[i]
    BY <1>3, <2>1
  <2>3. find_file(fs, m) = i /\ find_file(gs, m) = i /\ ramfs_exists(gs, m) /\ ramfs_exists(fs, m)
    BY <2>1, <2>2, FindOnly
  <2>4. QED  BY <2>2, <2>3, StoreFacts
<1>4. StoreOf(gs) = [m \in DOMAIN StoreOf(gs) |-> StoreOf(gs)[m]]
  BY StoreFacts
<1>5. QED  BY <1>2, <1>3, <1>4 DEF Without

(* There is a free slot exactly when there is room for another name.        *)
LEMMA RoomFacts ==
    ASSUME NEW fs, OneSlotEach(fs)
    PROVE  Cardinality(DOMAIN StoreOf(fs)) < RAMFS_MAX_FILES <=> FreeSlots(fs) # {}
<1> DEFINE U == {i \in Slots : fs[i].used}
           D == DOMAIN StoreOf(fs)
           f == [i \in U |-> fs[i].name]
<1>1. IsFiniteSet(Slots) /\ Cardinality(Slots) = RAMFS_MAX_FILES
  BY SlotsAssumption, FS_Interval DEF Slots
<1>2. /\ IsFiniteSet(U) /\ Cardinality(U) <= RAMFS_MAX_FILES
      /\ Cardinality(U) = RAMFS_MAX_FILES => U = Slots
  BY <1>1, FS_Subset
<1>3. D = {fs[i].name : i \in U}
  BY DEF StoreOf
<1>4. f \in Surjection(U, D) /\ f \in Injection(U, D)
  <2>1. f \in [U -> D] /\ \A n \in D : \E i \in U : f[i] = n
    BY <1>3
  <2>2. \A i, j \in U : f[i] = f[j] => i = j
    BY DEF OneSlotEach
  <2>3. QED  BY <2>1, <2>2 DEF Surjection, Injection, IsInjective
<1>5. Cardinality(D) = Cardinality(U)
  BY <1>2, <1>4, FS_Surjection
<1>6. Cardinality(U) \in Nat
  BY <1>2, FS_CardinalityType
<1>7. FreeSlots(fs) = {} <=> U = Slots
  BY DEF FreeSlots
<1> HIDE DEF U, D, f
<1>8. Cardinality(D) < RAMFS_MAX_FILES <=> FreeSlots(fs) # {}
  BY <1>1, <1>2, <1>5, <1>6, <1>7, SlotsAssumption
<1>9. QED  BY <1>8 DEF D

(* What the functions of ramfs do to the store.                             *)
LEMMA CreatedStore ==
    ASSUME NEW fs, Sound(fs), NEW n \in FitNames
    PROVE  /\ Sound(Created(fs, n))
           /\ ramfs_create(fs, n) # 0 => Created(fs, n) = fs
           /\ ramfs_create(fs, n) = 0 =>
                StoreOf(Created(fs, n)) = Put(StoreOf(fs), n, <<>>)
<1>1. n \in NAMES
  BY DEF FitNames
<1>2. CASE ramfs_create(fs, n) # 0
  BY <1>2 DEF Created
<1>3. CASE ramfs_create(fs, n) = 0
  <2> DEFINE gs == Created(fs, n)
             file == [used |-> TRUE, name |-> n, data |-> <<>>]
  <2>1. PICK k \in Slots : /\ ~ fs[k].used
                           /\ gs = [fs EXCEPT ![k] = file]
                           /\ OneSlotEach(gs)
    BY <1>3, CreatedSlots
  <2>2. gs[k] = file /\ \A i \in Slots \ {k} : gs[i] = fs[i]
    BY <2>1 DEF Sound, Typed
  <2>3. gs[k].used /\ gs[k].name = n /\ gs[k].data = <<>>
    BY <2>2
  <2>4. Typed(gs)
    BY <1>1, CreatedTyped DEF Sound
  <2> HIDE DEF gs
  <2>5. StoreOf(gs) = Put(StoreOf(fs), n, <<>>)
    <3>1. OneSlotEach(fs) /\ OneSlotEach(gs) /\ (fs[k].used => fs[k].name = n)
      BY <2>1 DEF Sound
    <3>2. QED  BY <2>2, <2>3, <3>1, StorePut
  <2>6. QED  BY <1>3, <2>1, <2>4, <2>5 DEF Sound, gs
<1>4. QED  BY <1>2, <1>3

LEMMA WrittenStore ==
    ASSUME NEW fs, Sound(fs), NEW n \in FitNames, NEW d \in Seq(BYTES)
    PROVE  /\ Sound(Written(fs, n, d))
           /\ ramfs_exists(fs, n) \/ FreeSlots(fs) # {} =>
                /\ ramfs_write(fs, n, d) = Len(Clip(d))
                /\ StoreOf(Written(fs, n, d)) = Put(StoreOf(fs), n, Clip(d))
           /\ ~ (ramfs_exists(fs, n) \/ FreeSlots(fs) # {}) =>
                ramfs_write(fs, n, d) = -1 /\ Written(fs, n, d) = fs
<1>1. Clip(d) \in Seq(BYTES) /\ Len(Clip(d)) \in Nat /\ Len(Clip(d)) <= RAMFS_MAX_FILESIZE
  BY ClipFacts
<1>2. Typed(fs) /\ OneSlotEach(fs)
  BY DEF Sound
<1> DEFINE made == Created(fs, n)
           c == Clip(d)
           gs == Written(fs, n, d)
<1>3. CASE ramfs_exists(fs, n)
  <2> DEFINE k == find_file(fs, n)
  <2>1. made = fs /\ ramfs_write(fs, n, d) = Len(c)
    BY <1>3 DEF Created, ramfs_create, ramfs_write
  <2>2. gs = Filled(fs, k, c)
    BY <1>1, <2>1, WrittenIsFilled
  <2>3. k \in Slots /\ fs[k].used /\ fs[k].name = n
    BY <1>3, SearchFacts
  <2> HIDE DEF made, c, gs, k
  <2>4. c \in Seq(BYTES) /\ Len(c) <= RAMFS_MAX_FILESIZE
    BY <1>1 DEF c
  <2>5. /\ gs[k].data = c /\ gs[k].used /\ gs[k].name = n
        /\ \A i \in Slots \ {k} : gs[i] = fs[i]
        /\ Sound(gs)
    BY <1>2, <2>2, <2>3, <2>4, FilledSlots, FilledSound
  <2>6. StoreOf(gs) = Put(StoreOf(fs), n, c)
    BY <1>2, <2>3, <2>5, StorePut DEF Sound
  <2>7. QED  BY <1>3, <2>1, <2>5, <2>6 DEF gs, c
<1>4. CASE ~ ramfs_exists(fs, n) /\ FreeSlots(fs) # {}
  <2>1. ramfs_create(fs, n) = 0 /\ ramfs_write(fs, n, d) = Len(c)
    BY <1>4 DEF ramfs_create, ramfs_write
  <2>2. PICK k \in Slots :
          /\ ~ fs[k].used
          /\ made = [fs EXCEPT ![k] = [used |-> TRUE, name |-> n, data |-> <<>>]]
          /\ OneSlotEach(made)
    BY <2>1, CreatedSlots
  <2>3. Sound(made)
    BY CreatedStore
  <2>4. /\ made[k] = [used |-> TRUE, name |-> n, data |-> <<>>]
        /\ \A i \in Slots \ {k} : made[i] = fs[i]
    BY <1>2, <2>2 DEF Typed
  <2>5. made[k].used /\ made[k].name = n
    BY <2>4
  <2>6. gs = Filled(made, find_file(made, n), c)
    BY <1>1, <2>1, WrittenIsFilled
  <2> HIDE DEF made, c, gs
  <2>7. find_file(made, n) = k
    BY <2>2, <2>5, FindOnly
  <2>8. c \in Seq(BYTES) /\ Len(c) <= RAMFS_MAX_FILESIZE
    BY <1>1 DEF c
  <2>9. /\ gs[k].data = c /\ gs[k].used = made[k].used /\ gs[k].name = made[k].name
        /\ \A i \in Slots \ {k} : gs[i] = made[i]
        /\ Sound(gs)
    BY <2>3, <2>6, <2>7, <2>8, FilledSlots, FilledSound DEF Sound
  <2>10. \A i \in Slots \ {k} : gs[i] = fs[i]
    BY <2>4, <2>9
  <2>11. OneSlotEach(gs)
    BY <2>9 DEF Sound
  <2>12. StoreOf(gs) = Put(StoreOf(fs), n, c)
    <3>1. OneSlotEach(fs) /\ (fs[k].used => fs[k].name = n)
      BY <1>2, <2>2
    <3>2. gs[k].used /\ gs[k].name = n /\ gs[k].data = c
      BY <2>5, <2>9
    <3>3. QED  BY <2>10, <2>11, <3>1, <3>2, StorePut
  <2>13. QED  BY <1>4, <2>1, <2>9, <2>12 DEF gs, c
<1>5. CASE ~ ramfs_exists(fs, n) /\ FreeSlots(fs) = {}
  BY <1>5 DEF ramfs_create, ramfs_write, Written
<1>6. QED  BY <1>3, <1>4, <1>5

LEMMA AppendedStore ==
    ASSUME NEW fs, Sound(fs), NEW n \in FitNames, NEW d \in Seq(BYTES)
    PROVE  /\ Sound(Appended(fs, n, d))
           /\ ~ ramfs_exists(fs, n) => ramfs_append(fs, n, d) = -1 /\ Appended(fs, n, d) = fs
           /\ ramfs_exists(fs, n) =>
                /\ StoreOf(fs)[n] \in Seq(BYTES)
                /\ ramfs_append(fs, n, d) = Len(Clip(StoreOf(fs)[n] \o d)) - Len(StoreOf(fs)[n])
                /\ ramfs_exists(Appended(fs, n, d), n)
                /\ StoreOf(Appended(fs, n, d)) = Put(StoreOf(fs), n, Clip(StoreOf(fs)[n] \o d))
<1>1. Typed(fs) /\ OneSlotEach(fs)
  BY DEF Sound
<1>2. CASE ~ ramfs_exists(fs, n)
  BY <1>2 DEF Appended, ramfs_append
<1>3. CASE ramfs_exists(fs, n)
  <2> DEFINE k == find_file(fs, n)
             c == Clip(StoreOf(fs)[n] \o d)
             gs == Appended(fs, n, d)
  <2>1. k \in Slots /\ fs[k].used /\ fs[k].name = n
    BY <1>3, SearchFacts
  <2>2. StoreOf(fs)[n] = fs[k].data /\ StoreOf(fs)[n] \in Seq(BYTES)
    <3>1. StoreOf(fs)[n] = fs[k].data
      BY <1>3, StoreFacts
    <3>2. fs[k].data \in Seq(BYTES)
      BY <1>1, <2>1 DEF Typed, File
    <3>3. QED  BY <3>1, <3>2
  <2>3. StoreOf(fs)[n] \o d \in Seq(BYTES)
    BY <2>2, ConcatProperties
  <2>4. c \in Seq(BYTES) /\ Len(c) <= RAMFS_MAX_FILESIZE
    BY <2>3, ClipFacts
  <2>5. Appended_Result(fs, n, d) = c
    BY <2>2 DEF Appended_Result
  <2>6. gs = Filled(fs, k, c)
    BY <1>3, <2>5 DEF Appended, Filled
  <2>7. ramfs_append(fs, n, d) = Len(c) - Len(StoreOf(fs)[n])
    BY <1>3, <2>2, <2>5 DEF ramfs_append
  <2> HIDE DEF k, c, gs
  <2>8. /\ gs[k].data = c /\ gs[k].used /\ gs[k].name = n
        /\ \A i \in Slots \ {k} : gs[i] = fs[i]
        /\ Sound(gs)
    BY <1>1, <2>1, <2>4, <2>6, FilledSlots, FilledSound
  <2>9. StoreOf(gs) = Put(StoreOf(fs), n, c) /\ ramfs_exists(gs, n)
    BY <1>1, <2>1, <2>8, StorePut, SearchFacts DEF Sound
  <2>10. QED  BY <1>3, <2>2, <2>7, <2>8, <2>9 DEF gs, c
<1>4. QED  BY <1>2, <1>3

LEMMA DeletedStore ==
    ASSUME NEW fs, Sound(fs), NEW n
    PROVE  /\ Sound(Deleted(fs, n))
           /\ ~ ramfs_exists(fs, n) => ramfs_delete(fs, n) = -1 /\ Deleted(fs, n) = fs
           /\ ramfs_exists(fs, n) =>
                /\ ramfs_delete(fs, n) = 0
                /\ StoreOf(Deleted(fs, n)) = Without(StoreOf(fs), n)
<1>1. Typed(fs) /\ OneSlotEach(fs)
  BY DEF Sound
<1>2. CASE ~ ramfs_exists(fs, n)
  BY <1>2 DEF Deleted, ramfs_delete
<1>3. CASE ramfs_exists(fs, n)
  <2> DEFINE k == find_file(fs, n)
             gs == Deleted(fs, n)
  <2>1. k \in Slots /\ fs[k].used /\ fs[k].name = n
    BY <1>3, SearchFacts
  <2>2. gs = [fs EXCEPT ![k] = FreeSlot] /\ Typed(gs)
    BY <1>1, <1>3, DeletedTyped DEF Deleted
  <2>3. gs[k] = FreeSlot /\ \A i \in Slots \ {k} : gs[i] = fs[i]
    BY <1>1, <2>1, <2>2 DEF Typed
  <2>4. ~ gs[k].used
    BY <2>3 DEF FreeSlot
  <2> HIDE DEF k, gs
  <2>5. OneSlotEach(gs)
    BY <1>1, <2>1, <2>3, <2>4 DEF OneSlotEach
  <2>6. StoreOf(gs) = Without(StoreOf(fs), n)
    BY <1>1, <2>1, <2>3, <2>4, <2>5, StoreWithout
  <2>7. ramfs_delete(fs, n) = 0
    BY <1>3 DEF ramfs_delete
  <2>8. QED  BY <1>3, <2>2, <2>5, <2>6, <2>7 DEF gs, Sound
<1>4. QED  BY <1>2, <1>3

-----------------------------------------------------------------------------
(* The open files that the table stands for.                                *)

LEMMA OpenFacts ==
    ASSUME NEW o, DOMAIN o \subseteq Indices, NEW fd \in Int
    PROVE  /\ fd \in DOMAIN OpenOf(o) <=> fd - FD_FILE_BASE \in DOMAIN o
           /\ fd \in DOMAIN OpenOf(o) => OpenOf(o)[fd] = o[fd - FD_FILE_BASE]
           /\ DOMAIN OpenOf(o) \subseteq Int
           /\ OpenOf(o) = [g \in DOMAIN OpenOf(o) |-> OpenOf(o)[g]]
<1>1. DOMAIN o \subseteq Int
  BY DEF Indices
<1>2. DOMAIN OpenOf(o) = {i + FD_FILE_BASE : i \in DOMAIN o}
  BY DEF OpenOf
<1>3. fd \in DOMAIN OpenOf(o) <=> fd - FD_FILE_BASE \in DOMAIN o
  <2>1. fd \in {i + FD_FILE_BASE : i \in DOMAIN o} <=> fd - FD_FILE_BASE \in DOMAIN o
    BY <1>1 DEF FD_FILE_BASE
  <2>2. QED  BY <1>2, <2>1
<1>4. fd \in DOMAIN OpenOf(o) => OpenOf(o)[fd] = o[fd - FD_FILE_BASE]
  BY <1>2 DEF OpenOf
<1>5. DOMAIN OpenOf(o) \subseteq Int
  BY <1>1, <1>2 DEF FD_FILE_BASE
<1>6. OpenOf(o) = [g \in DOMAIN OpenOf(o) |-> OpenOf(o)[g]]
  BY DEF OpenOf
<1>7. QED  BY <1>3, <1>4, <1>5, <1>6

LEMMA OpenPut ==
    ASSUME NEW o, DOMAIN o \subseteq Indices, NEW i \in Indices, NEW n, NEW p,
           p = [j \in DOMAIN o \cup {i} |-> IF j = i THEN n ELSE o[j]]
    PROVE  OpenOf(p) = Put(OpenOf(o), i + FD_FILE_BASE, n)
<1>1. /\ DOMAIN p \subseteq Indices /\ DOMAIN p = DOMAIN o \cup {i}
      /\ p[i] = n /\ \A j \in DOMAIN o : j # i => p[j] = o[j]
  OBVIOUS
<1>2. i \in Int /\ i + FD_FILE_BASE \in Int /\ (i + FD_FILE_BASE) - FD_FILE_BASE = i
  BY DEF Indices, FD_FILE_BASE
<1>3. ASSUME NEW fd \in Int
      PROVE  /\ fd \in DOMAIN OpenOf(p) <=> fd \in DOMAIN OpenOf(o) \cup {i + FD_FILE_BASE}
             /\ fd \in DOMAIN OpenOf(p) =>
                 OpenOf(p)[fd] = IF fd = i + FD_FILE_BASE THEN n ELSE OpenOf(o)[fd]
  <2>1. fd - FD_FILE_BASE = i <=> fd = i + FD_FILE_BASE
    BY <1>2 DEF FD_FILE_BASE
  <2>2. fd \in DOMAIN OpenOf(p) <=> fd - FD_FILE_BASE \in DOMAIN p
    BY <1>1, OpenFacts
  <2>3. fd \in DOMAIN OpenOf(o) <=> fd - FD_FILE_BASE \in DOMAIN o
    BY OpenFacts
  <2>4. fd \in DOMAIN OpenOf(p) => OpenOf(p)[fd] = p[fd - FD_FILE_BASE]
    BY <1>1, OpenFacts
  <2>5. fd \in DOMAIN OpenOf(o) => OpenOf(o)[fd] = o[fd - FD_FILE_BASE]
    BY OpenFacts
  <2>6. QED  BY <1>1, <2>1, <2>2, <2>3, <2>4, <2>5
<1>4. DOMAIN OpenOf(p) \subseteq Int /\ DOMAIN OpenOf(o) \subseteq Int
  BY <1>1, <1>2, OpenFacts
<1>5. DOMAIN OpenOf(p) = DOMAIN OpenOf(o) \cup {i + FD_FILE_BASE}
  BY <1>2, <1>3, <1>4
<1>6. OpenOf(p) = [g \in DOMAIN OpenOf(p) |-> OpenOf(p)[g]]
  BY <1>1, <1>2, OpenFacts
<1>7. \A g \in DOMAIN OpenOf(p) :
        OpenOf(p)[g] = IF g = i + FD_FILE_BASE THEN n ELSE OpenOf(o)[g]
  BY <1>3, <1>4
<1>8. QED  BY <1>5, <1>6, <1>7 DEF Put

LEMMA OpenWithout ==
    ASSUME NEW o, DOMAIN o \subseteq Indices, NEW fd \in Int, NEW p,
           p = [j \in DOMAIN o \ {fd - FD_FILE_BASE} |-> o[j]]
    PROVE  OpenOf(p) = Without(OpenOf(o), fd)
<1>1. DOMAIN p \subseteq Indices /\ DOMAIN p = DOMAIN o \ {fd - FD_FILE_BASE}
  OBVIOUS
<1>2. \A j \in DOMAIN p : p[j] = o[j]
  OBVIOUS
<1>3. ASSUME NEW g \in Int
      PROVE  /\ g \in DOMAIN OpenOf(p) <=> g \in DOMAIN OpenOf(o) /\ g # fd
             /\ g \in DOMAIN OpenOf(p) => OpenOf(p)[g] = OpenOf(o)[g]
  <2>1. g - FD_FILE_BASE = fd - FD_FILE_BASE <=> g = fd
    BY DEF FD_FILE_BASE
  <2>2. g \in DOMAIN OpenOf(p) <=> g - FD_FILE_BASE \in DOMAIN p
    BY <1>1, OpenFacts
  <2>3. g \in DOMAIN OpenOf(o) <=> g - FD_FILE_BASE \in DOMAIN o
    BY OpenFacts
  <2>4. g \in DOMAIN OpenOf(p) => OpenOf(p)[g] = p[g - FD_FILE_BASE]
    BY <1>1, OpenFacts
  <2>5. g \in DOMAIN OpenOf(o) => OpenOf(o)[g] = o[g - FD_FILE_BASE]
    BY OpenFacts
  <2>6. QED  BY <1>1, <1>2, <2>1, <2>2, <2>3, <2>4, <2>5
<1>4. DOMAIN OpenOf(p) \subseteq Int /\ DOMAIN OpenOf(o) \subseteq Int
  BY <1>1, OpenFacts
<1>5. DOMAIN OpenOf(p) = DOMAIN OpenOf(o) \ {fd}
  BY <1>3, <1>4
<1>6. OpenOf(p) = [g \in DOMAIN OpenOf(p) |-> OpenOf(p)[g]]
  BY <1>1, OpenFacts
<1>7. \A g \in DOMAIN OpenOf(p) : OpenOf(p)[g] = OpenOf(o)[g]
  BY <1>3, <1>4
<1>8. QED  BY <1>5, <1>6, <1>7 DEF Without

-----------------------------------------------------------------------------
(* Each call does what FileSystem says of it.                               *)

\* Creates names that fit only.
CreatesFitting == CREATED \subseteq FitNames

LEMMA Terms ==
    /\ \A d : Abstract!Clipped(d) = Clip(d)
    /\ \A n, d : Abstract!Stored(n, d) = Put(StoreOf(files), n, d)
    /\ \A call, on, value : Abstract!Returns(call, on, value) = Return(call, on, value)
    /\ OneSlotEach(files) => (Abstract!HasRoom <=> FreeSlots(files) # {})
    /\ \A n : n \in DOMAIN StoreOf(files) <=> ramfs_exists(files, n)
<1>1. \A d : Abstract!Clipped(d) = Clip(d)
  BY DEF Abstract!Clipped, Clip
<1>2. \A n, d : Abstract!Stored(n, d) = Put(StoreOf(files), n, d)
  BY DEF Abstract!Stored, Put
<1>3. \A call, on, value : Abstract!Returns(call, on, value) = Return(call, on, value)
  BY DEF Abstract!Returns, Return
<1>4. OneSlotEach(files) => (Abstract!HasRoom <=> FreeSlots(files) # {})
  <2>1. Abstract!Cardinality(DOMAIN StoreOf(files)) = Cardinality(DOMAIN StoreOf(files))
    BY DEF Abstract!Cardinality, Cardinality
  <2>2. QED  BY <2>1, RoomFacts DEF Abstract!HasRoom
<1>5. \A n : n \in DOMAIN StoreOf(files) <=> ramfs_exists(files, n)
  BY StoreFacts
<1>6. QED  BY <1>1, <1>2, <1>3, <1>4, <1>5

LEMMA CreateImplements ==
    ASSUME Sound(files), NEW n \in FitNames, files' = Created(files, n),
           Return("create", n, ramfs_create(files, n)), UNCHANGED open_files
    PROVE  Sound(files') /\ Abstract!Create(n)
<1>1. OpenOf(open_files)' = OpenOf(open_files)
  OBVIOUS
<1>2. OneSlotEach(files)
  BY DEF Sound
<1>3. Sound(files')
  BY CreatedStore
<1>4. CASE ramfs_exists(files, n)
  <2>1. ramfs_create(files, n) = -1 /\ StoreOf(files)' = StoreOf(files)
    BY <1>4, CreatedStore DEF ramfs_create
  <2>2. QED  BY <1>1, <1>3, <1>4, <2>1, Terms DEF Abstract!Create
<1>5. CASE ~ ramfs_exists(files, n) /\ FreeSlots(files) = {}
  <2>1. ramfs_create(files, n) = -2 /\ StoreOf(files)' = StoreOf(files)
    BY <1>5, CreatedStore DEF ramfs_create
  <2>2. QED  BY <1>1, <1>2, <1>3, <1>5, <2>1, Terms DEF Abstract!Create
<1>6. CASE ~ ramfs_exists(files, n) /\ FreeSlots(files) # {}
  <2>1. ramfs_create(files, n) = 0 /\ StoreOf(files)' = Put(StoreOf(files), n, <<>>)
    BY <1>6, CreatedStore DEF ramfs_create
  <2>2. QED  BY <1>1, <1>2, <1>3, <1>6, <2>1, Terms DEF Abstract!Create
<1>7. QED  BY <1>4, <1>5, <1>6

LEMMA WriteImplements ==
    ASSUME Sound(files), NEW on, NEW n \in FitNames, NEW d \in Seq(BYTES),
           files' = Written(files, n, d),
           Return("write", on, ramfs_write(files, n, d)), UNCHANGED open_files
    PROVE  Sound(files') /\ Abstract!Write(on, n, d)
<1>1. OpenOf(open_files)' = OpenOf(open_files)
  OBVIOUS
<1>2. OneSlotEach(files)
  BY DEF Sound
<1>3. Sound(files')
  BY WrittenStore
<1>4. CASE ramfs_exists(files, n) \/ FreeSlots(files) # {}
  <2>1. /\ ramfs_write(files, n, d) = Len(Clip(d))
        /\ StoreOf(files)' = Put(StoreOf(files), n, Clip(d))
    BY <1>4, WrittenStore
  <2>2. QED  BY <1>1, <1>2, <1>3, <1>4, <2>1, Terms DEF Abstract!Write
<1>5. CASE ~ (ramfs_exists(files, n) \/ FreeSlots(files) # {})
  <2>1. ramfs_write(files, n, d) = -1 /\ StoreOf(files)' = StoreOf(files)
    BY <1>5, WrittenStore
  <2>2. QED  BY <1>1, <1>2, <1>3, <1>5, <2>1, Terms DEF Abstract!Write
<1>6. QED  BY <1>4, <1>5

LEMMA DeleteImplements ==
    ASSUME Sound(files), NEW n, files' = Deleted(files, n),
           Return("delete", n, ramfs_delete(files, n)), UNCHANGED open_files
    PROVE  Sound(files') /\ Abstract!Delete(n)
<1>1. OpenOf(open_files)' = OpenOf(open_files)
  OBVIOUS
<1>2. Sound(files')
  BY DeletedStore
<1>3. CASE ramfs_exists(files, n)
  <2>1. ramfs_delete(files, n) = 0 /\ StoreOf(files)' = Without(StoreOf(files), n)
    BY <1>3, DeletedStore
  <2>2. QED  BY <1>1, <1>2, <1>3, <2>1, Terms DEF Abstract!Delete, Without
<1>4. CASE ~ ramfs_exists(files, n)
  <2>1. ramfs_delete(files, n) = -1 /\ StoreOf(files)' = StoreOf(files)
    BY <1>4, DeletedStore
  <2>2. QED  BY <1>1, <1>2, <1>4, <2>1, Terms DEF Abstract!Delete
<1>5. QED  BY <1>3, <1>4

LEMMA PutTwice ==
    ASSUME NEW s, NEW n, NEW c, NEW d
    PROVE  Put(Put(s, n, c), n, d) = Put(s, n, d)
BY DEF Put

LEMMA PutValue ==
    ASSUME NEW s, NEW n, NEW c
    PROVE  Put(s, n, c)[n] = c
BY DEF Put

LEMMA AddLineImplements ==
    ASSUME Sound(files), NEW n \in FitNames, NEW d \in Seq(BYTES),
           files' = Appended(Appended(files, n, d), n, <<NEWLINE>>),
           Return("append", n, ramfs_append(files, n, d)), UNCHANGED open_files
    PROVE  Sound(files') /\ Abstract!AddLine(n, d)
<1> DEFINE line == <<NEWLINE>>
           text == Appended(files, n, d)
           old == StoreOf(files)[n]
<1>1. OpenOf(open_files)' = OpenOf(open_files)
  OBVIOUS
<1>2. line \in Seq(BYTES)
  BY InputsAssumption
<1> HIDE DEF line
<1>3. Sound(text)
  BY AppendedStore
<1>4. Sound(files')
  BY <1>2, <1>3, AppendedStore DEF line
<1>5. CASE ~ ramfs_exists(files, n)
  <2>1. text = files /\ ramfs_append(files, n, d) = -1
    BY <1>5, AppendedStore
  <2>2. Appended(files, n, line) = files
    BY <1>2, <1>5, AppendedStore
  <2>3. StoreOf(files)' = StoreOf(files)
    BY <2>1, <2>2 DEF line
  <2>4. QED  BY <1>1, <1>4, <1>5, <2>1, <2>3, Terms DEF Abstract!AddLine
<1>6. CASE ramfs_exists(files, n)
  <2>1. /\ old \in Seq(BYTES)
        /\ ramfs_append(files, n, d) = Len(Clip(old \o d)) - Len(old)
        /\ ramfs_exists(text, n)
        /\ StoreOf(text) = Put(StoreOf(files), n, Clip(old \o d))
    BY <1>6, AppendedStore
  <2> HIDE DEF text, old
  <2>2. StoreOf(text)[n] = Clip(old \o d)
    <3>1. Put(StoreOf(files), n, Clip(old \o d))[n] = Clip(old \o d)
      BY PutValue
    <3>2. QED  BY <2>1, <3>1
  <2>3. StoreOf(Appended(text, n, line)) = Put(StoreOf(text), n, Clip(Clip(old \o d) \o line))
    <3>1. StoreOf(Appended(text, n, line)) = Put(StoreOf(text), n, Clip(StoreOf(text)[n] \o line))
      BY <1>2, <1>3, <2>1, AppendedStore
    <3>2. QED  BY <2>2, <3>1
  <2>4. old \o d \in Seq(BYTES)
    BY <2>1, ConcatProperties
  <2>5. Clip(Clip(old \o d) \o line) = Clip((old \o d) \o line)
    BY <1>2, <2>4, ClipTwice
  <2>6. StoreOf(files)' = Put(StoreOf(files), n, Clip((old \o d) \o line))
    <3>1. files' = Appended(text, n, line)
      BY DEF text, line
    <3>2. StoreOf(files)' = StoreOf(Appended(text, n, line))
      BY <3>1
    <3>3. QED  BY <2>1, <2>3, <2>5, <3>2, PutTwice
  <2>7. QED  BY <1>1, <1>4, <1>6, <2>1, <2>6, Terms DEF Abstract!AddLine, old, line
<1>7. QED  BY <1>5, <1>6

LEMMA OpenImplements ==
    ASSUME Sound(files), OpenTyped, sys_open_handler
    PROVE  Sound(files') /\ \E n \in NAMES : Abstract!Open(n)
<1>1. PICK n \in NAMES :
        /\ UNCHANGED files
        /\ \/ ramfs_exists(files, n) /\ Unused # {} /\ AllocFd(n)
           \/ /\ ~ ramfs_exists(files, n) \/ Unused = {}
              /\ Return("open", n, -1) /\ UNCHANGED open_files
  BY DEF sys_open_handler
<1>2. Sound(files') /\ StoreOf(files)' = StoreOf(files)
  BY <1>1
<1>3. DOMAIN open_files \subseteq Indices
  BY DEF OpenTyped
<1>4. CASE ramfs_exists(files, n) /\ Unused # {} /\ AllocFd(n)
  <2> DEFINE i == First(Unused)
             fd == i + FD_FILE_BASE
  <2>1. i \in Indices /\ i \notin DOMAIN open_files
    BY <1>4, NewDescriptor
  <2>2. n \in FitNames
    BY <1>4, SearchFacts DEF Sound, OneSlotEach
  <2>3. STORED[n] = n
    BY <2>2 DEF FitNames
  <2>4. /\ open_files' = [j \in DOMAIN open_files \cup {i} |->
                            IF j = i THEN n ELSE open_files[j]]
        /\ Return("open", n, fd)
    BY <1>4, <2>3 DEF AllocFd
  <2> HIDE DEF i
  <2>5. OpenOf(open_files)' = Put(OpenOf(open_files), fd, n)
    <3>1. \A p : p = [j \in DOMAIN open_files \cup {i} |-> IF j = i THEN n ELSE open_files[j]]
                    => OpenOf(p) = Put(OpenOf(open_files), fd, n)
      BY <1>3, <2>1, OpenPut
    <3>2. OpenOf(open_files') = Put(OpenOf(open_files), fd, n)
      BY <2>4, <3>1
    <3>3. QED  BY <3>2
  <2>6. fd \in {j + FD_FILE_BASE : j \in Indices}
    BY <2>1
  <2>7. fd \notin DOMAIN OpenOf(open_files)
    <3>1. fd \in Int /\ fd - FD_FILE_BASE = i
      BY <2>1 DEF Indices, FD_FILE_BASE
    <3>2. QED  BY <1>3, <2>1, <3>1, OpenFacts
  <2> HIDE DEF fd
  <2>8. Abstract!Open(n)
    <3>1. StoreOf(files)' = StoreOf(files) /\ n \in DOMAIN StoreOf(files)
      BY <1>2, <1>4, Terms
    <3>2. Abstract!Returns("open", n, fd)
      BY <2>4, Terms
    <3>3. OpenOf(open_files)' = [g \in DOMAIN OpenOf(open_files) \cup {fd} |->
                                   IF g = fd THEN n ELSE OpenOf(open_files)[g]]
      BY <2>5 DEF Put
    <3>4. fd \in {j + FD_FILE_BASE : j \in Indices} \ DOMAIN OpenOf(open_files)
      BY <2>6, <2>7
    <3>5. QED  BY <3>1, <3>2, <3>3, <3>4 DEF Abstract!Open
  <2>9. QED  BY <1>2, <2>8
<1>5. CASE /\ ~ ramfs_exists(files, n) \/ Unused = {}
           /\ Return("open", n, -1) /\ UNCHANGED open_files
  <2>1. Unused = {} => {j + FD_FILE_BASE : j \in Indices} \subseteq DOMAIN OpenOf(open_files)
    <3>1. ASSUME Unused = {}, NEW j \in Indices
          PROVE  j + FD_FILE_BASE \in DOMAIN OpenOf(open_files)
      <4>1. j + FD_FILE_BASE \in Int /\ (j + FD_FILE_BASE) - FD_FILE_BASE = j
        BY DEF Indices, FD_FILE_BASE
      <4>2. j \in DOMAIN open_files
        BY <3>1 DEF Unused
      <4>3. QED  BY <1>3, <4>1, <4>2, OpenFacts
    <3>2. QED  BY <3>1
  <2>2. OpenOf(open_files)' = OpenOf(open_files)
    BY <1>5
  <2>3. Abstract!Open(n)
    BY <1>2, <1>5, <2>1, <2>2, Terms DEF Abstract!Open
  <2>4. QED  BY <1>2, <2>3
<1>6. QED  BY <1>1, <1>4, <1>5

LEMMA CloseImplements ==
    ASSUME Sound(files), OpenTyped, NEW fd \in Passed,
           \/ /\ fd < FD_FILE_BASE
              /\ Return("close", fd, -1) /\ UNCHANGED open_files
           \/ /\ fd >= FD_FILE_BASE
              /\ open_files' = [i \in DOMAIN open_files \ {fd - FD_FILE_BASE} |-> open_files[i]]
              /\ Return("close", fd, 0),
           UNCHANGED files
    PROVE  Sound(files') /\ Abstract!Close(fd)
<1>1. Sound(files') /\ StoreOf(files)' = StoreOf(files)
  OBVIOUS
<1>2. DOMAIN open_files \subseteq Indices
  BY DEF OpenTyped
<1>3. fd \in Int /\ FD_FILE_BASE \in Int
  BY OpenFilesAssumption DEF Passed, FD_FILE_BASE
<1>4. CASE /\ fd < FD_FILE_BASE
           /\ Return("close", fd, -1) /\ UNCHANGED open_files
  <2>1. fd \in 0 .. FD_FILE_BASE - 1
    BY <1>4 DEF Passed, FD_FILE_BASE
  <2>2. fd \notin DOMAIN OpenOf(open_files)
    <3>1. fd - FD_FILE_BASE \notin Indices
      BY <1>3, <1>4 DEF Indices, FD_FILE_BASE
    <3>2. QED  BY <1>2, <1>3, <3>1, OpenFacts
  <2>3. OpenOf(open_files) = [g \in DOMAIN OpenOf(open_files) \ {fd} |-> OpenOf(open_files)[g]]
    <3>1. OpenOf(open_files) = [g \in DOMAIN OpenOf(open_files) |-> OpenOf(open_files)[g]]
      BY <1>2, <1>3, OpenFacts
    <3>2. DOMAIN OpenOf(open_files) \ {fd} = DOMAIN OpenOf(open_files)
      BY <2>2
    <3>3. QED  BY <3>1, <3>2, Zenon
  <2>4. OpenOf(open_files)' = OpenOf(open_files)
    BY <1>4
  <2>5. Abstract!Close(fd)
    BY <1>1, <1>4, <2>1, <2>3, <2>4, Terms DEF Abstract!Close
  <2>6. QED  BY <1>1, <2>5
<1>5. CASE /\ fd >= FD_FILE_BASE
           /\ open_files' = [i \in DOMAIN open_files \ {fd - FD_FILE_BASE} |-> open_files[i]]
           /\ Return("close", fd, 0)
  <2>1. fd \notin 0 .. FD_FILE_BASE - 1
    BY <1>3, <1>5 DEF FD_FILE_BASE
  <2>2. \A p : p = [i \in DOMAIN open_files \ {fd - FD_FILE_BASE} |-> open_files[i]]
                 => OpenOf(p) = Without(OpenOf(open_files), fd)
    BY <1>2, <1>3, OpenWithout
  <2>3. OpenOf(open_files') = Without(OpenOf(open_files), fd)
    BY <1>5, <2>2
  <2>4. OpenOf(open_files)' = [g \in DOMAIN OpenOf(open_files) \ {fd} |-> OpenOf(open_files)[g]]
    BY <2>3 DEF Without
  <2>5. Abstract!Close(fd)
    BY <1>1, <1>5, <2>1, <2>4, Terms DEF Abstract!Close
  <2>6. QED  BY <1>1, <2>5
<1>6. QED  BY <1>4, <1>5

\* A descriptor that callers pass is open, or is not, in both views.
LEMMA PassedFacts ==
    ASSUME OpenTyped, NEW fd \in Passed
    PROVE  /\ fd \in DOMAIN OpenOf(open_files) <=> IsOpen(fd)
           /\ IsOpen(fd) => /\ OpenOf(open_files)[fd] = fd_to_name(fd)
                            /\ fd_to_name(fd) \in FitNames
           /\ fd \in {i + FD_FILE_BASE : i \in Indices} \cup (0 .. FD_FILE_BASE - 1)
                     \cup {FD_FILE_BASE + MAX_OPEN_FILES}
<1>1. fd \in Int /\ DOMAIN open_files \subseteq Indices
  BY OpenFilesAssumption DEF Passed, FD_FILE_BASE, OpenTyped
<1>2. /\ fd \in DOMAIN OpenOf(open_files) <=> IsOpen(fd)
      /\ IsOpen(fd) => OpenOf(open_files)[fd] = fd_to_name(fd)
  BY <1>1, OpenFacts DEF IsOpen, fd_to_name
<1>3. IsOpen(fd) => fd_to_name(fd) \in FitNames
  BY DEF IsOpen, fd_to_name, OpenTyped
<1>4. fd \in {i + FD_FILE_BASE : i \in Indices} \cup (0 .. FD_FILE_BASE - 1)
            \cup {FD_FILE_BASE + MAX_OPEN_FILES}
  <2>1. CASE fd < FD_FILE_BASE
    BY <2>1 DEF Passed, FD_FILE_BASE
  <2>2. CASE fd >= FD_FILE_BASE /\ fd # FD_FILE_BASE + MAX_OPEN_FILES
    <3>1. fd - FD_FILE_BASE \in Indices /\ (fd - FD_FILE_BASE) + FD_FILE_BASE = fd
      BY <2>2, OpenFilesAssumption DEF Passed, FD_FILE_BASE, Indices
    <3>2. QED  BY <3>1
  <2>3. QED  BY <1>1, <2>1, <2>2 DEF FD_FILE_BASE
<1>5. QED  BY <1>2, <1>3, <1>4

LEMMA ReadImplements ==
    ASSUME Typed(files), OpenTyped, NEW fd \in Passed, NEW len \in LENGTHS, Readable(fd),
           result' = [call |-> "read", on |-> fd,
                      value |-> Len(ReadData(files, fd_to_name(fd), len)),
                      data |-> ReadData(files, fd_to_name(fd), len)],
           UNCHANGED <<files, open_files>>
    PROVE  Abstract!Read(fd, len)
<1> DEFINE n == fd_to_name(fd)
           d == StoreOf(files)[n]
<1>1. StoreOf(files)' = StoreOf(files) /\ OpenOf(open_files)' = OpenOf(open_files)
  OBVIOUS
<1>2. IsOpen(fd) /\ ramfs_exists(files, n) /\ len \in Nat
  BY InputsAssumption DEF Readable
<1>3. fd \in DOMAIN OpenOf(open_files) /\ OpenOf(open_files)[fd] = n
  BY <1>2, PassedFacts
<1>4. d = files[find_file(files, n)].data /\ n \in DOMAIN StoreOf(files)
  BY <1>2, StoreFacts
<1>5. ReadData(files, n, len) = IF len < Len(d) THEN SubSeq(d, 1, len) ELSE d
  <2>1. ReadData(files, n, len) =
          IF len < Len(files[find_file(files, n)].data)
          THEN SubSeq(files[find_file(files, n)].data, 1, len)
          ELSE files[find_file(files, n)].data
    BY <1>2, ReadFacts
  <2>2. QED  BY <1>4, <2>1
<1> HIDE DEF d
<1>6. result' = [call |-> "read", on |-> fd,
                 value |-> Len(IF len < Len(d) THEN SubSeq(d, 1, len) ELSE d),
                 data |-> IF len < Len(d) THEN SubSeq(d, 1, len) ELSE d]
  BY <1>5
<1>7. QED  BY <1>1, <1>3, <1>4, <1>6 DEF Abstract!Read, d

-----------------------------------------------------------------------------
(* Every step keeps the slots sound, and is a step of FileSystem.           *)

LEMMA InitImplements == Init => Sound(files) /\ Abstract!Init
<1> SUFFICES ASSUME Init PROVE Sound(files) /\ Abstract!Init
  OBVIOUS
<1>1. \A i \in Slots : ~ files[i].used
  BY DEF Init, FreeSlot
<1>2. Sound(files)
  BY <1>1, InitTypeOK, TypeParts DEF Sound, OneSlotEach
<1>3. DOMAIN StoreOf(files) = {}
  <2>1. \A n : ~ ramfs_exists(files, n)
    BY <1>1, SearchFacts
  <2>2. \A n : n \notin DOMAIN StoreOf(files)
    BY <2>1, StoreFacts
  <2>3. QED  BY <2>2
<1>4. StoreOf(files) = [n \in {} |-> <<>>]
  BY <1>3 DEF StoreOf
<1>5. DOMAIN open_files = {}
  BY DEF Init
<1>6. OpenOf(open_files) = [f \in {} |-> CHOOSE n \in NAMES : TRUE]
  BY <1>5 DEF OpenOf
<1>7. QED  BY <1>2, <1>4, <1>6 DEF Init, Abstract!Init

LEMMA NextImplements ==
    ASSUME CreatesFitting, IInv, [Next]_vars
    PROVE  OneSlotEach(files') /\ [Abstract!Next]_(Abstract!vars)
<1>1. Typed(files) /\ OpenTyped /\ Sound(files)
  BY TypeParts DEF IInv, Sound
<1>2. FitNames \subseteq NAMES /\ DATA \subseteq Seq(BYTES) /\ CREATED \subseteq FitNames
  BY InputsAssumption DEF FitNames, CreatesFitting
<1>3. ASSUME Sound(files'), Abstract!Next
      PROVE  OneSlotEach(files') /\ [Abstract!Next]_(Abstract!vars)
  BY <1>3 DEF Sound
<1>4. CASE cmd_touch \/ sys_create_handler
  <2>1. PICK n \in CREATED : /\ files' = Created(files, n)
                             /\ Return("create", n, ramfs_create(files, n))
                             /\ UNCHANGED open_files
    BY <1>4 DEF cmd_touch, sys_create_handler
  <2>2. Sound(files') /\ Abstract!Create(n)
    BY <1>1, <1>2, <2>1, CreateImplements
  <2>3. Abstract!Next
    BY <1>2, <2>2 DEF Abstract!Next
  <2>4. QED  BY <1>3, <2>2, <2>3
<1>5. CASE cmd_write
  <2>1. PICK n \in FitNames, d \in DATA : /\ files' = Written(files, n, d)
                                          /\ Return("write", n, ramfs_write(files, n, d))
                                          /\ UNCHANGED open_files
    BY <1>5 DEF cmd_write
  <2>2. Sound(files') /\ Abstract!Write(n, n, d)
    BY <1>1, <1>2, <2>1, WriteImplements
  <2>3. Abstract!Next
    BY <1>2, <2>2 DEF Abstract!Next
  <2>4. QED  BY <1>3, <2>2, <2>3
<1>6. CASE cmd_append
  <2>1. PICK n \in FitNames, d \in DATA :
          /\ files' = Appended(Appended(files, n, d), n, <<NEWLINE>>)
          /\ Return("append", n, ramfs_append(files, n, d))
          /\ UNCHANGED open_files
    BY <1>6 DEF cmd_append
  <2>2. Sound(files') /\ Abstract!AddLine(n, d)
    BY <1>1, <1>2, <2>1, AddLineImplements
  <2>3. Abstract!Next
    BY <1>2, <2>2 DEF Abstract!Next
  <2>4. QED  BY <1>3, <2>2, <2>3
<1>7. CASE cmd_rm \/ sys_delete_handler
  <2>1. PICK n \in NAMES : /\ files' = Deleted(files, n)
                           /\ Return("delete", n, ramfs_delete(files, n))
                           /\ UNCHANGED open_files
    BY <1>7 DEF cmd_rm, sys_delete_handler
  <2>2. Sound(files') /\ Abstract!Delete(n)
    BY <1>1, <2>1, DeleteImplements
  <2>3. Abstract!Next
    BY <2>2 DEF Abstract!Next
  <2>4. QED  BY <1>3, <2>2, <2>3
<1>8. CASE cmd_cp
  <2>1. PICK src \in FitNames, dst \in FitNames :
          LET d == ReadData(files, src, RAMFS_MAX_FILESIZE) IN
          /\ ramfs_exists(files, src)
          /\ files' = Written(files, dst, d)
          /\ Return("write", dst, ramfs_write(files, dst, d))
          /\ UNCHANGED open_files
    BY <1>8 DEF cmd_cp
  <2> DEFINE d == ReadData(files, src, RAMFS_MAX_FILESIZE)
  <2>2. d \in Seq(BYTES)
    BY <1>1, <2>1, ReadFacts, SlotsAssumption
  <2>3. d = StoreOf(files)[src] /\ src \in DOMAIN StoreOf(files)
    <3>1. RAMFS_MAX_FILESIZE \in Nat /\ ramfs_exists(files, src)
      BY <2>1, SlotsAssumption
    <3>2. d = files[find_file(files, src)].data
      BY <1>1, <3>1, ReadFacts
    <3>3. QED  BY <3>1, <3>2, StoreFacts
  <2>4. /\ files' = Written(files, dst, d)
        /\ Return("write", dst, ramfs_write(files, dst, d))
        /\ UNCHANGED open_files
    BY <2>1
  <2> HIDE DEF d
  <2>5. Sound(files') /\ Abstract!Write(dst, dst, d)
    BY <1>1, <2>2, <2>4, WriteImplements
  <2>6. Abstract!Next
    BY <1>2, <2>3, <2>5 DEF Abstract!Next
  <2>7. QED  BY <1>3, <2>5, <2>6
<1>9. CASE sys_open_handler
  <2>1. Sound(files') /\ \E n \in NAMES : Abstract!Open(n)
    BY <1>1, <1>9, OpenImplements
  <2>2. Abstract!Next
    BY <2>1 DEF Abstract!Next
  <2>3. QED  BY <1>3, <2>1, <2>2
<1>10. CASE sys_close_handler
  <2>1. PICK fd \in Passed :
          /\ \/ /\ fd < FD_FILE_BASE
                /\ Return("close", fd, -1) /\ UNCHANGED open_files
             \/ /\ fd >= FD_FILE_BASE
                /\ open_files' = [i \in DOMAIN open_files \ {fd - FD_FILE_BASE} |-> open_files[i]]
                /\ Return("close", fd, 0)
          /\ UNCHANGED files
    BY <1>10 DEF sys_close_handler
  <2>2. Sound(files') /\ Abstract!Close(fd)
    BY <1>1, <2>1, CloseImplements
  <2>3. Abstract!Next
    BY <1>1, <2>2, PassedFacts DEF Abstract!Next
  <2>4. QED  BY <1>3, <2>2, <2>3
<1>11. CASE sys_write_handler
  <2>1. PICK fd \in Passed, d \in DATA :
          /\ \/ /\ IsOpen(fd)
                /\ files' = Written(files, fd_to_name(fd), d)
                /\ Return("write", fd, ramfs_write(files, fd_to_name(fd), d))
             \/ /\ ~ IsOpen(fd)
                /\ Return("write", fd, -1) /\ UNCHANGED files
          /\ UNCHANGED open_files
    BY <1>11 DEF sys_write_handler
  <2>2. CASE IsOpen(fd)
    <3>1. /\ fd_to_name(fd) \in FitNames /\ OpenOf(open_files)[fd] = fd_to_name(fd)
          /\ fd \in DOMAIN OpenOf(open_files)
      BY <1>1, <2>2, PassedFacts
    <3>2. Sound(files') /\ Abstract!Write(fd, OpenOf(open_files)[fd], d)
      <4>1. Sound(files') /\ Abstract!Write(fd, fd_to_name(fd), d)
        BY <1>1, <1>2, <2>1, <2>2, <3>1, WriteImplements
      <4>2. QED  BY <3>1, <4>1
    <3>3. Abstract!Next
      BY <1>1, <3>1, <3>2, PassedFacts DEF Abstract!Next
    <3>4. QED  BY <1>3, <3>2, <3>3
  <2>3. CASE ~ IsOpen(fd)
    <3>1. fd \notin DOMAIN OpenOf(open_files)
      BY <1>1, <2>3, PassedFacts
    <3>2. StoreOf(files)' = StoreOf(files) /\ OpenOf(open_files)' = OpenOf(open_files) /\ Sound(files')
      BY <1>1, <2>1, <2>3
    <3>3. Abstract!Refuse(fd)
      BY <2>1, <2>3, <3>1, <3>2, Terms DEF Abstract!Refuse
    <3>4. Abstract!Next
      BY <1>1, <3>3, PassedFacts DEF Abstract!Next
    <3>5. QED  BY <1>3, <3>2, <3>4
  <2>4. QED  BY <2>2, <2>3
<1>12. CASE sys_read_handler
  <2>1. PICK fd \in Passed, len \in LENGTHS :
          /\ \/ /\ Readable(fd)
                /\ result' = [call |-> "read", on |-> fd,
                              value |-> Len(ReadData(files, fd_to_name(fd), len)),
                              data |-> ReadData(files, fd_to_name(fd), len)]
             \/ ~ Readable(fd) /\ Return("read", fd, -1)
          /\ UNCHANGED <<files, open_files>>
    BY <1>12 DEF sys_read_handler
  <2>2. StoreOf(files)' = StoreOf(files) /\ OpenOf(open_files)' = OpenOf(open_files) /\ Sound(files')
    BY <1>1, <2>1
  <2>3. CASE Readable(fd)
    <3>1. Abstract!Read(fd, len)
      BY <1>1, <2>1, <2>3, ReadImplements
    <3>2. Abstract!Next
      BY <1>1, <3>1, PassedFacts DEF Abstract!Next
    <3>3. QED  BY <1>3, <2>2, <3>2
  <2>4. CASE ~ Readable(fd)
    <3>1. \/ fd \notin DOMAIN OpenOf(open_files)
          \/ /\ fd \in DOMAIN OpenOf(open_files)
             /\ OpenOf(open_files)[fd] \notin DOMAIN StoreOf(files)
      BY <1>1, <2>4, PassedFacts, Terms DEF Readable
    <3>2. Abstract!Returns("read", fd, -1)
      BY <2>1, <2>4, Terms
    <3>3. Abstract!Refuse(fd)
      BY <2>2, <3>1, <3>2 DEF Abstract!Refuse
    <3>4. Abstract!Next
      BY <1>1, <3>3, PassedFacts DEF Abstract!Next
    <3>5. QED  BY <1>3, <2>2, <3>4
  <2>5. QED  BY <2>3, <2>4
<1>13. CASE UNCHANGED vars
  <2>1. UNCHANGED <<files, open_files, result>>
    BY <1>13 DEF vars
  <2>2. StoreOf(files)' = StoreOf(files) /\ OpenOf(open_files)' = OpenOf(open_files) /\ Sound(files')
    BY <1>1, <2>1
  <2>3. QED  BY <2>1, <2>2 DEF Abstract!vars, Sound
<1>14. QED
  BY <1>4, <1>5, <1>6, <1>7, <1>8, <1>9, <1>10, <1>11, <1>12, <1>13 DEF Next

(* With names that fit, a name is never held by two slots: no sequence of   *)
(* creations, deletions and writes makes a file that hides another.         *)
THEOREM InductiveInvariant == ASSUME CreatesFitting PROVE Spec => []IInv
<1>1. Init => IInv
  BY InitTypeOK, InitImplements DEF IInv, Sound
<1>2. IInv /\ [Next]_vars => IInv'
  BY NextTypeOK, NextImplements DEF IInv, OneSlotEach
<1>3. QED  BY <1>1, <1>2, PTL DEF Spec

(* The slots and the table of open files implement the map from names to    *)
(* contents and the table of descriptors of FileSystem: each call changes   *)
(* what it says, and returns what it says, and nothing else.                *)
THEOREM SlotsImplementFileSystem == ASSUME CreatesFitting PROVE Spec => ImplementsFileSystem
<1>1. Init => Abstract!Init
  BY InitImplements
<1>2. IInv /\ [Next]_vars => [Abstract!Next]_(Abstract!vars)
  BY NextImplements
<1>3. QED  BY <1>1, <1>2, InductiveInvariant, PTL DEF Spec, ImplementsFileSystem, Abstract!Spec

=============================================================================
