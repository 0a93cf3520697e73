----------------------------- MODULE FileSystem -----------------------------
(***************************************************************************)
(* What ramfs and the file system calls promise: a map from names to        *)
(* contents with room for MAX_FILES of them, and a table of descriptors,    *)
(* each a name that keeps its meaning until it is closed.  `result' is the   *)
(* last call, the file or descriptor it was made on, the value it returned  *)
(* and the bytes it read.                                                   *)
(***************************************************************************)
EXTENDS Integers, Sequences, FiniteSets

CONSTANTS
    MAX_FILES, MAX_SIZE, NAMES, DATA, NEWLINE, LENGTHS,
    DESCRIPTORS, CONSOLE, OTHERS    \* descriptors of files, of the console, and invalid ones

VARIABLES store, open, result

vars == <<store, open, result>>

Clipped(d) == IF Len(d) > MAX_SIZE THEN SubSeq(d, 1, MAX_SIZE) ELSE d

Stored(n, d) == [m \in DOMAIN store \cup {n} |-> IF m = n THEN d ELSE store[m]]

Returns(call, on, value) == result' = [call |-> call, on |-> on, value |-> value, data |-> <<>>]

HasRoom == Cardinality(DOMAIN store) < MAX_FILES

Init ==
    /\ store = [n \in {} |-> <<>>]
    /\ open = [f \in {} |-> CHOOSE n \in NAMES : TRUE]
    /\ result = [call |-> "none", on |-> 0, value |-> 0, data |-> <<>>]

\* A name that is taken is refused, and then one there is no room for.
Create(n) ==
    /\ UNCHANGED open
    /\ \/ n \in DOMAIN store /\ Returns("create", n, -1) /\ UNCHANGED store
       \/ n \notin DOMAIN store /\ ~ HasRoom /\ Returns("create", n, -2) /\ UNCHANGED store
       \/ n \notin DOMAIN store /\ HasRoom /\ Returns("create", n, 0) /\ store' = Stored(n, <<>>)

\* Replaces what file n holds, and makes the file if there is none; `on' is
\* how the caller named it.
Write(on, n, d) ==
    /\ UNCHANGED open
    /\ \/ /\ n \in DOMAIN store \/ HasRoom
          /\ store' = Stored(n, Clipped(d))
          /\ Returns("write", on, Len(Clipped(d)))
       \/ /\ n \notin DOMAIN store /\ ~ HasRoom
          /\ Returns("write", on, -1) /\ UNCHANGED store

\* Adds a line to a file, as much of it as there is room for.
AddLine(n, d) ==
    /\ UNCHANGED open
    /\ \/ /\ n \in DOMAIN store
          /\ store' = Stored(n, Clipped(store[n] \o d \o <<NEWLINE>>))
          /\ Returns("append", n, Len(Clipped(store[n] \o d)) - Len(store[n]))
       \/ n \notin DOMAIN store /\ Returns("append", n, -1) /\ UNCHANGED store

Delete(n) ==
    /\ UNCHANGED open
    /\ \/ /\ n \in DOMAIN store
          /\ Returns("delete", n, 0)
          /\ store' = [m \in DOMAIN store \ {n} |-> store[m]]
       \/ n \notin DOMAIN store /\ Returns("delete", n, -1) /\ UNCHANGED store

\* The new descriptor is one that is not in use.
Open(n) ==
    /\ UNCHANGED store
    /\ \/ /\ n \in DOMAIN store
          /\ \E f \in DESCRIPTORS \ DOMAIN open :
                /\ open' = [g \in DOMAIN open \cup {f} |-> IF g = f THEN n ELSE open[g]]
                /\ Returns("open", n, f)
       \/ /\ n \notin DOMAIN store \/ DESCRIPTORS \subseteq DOMAIN open
          /\ Returns("open", n, -1) /\ UNCHANGED open

\* To close what is not open succeeds; the console cannot be closed.
Close(f) ==
    /\ UNCHANGED store
    /\ open' = [g \in DOMAIN open \ {f} |-> open[g]]
    /\ Returns("close", f, IF f \in CONSOLE THEN -1 ELSE 0)

Read(f, len) ==
    /\ UNCHANGED <<store, open>>
    /\ f \in DOMAIN open /\ open[f] \in DOMAIN store
    /\ LET d == store[open[f]]
           got == IF len < Len(d) THEN SubSeq(d, 1, len) ELSE d
       IN  result' = [call |-> "read", on |-> f, value |-> Len(got), data |-> got]

\* There is nothing to read, or to write to.
Refuse(f) ==
    /\ UNCHANGED <<store, open>>
    /\ \/ /\ f \notin DOMAIN open
          /\ Returns("read", f, -1) \/ Returns("write", f, -1)
       \/ f \in DOMAIN open /\ open[f] \notin DOMAIN store /\ Returns("read", f, -1)

Next ==
    \/ \E n \in NAMES :
         \/ Create(n) \/ Delete(n) \/ Open(n)
         \/ \E d \in DATA : Write(n, n, d) \/ AddLine(n, d)
         \/ \E m \in DOMAIN store : Write(n, n, store[m])
    \/ \E f \in DESCRIPTORS \cup CONSOLE \cup OTHERS :
         \/ Close(f) \/ Refuse(f)
         \/ \E len \in LENGTHS : Read(f, len)
         \/ f \in DOMAIN open /\ \E d \in DATA : Write(f, open[f], d)

Spec == Init /\ [][Next]_vars
=============================================================================
