-------------------------------- MODULE Maps --------------------------------
(* What a table of names promises: a map from names to values with room for
   a number of them.  A command does to the map what it says and no more: a
   new name that finds no room is refused, and a name that is removed is
   gone, whatever it was set to before.                                     *)
EXTENDS FiniteSets, Naturals

CONSTANTS
    NAMES, VALUES,
    CUT,         \* what is kept of a value
    ROOM, Nothing

VARIABLES
    map,
    done         \* the last command if it was one on this map, or Nothing

Init ==
    /\ map \in UNION {[D -> VALUES] : D \in SUBSET NAMES}
    /\ done = Nothing

Room(n) == n \in DOMAIN map \/ Cardinality(DOMAIN map) < ROOM

Put(n, v) ==
    /\ done' = <<"put", n, v>>
    /\ map' = IF Room(n)
              THEN [m \in DOMAIN map \cup {n} |-> IF m = n THEN CUT[v] ELSE map[m]]
              ELSE map

Remove(n) ==
    /\ done' = <<"remove", n>>
    /\ map' = [m \in DOMAIN map \ {n} |-> map[m]]

Another == done' = Nothing /\ map' = map

Next == Another \/ \E n \in NAMES : Remove(n) \/ \E v \in VALUES : Put(n, v)

Spec == Init /\ [][Next]_<<map, done>>

=============================================================================
