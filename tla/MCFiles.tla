------------------------------ MODULE MCFiles ------------------------------
(* Three names of which the longest does not fit in a slot (its first         *)
(* characters are the second), two slots and two descriptors.                 *)
EXTENDS Files

CONSTANTS a, b, long, x, y, nl

MCStored == [n \in {a, b, long} |-> IF n = long THEN b ELSE n]
MCData == {<<x>>, <<y, x, x>>}
=============================================================================
