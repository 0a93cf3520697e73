----------------------------- MODULE Neighbours -----------------------------
(* What an ARP cache promises: the link address each neighbour last
   announced, for as many neighbours as it has room for.  Every announcement
   is learnt as it is made, and nothing else is; a neighbour is forgotten
   only to make room for one that has announced itself.                     *)
EXTENDS FiniteSets, Naturals

CONSTANTS HOSTS, MACS, CAPACITY, None

VARIABLES
    announced,   \* what each host has last announced, or None
    known        \* from the hosts not forgotten to their link addresses

Init ==
    /\ announced = [h \in HOSTS |-> None]
    /\ known = << >>

Room(h) == h \in DOMAIN known \/ Cardinality(DOMAIN known) < CAPACITY

Learn(h, m, kept) ==
    known' = [g \in kept \cup {h} |-> IF g = h THEN m ELSE known[g]]

Announce(h, m) ==
    /\ announced' = [announced EXCEPT ![h] = m]
    /\ \/ Room(h) /\ Learn(h, m, DOMAIN known)
       \/ ~Room(h) /\ \E old \in DOMAIN known : Learn(h, m, DOMAIN known \ {old})

Spec == Init /\ [][\E h \in HOSTS, m \in MACS : Announce(h, m)]_<<announced, known>>

=============================================================================
