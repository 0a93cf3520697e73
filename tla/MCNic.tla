------------------------------- MODULE MCNic -------------------------------
(* A machine with either card, both, an Intel card that is not in the list,
   or none the table has room for.  Packets of two sizes, one of which needs
   padding, in a buffer for two of them; rings of three and two
   descriptors.                                                             *)
EXTENDS Nic, TLC

CONSTANTS a, b

MCPackets == {a, b}
MCSizes == (a :> 4) @@ (b :> 7)

Slot(kinds, multi) ==
    [functions |-> [x \in SLOTS \X P!Funcs |->
        IF x[1] = 0 /\ x[2] < Len(kinds) THEN kinds[x[2] + 1] ELSE P!NoDevice],
     multi |-> multi]

MCMachines ==
    {Slot(<<"rtl8139">>, {}), Slot(<<"e1000", "rtl8139">>, {}),
     Slot(<<"other", "e1000", "rtl8139">>, {0}), Slot(<<"intel_nic">>, {}),
     Slot(<<"e1000", "rtl8139">>, {0}), Slot(<<"none", "e1000">>, {0})}

(* Where TLC turns back: a receiver that has lost its place is followed while
   nothing is sent, and a sender that has lost a packet while at most one
   packet waits in the receiver.                                            *)
OneFlaw ==
    /\ rewound => Out = <<>> /\ ~overrun
    /\ overrun => Len(In) <= 1

=============================================================================
