------------------------------- MODULE Link --------------------------------
(* What a network driver promises: a packet the card has accepted from the
   wire is handed to net_handle_packet once and in order, until the driver
   loses its place in what was received; and a packet that send has taken is
   put on the wire once and in order, until one is written over before that.
   From then on nothing is promised in that direction.                      *)
EXTENDS Sequences

CONSTANTS PACKETS, NoPacket

VARIABLES
    in,      \* accepted by the card, not yet handed up
    up,      \* the last packet handed up
    out,     \* taken by send, not yet on the wire
    wire,    \* the last packet put on the wire
    rewound, overrun

Init ==
    /\ in = <<>> /\ out = <<>>
    /\ up = NoPacket /\ wire = NoPacket
    /\ rewound = FALSE /\ overrun = FALSE

receiving == <<in, up, rewound>>
sending == <<out, wire, overrun>>

Receive(p) == in' = Append(in, p) /\ UNCHANGED <<up, rewound>>

HandUp ==
    /\ in # <<>>
    /\ up' = Head(in) /\ in' = Tail(in)
    /\ UNCHANGED rewound

Rewind == rewound' = TRUE

Send(p) == out' = Append(out, p) /\ UNCHANGED <<wire, overrun>>

Transmit ==
    /\ out # <<>>
    /\ wire' = Head(out) /\ out' = Tail(out)
    /\ UNCHANGED overrun

Overrun == overrun' = TRUE

\* The two directions, each on its own.
Receiving == (\E p \in PACKETS : Receive(p)) \/ HandUp \/ Rewind
Sending == (\E p \in PACKETS : Send(p)) \/ Transmit \/ Overrun

Spec == Init /\ [][Receiving]_receiving /\ [][Sending]_sending

=============================================================================
