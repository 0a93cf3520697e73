-------------------------------- MODULE Nic --------------------------------
(***************************************************************************)
(* The network card of a machine: net_init looks for an RTL8139, then for   *)
(* an E1000, and from then on the chosen driver and its card run.           *)
(***************************************************************************)
EXTENDS Integers, Sequences, FiniteSets

CONSTANTS
    PACKETS, NoPacket,
    NUM_RX_DESC, NUM_TX_DESC,
    RX_BUF_SIZE, TX_BUF_COUNT, SIZES,
    PCI_MAX_DEVICES, SLOTS,
    MACHINES

VARIABLES
    card,
    stage, at, up, wire, tx_cur,
    rx_descs, rx_cur, rdh, rdt, icr, ims, tx_descs, tdh, handled, cleared,
    rx_buffer, rx_offset, capr, cbr, isr, imr, status,
    tx_buffers, tx_card, rewound, overtaken, overrun

E == INSTANCE E1000
R == INSTANCE Rtl8139
P == INSTANCE Pci

ASSUME MachinesAssumption == MACHINES \subseteq P!Machines
ASSUME CardsAssumption == E!RingAssumption /\ R!BufferAssumption

e1000_only == <<rx_descs, rx_cur, rdh, rdt, icr, ims, tx_descs, tdh, handled,
                cleared>>
rtl8139_only == <<rx_buffer, rx_offset, capr, cbr, isr, imr, status,
                  tx_buffers, tx_card, rewound, overtaken, overrun>>
vars == <<card, stage, at, up, wire, tx_cur, e1000_only, rtl8139_only>>

Cards == {"none", "rtl8139", "e1000"}

\* The driver net_init ends up with; e1000_init also takes any other network
\* card of Intel's.
net_init(m) ==
    CASE P!pci_find(m, "rtl8139") -> "rtl8139"
      [] ~P!pci_find(m, "rtl8139") /\ \E k \in {"e1000", "intel_nic"} : P!pci_find(m, k)
            -> "e1000"
      [] OTHER -> "none"

Init ==
    /\ card \in {net_init(m) : m \in MACHINES}
    /\ E!Init /\ R!Init

Drives == \/ /\ card = "e1000" /\ E!Driver
             /\ UNCHANGED <<card, rtl8139_only>>
          \/ /\ card = "rtl8139" /\ R!Driver
             /\ UNCHANGED <<card, e1000_only>>

Transmits == \/ /\ card = "e1000" /\ E!Transmit
                /\ UNCHANGED <<card, rtl8139_only>>
             \/ /\ card = "rtl8139" /\ R!Transmit
                /\ UNCHANGED <<card, e1000_only>>

Receives(p) == \/ /\ card = "e1000" /\ E!Receive(p)
                  /\ UNCHANGED <<card, rtl8139_only>>
               \/ /\ card = "rtl8139" /\ R!Receive(p)
                  /\ UNCHANGED <<card, e1000_only>>

\* eth_send hands the frame to the driver of active_nic.
Sends(p) == \/ /\ card = "e1000" /\ E!Send(p)
               /\ UNCHANGED <<card, rtl8139_only>>
            \/ /\ card = "rtl8139" /\ R!Send(p)
               /\ UNCHANGED <<card, e1000_only>>

Next ==
    \/ Drives
    \/ Transmits
    \/ \E p \in PACKETS : Receives(p) \/ Sends(p)

Spec == Init /\ [][Next]_vars

\* The driver's code runs; its interrupt, which is the line's level, is
\* taken.
FairSpec == Spec /\ WF_vars(Drives)

-----------------------------------------------------------------------------
In == IF card = "e1000" THEN E!In ELSE R!In
Out == IF card = "e1000" THEN E!Out ELSE R!Out

TypeOK ==
    /\ card \in Cards
    /\ card = "e1000" => E!TypeOK
    /\ card = "rtl8139" => R!TypeOK

(* Whatever the card does between two steps of the driver: the packets it   *)
(* accepted reach net_handle_packet once each and in order, until a packet   *)
(* is handled between rtl8139.c:127 and 129, whose place rx_offset = 0       *)
(* forgets; and the packets send took reach the wire once each and in order, *)
(* until rtl8139_send fills a buffer whose packet still waits, which it does *)
(* not check.  The E1000's driver has neither flaw.                          *)
L == INSTANCE Link WITH in <- In, out <- Out
ImplementsLink == L!Spec

(* net_handle_packet is given a pointer into the card's own memory: the     *)
(* card does not write over the packet while it is read, unless the driver  *)
(* has lost its place in the buffer (rtl8139.c:129).                        *)
PacketIntact ==
    at = "net" /\ ~rewound => up = IF card = "e1000" THEN E!InUse ELSE R!InUse

(* When the driver has handed up all there is, the card has all its room    *)
(* back, one descriptor less for the E1000, whose tail must not reach its   *)
(* head: the ring does not shrink as packets pass through it.  Again unless *)
(* the driver has lost its place.                                           *)
RoomReturned ==
    /\ card = "e1000" /\ E!Reached("rings") /\ at = "idle" /\ E!In = <<>> => E!AllRoom
    /\ card = "rtl8139" /\ ~rewound /\ at = "idle" /\ R!In = <<>> => R!AllRoom

(* What leaves a packet in the card's memory with nothing to announce it:    *)
(* contrary to rtl8139.c:78, "Acknowledge all handled interrupts", the one   *)
(* of a packet that came after the last look; the read of ICR that ends      *)
(* e1000_init; an interrupt line for which e1000_init registers no handler;  *)
(* and a place in the buffer that is lost.                                   *)
Unnoticed ==
    \/ overtaken
    \/ rewound
    \/ cleared
    \/ card = "e1000" /\ E!Reached("registered") /\ ~handled

(* A packet that waits is handed up, or another before it, by the driver     *)
(* alone and without a further packet, but in these cases.                   *)
HandedUp == In # <<>> ~> at = "net" \/ Unnoticed

=============================================================================
