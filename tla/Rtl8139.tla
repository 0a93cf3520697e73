------------------------------ MODULE Rtl8139 ------------------------------
(***************************************************************************)
(* The driver of drivers/rtl8139.c and the card it drives.  The card writes *)
(* each packet behind its header into one receive buffer, at an offset it   *)
(* advances (CBR); the driver reads headers at rx_offset and tells the card *)
(* how far it came (CAPR).  With RCR_WRAP a packet that begins before the   *)
(* end of the buffer runs on past it.  The card takes no packet that would  *)
(* fill the buffer to the last byte, and drops it silently.                 *)
(*                                                                          *)
(* The interrupt line is up while an unmasked bit of ISR is set; writing a  *)
(* bit to ISR clears it.  As with the other card, the driver's own code is  *)
(* never interrupted, and the card works between any two of its steps.      *)
(***************************************************************************)
EXTENDS Integers, Sequences, FiniteSets

CONSTANTS
    RX_BUF_SIZE, TX_BUF_COUNT,
    PACKETS, NoPacket,
    SIZES     \* the size of each packet, as its header says

BufferAssumption ==
    /\ RX_BUF_SIZE \in Nat \ {0} /\ RX_BUF_SIZE % 4 = 0
    /\ TX_BUF_COUNT \in Nat \ {0}
    /\ NoPacket \notin PACKETS
    /\ SIZES \in [PACKETS -> 1 .. RX_BUF_SIZE]

VARIABLES
    stage, at, up, wire,   \* as in E1000
    rx_buffer,   \* the packet whose header is at an offset, if one is
    rx_offset, capr, cbr,
    isr, imr,    \* the bits of the registers: ROK, TOK
    status,      \* the handler's copy of ISR
    tx_buffers,  \* the packet of a buffer whose OWN is clear
    tx_cur, tx_card,
    \* What went wrong, for the properties; no step depends on them.
    rewound,     \* rx_offset was set back to 0 behind packets that were read
    overtaken,   \* ROK was acknowledged with a packet in the buffer, and the
                 \* handler has not looked since
    overrun      \* a transmit buffer was filled that was still waiting

rx == <<rx_buffer, rx_offset, capr, cbr>>
tx == <<tx_buffers, tx_cur, tx_card>>
irq == <<isr, imr, status>>
flaws == <<rewound, overtaken, overrun>>
vars == <<stage, at, up, wire, rx, irq, tx, flaws>>

Stages == <<"down", "reset", "enabled", "registered", "up">>
Reached(s) ==
    \E i, j \in DOMAIN Stages : i <= j /\ Stages[i] = s /\ Stages[j] = stage

\* Bytes inside a packet are no header.
Inside == "inside"
Offsets == {o \in 0 .. RX_BUF_SIZE - 1 : o % 4 = 0}
TxBuffers == 0 .. TX_BUF_COUNT - 1

TypeOK ==
    /\ stage \in {Stages[i] : i \in DOMAIN Stages}
    /\ at \in {"idle", "poll", "net", "ack"}
    /\ {up, wire} \subseteq PACKETS \cup {NoPacket, Inside}
    /\ rx_buffer \in [Offsets -> PACKETS \cup {NoPacket, Inside}]
    /\ rx_offset \in Nat /\ rx_offset % 4 = 0
    /\ capr \in Offsets /\ cbr \in Offsets
    /\ isr \cup imr \cup status \subseteq {"ROK", "TOK"}
    /\ tx_buffers \in [TxBuffers -> PACKETS \cup {NoPacket}]
    /\ tx_cur \in TxBuffers /\ tx_card \in TxBuffers
    /\ {rewound, overtaken, overrun} \subseteq BOOLEAN

Init ==
    /\ stage = "down" /\ at = "idle"
    /\ up = NoPacket /\ wire = NoPacket
    /\ rx_buffer = [o \in Offsets |-> NoPacket]
    /\ rx_offset = 0 /\ capr = 0 /\ cbr = 0
    /\ isr = {} /\ imr = {} /\ status = {}
    /\ tx_buffers = [i \in TxBuffers |-> NoPacket]
    /\ tx_cur = 0 /\ tx_card = 0
    /\ rewound = FALSE /\ overtaken = FALSE /\ overrun = FALSE

-----------------------------------------------------------------------------
(* rtl8139_init, with the steps the card can act between.                   *)

Reset ==
    /\ stage = "down"
    /\ stage' = "reset"
    /\ rx_buffer' = [o \in Offsets |-> NoPacket]
    /\ capr' = 0 /\ cbr' = 0 /\ isr' = {} /\ imr' = {}
    /\ UNCHANGED <<at, up, wire, rx_offset, status, tx, flaws>>

\* The mask, the receive configuration, the command that starts the card.
Enable ==
    /\ stage = "reset"
    /\ stage' = "enabled" /\ imr' = {"ROK", "TOK"}
    /\ UNCHANGED <<at, up, wire, rx, isr, status, tx, flaws>>

Register ==
    /\ stage = "enabled"
    /\ stage' = "registered"
    /\ UNCHANGED <<at, up, wire, rx, irq, tx, flaws>>

\* The handler may have run before rx_offset is set, and is then set back.
ResetOffset ==
    /\ stage = "registered" /\ at = "idle"
    /\ stage' = "up" /\ rx_offset' = 0 /\ tx_cur' = 0
    /\ rewound' = (rx_offset # 0)
    /\ UNCHANGED <<at, up, wire, rx_buffer, capr, cbr, irq, tx_buffers, tx_card,
                   overtaken, overrun>>

-----------------------------------------------------------------------------
(* The card.                                                                *)

\* What a packet takes up: a header of four bytes, the packet, padding.
Align(n) == ((n + 3) \div 4) * 4
Room == IF capr = cbr THEN RX_BUF_SIZE ELSE (capr - cbr) % RX_BUF_SIZE

Receive(p) ==
    /\ Reached("enabled")
    /\ LET taken == ((4 + SIZES[p] + 3) \div 4) * 4
       IN /\ taken < Room
          /\ rx_buffer' = [o \in Offsets |->
                CASE o = cbr -> p
                  [] cbr < o /\ o < cbr + taken -> Inside
                  [] OTHER -> rx_buffer[o]]
          /\ cbr' = (cbr + taken) % RX_BUF_SIZE
    /\ isr' = isr \cup {"ROK"}
    /\ UNCHANGED <<stage, at, up, wire, rx_offset, capr, imr, status, tx, flaws>>

Transmit ==
    /\ tx_buffers[tx_card] # NoPacket
    /\ wire' = tx_buffers[tx_card]
    /\ tx_buffers' = [tx_buffers EXCEPT ![tx_card] = NoPacket]
    /\ tx_card' = (tx_card + 1) % TX_BUF_COUNT
    /\ isr' = isr \cup {"TOK"}
    /\ UNCHANGED <<stage, at, up, rx, imr, status, tx_cur, flaws>>

-----------------------------------------------------------------------------
(* rtl8139_irq_handler, step by step.                                       *)

Interrupted ==
    /\ Reached("registered") /\ at = "idle"
    /\ isr \cap imr # {}
    /\ status' = isr
    /\ at' = IF "ROK" \in isr THEN "poll" ELSE "ack"
    /\ UNCHANGED <<stage, up, wire, rx, isr, imr, tx, flaws>>

Offset == rx_offset % RX_BUF_SIZE

Poll_AdvanceFirst ==
    /\ at = "poll"
    /\ IF capr # cbr
       THEN /\ at' = "net" /\ up' = rx_buffer[Offset]
            /\ capr' = Align(Offset + 4 + SIZES[up']) % RX_BUF_SIZE
       ELSE at' = "ack" /\ UNCHANGED <<up, capr>>
    /\ overtaken' = FALSE
    /\ UNCHANGED <<stage, wire, rx_buffer, rx_offset, cbr, irq, tx, rewound, overrun>>

\* What the header at the driver's offset says.  The card keeps bad packets to
\* itself: ROK is set in every header it writes, and no packet is of 1600
\* bytes.  ROK is clear where it wrote nothing, and may be either where the
\* bytes of a packet are taken for a header.
header == rx_buffer[Offset]
HeaderGood == header \in PACKETS \cup {Inside}
HeaderBad == header \in {NoPacket, Inside}

Poll ==
    /\ at = "poll"
    /\ \/ capr # cbr /\ HeaderGood /\ at' = "net" /\ up' = header
       \/ capr # cbr /\ HeaderBad /\ at' = "ack" /\ UNCHANGED up
       \/ capr = cbr /\ at' = "ack" /\ UNCHANGED up
    /\ overtaken' = FALSE
    /\ UNCHANGED <<stage, wire, rx, irq, tx, rewound, overrun>>

\* rx_size: any, if it is read from inside a packet (net_handle_packet is not
\* called for 0 or 1600 bytes, and all the same the offset advances).
Sizes(p) == IF p \in PACKETS THEN {SIZES[p]} ELSE 0 .. RX_BUF_SIZE - 1

\* net_handle_packet has returned; the card adds 16 to what CAPR is given.
Advance ==
    /\ at = "net"
    /\ \E rx_size \in Sizes(up) : rx_offset' = Align(Offset + 4 + rx_size)
    /\ capr' = rx_offset' % RX_BUF_SIZE
    /\ at' = "poll"
    /\ UNCHANGED <<stage, up, wire, rx_buffer, cbr, irq, tx, flaws>>

Acked_All == isr
Acked == status

Ack ==
    /\ at = "ack"
    /\ isr' = isr \ Acked
    /\ status' = {}
    /\ at' = "idle"
    /\ overtaken' = IF "ROK" \in status THEN capr # cbr ELSE overtaken
    /\ UNCHANGED <<stage, up, wire, rx, imr, tx, rewound, overrun>>

-----------------------------------------------------------------------------
(* rtl8139_send waits for the buffer it has just filled, 10000 times, and   *)
(* returns 0 either way; it never looks whether the buffer it fills is still *)
(* waiting, after TX_BUF_COUNT of these waits in a row that were in vain.   *)

NextTx == (tx_cur + 1) % TX_BUF_COUNT

Waiting == {i \in TxBuffers : tx_buffers[i] # NoPacket}

Send(p) ==
    /\ stage = "up" /\ at \in {"idle", "net"}
    /\ tx_buffers' = [tx_buffers EXCEPT ![tx_cur] = p]
    /\ tx_cur' = NextTx
    /\ overrun' = (overrun \/ tx_buffers[tx_cur] # NoPacket)
    /\ UNCHANGED <<stage, at, up, wire, rx, irq, tx_card, rewound, overtaken>>

-----------------------------------------------------------------------------
Driver ==
    \/ Reset \/ Enable \/ Register \/ ResetOffset
    \/ Interrupted \/ Poll \/ Advance \/ Ack

Next ==
    \/ Driver
    \/ Transmit
    \/ \E p \in PACKETS : Receive(p) \/ Send(p)

-----------------------------------------------------------------------------
(* What the buffers hold, oldest first (see Link).                          *)

\* The offset of the k-th header behind the driver's, each found from the one
\* before; it stays where there is no packet or the card's offset is reached.
Live(o) == o # cbr /\ rx_buffer[o] \in PACKETS
After(o) == IF Live(o) THEN Align(o + 4 + SIZES[rx_buffer[o]]) % RX_BUF_SIZE ELSE o
Header[k \in Nat] == IF k = 0 THEN Offset ELSE After(Header[k - 1])

Found == Cardinality({k \in 0 .. RX_BUF_SIZE \div 8 : Live(Header[k])})
Handed == IF at = "net" THEN 1 ELSE 0
In == [k \in 1 .. Found - Handed |-> rx_buffer[Header[k - 1 + Handed]]]
Out == [k \in 1 .. Cardinality(Waiting) |->
            tx_buffers[(tx_card + k - 1) % TX_BUF_COUNT]]

InUse == rx_buffer[Offset]
AllRoom == Room = RX_BUF_SIZE

=============================================================================
