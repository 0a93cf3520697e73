------------------------------- MODULE E1000 -------------------------------
(***************************************************************************)
(* The driver of drivers/e1000.c and the card it drives.  The card works    *)
(* beside the CPU: it fills receive descriptors and empties transmit        *)
(* descriptors between any two steps of the driver.  The driver itself is   *)
(* never interrupted: its handler runs with interrupts off, and so does     *)
(* every caller of e1000_send (a command in the keyboard's handler, or the  *)
(* network code inside this one).                                           *)
(*                                                                          *)
(* The card owns the receive descriptors from its head up to, not           *)
(* including, its tail, and the transmit descriptors likewise; its          *)
(* interrupt line is up while an unmasked cause is set, and reading ICR     *)
(* clears the causes.                                                       *)
(***************************************************************************)
EXTENDS Integers, Sequences, FiniteSets

CONSTANTS
    NUM_RX_DESC, NUM_TX_DESC,
    PACKETS, NoPacket

RingAssumption ==
    /\ NUM_RX_DESC \in Nat \ {0, 1} /\ NUM_TX_DESC \in Nat \ {0, 1}
    /\ NoPacket \notin PACKETS

VARIABLES
    stage,       \* how far e1000_init has come
    at,          \* where the interrupt handler is
    up, wire,    \* the last packet handed up, the last one transmitted
    rx_descs,    \* the packet of a descriptor whose DD is set
    rx_cur, rdh, rdt,
    icr, ims,    \* the cause RXT0 is set, is unmasked
    tx_descs,    \* the packet of a descriptor whose DD is clear
    tx_cur, tdh,
    handled,     \* e1000_irq_handler is registered
    cleared      \* for the properties: ICR was cleared with a packet in the
                 \* ring, and no interrupt came since

rx == <<rx_descs, rx_cur, rdh, rdt>>
tx == <<tx_descs, tx_cur, tdh>>
irq == <<icr, ims, handled, cleared>>
vars == <<stage, at, up, wire, rx, irq, tx>>

Stages == <<"down", "reset", "rings", "registered", "unmasked", "up">>
Reached(s) ==
    \E i, j \in DOMAIN Stages : i <= j /\ Stages[i] = s /\ Stages[j] = stage

RxRing == 0 .. NUM_RX_DESC - 1
TxRing == 0 .. NUM_TX_DESC - 1

TypeOK ==
    /\ stage \in {Stages[i] : i \in DOMAIN Stages} \cup {"failed"}
    /\ at \in {"idle", "poll", "net"}
    /\ {up, wire} \subseteq PACKETS \cup {NoPacket}
    /\ rx_descs \in [RxRing -> PACKETS \cup {NoPacket}]
    /\ rx_cur \in RxRing /\ rdh \in RxRing /\ rdt \in RxRing
    /\ {icr, ims, handled, cleared} \subseteq BOOLEAN
    /\ tx_descs \in [TxRing -> PACKETS \cup {NoPacket}]
    /\ tx_cur \in TxRing /\ tdh \in TxRing

Init ==
    /\ stage = "down" /\ at = "idle"
    /\ up = NoPacket /\ wire = NoPacket
    /\ rx_descs = [i \in RxRing |-> NoPacket]
    /\ rx_cur = 0 /\ rdh = 0 /\ rdt = 0
    /\ icr = FALSE /\ ims = FALSE /\ handled = FALSE /\ cleared = FALSE
    /\ tx_descs = [i \in TxRing |-> NoPacket]
    /\ tx_cur = 0 /\ tdh = 0

-----------------------------------------------------------------------------
(* e1000_init, with the steps the card can act between.                     *)

NextRx_NoWrap(i) == i + 1
NextRx(i) == (i + 1) % NUM_RX_DESC
NextTx(i) == (i + 1) % NUM_TX_DESC

\* The address is taken from the EEPROM, else from RAL, unless all zeros or
\* ones.
e1000_read_mac(eeprom, ral) == eeprom = "address" \/ ral = "address"

\* The checks of e1000_init up to the reset card; BAR0 may be I/O space.
e1000_init ==
    /\ stage = "down"
    /\ \E bar0 \in {"mmio", "io"}, eeprom, ral \in {"address", "blank"} :
        stage' = IF bar0 = "mmio" /\ e1000_read_mac(eeprom, ral)
                 THEN "reset" ELSE "failed"
    /\ UNCHANGED <<at, up, wire, rx, irq, tx>>

FirstTail == NUM_RX_DESC - 1

\* e1000_rx_init and e1000_tx_init; RCTL_EN starts the card.
InitRings ==
    /\ stage = "reset"
    /\ stage' = "rings"
    /\ rx_descs' = [i \in RxRing |-> NoPacket]
    /\ rdh' = 0 /\ rdt' = FirstTail /\ rx_cur' = 0
    /\ tx_descs' = [i \in TxRing |-> NoPacket]
    /\ tdh' = 0 /\ tx_cur' = 0
    /\ UNCHANGED <<at, up, wire, irq>>

\* The line the firmware gave the card may be none the code takes.
Register ==
    /\ stage = "rings"
    /\ stage' = "registered"
    /\ \E irq_line \in {"valid", "invalid"} : handled' = (irq_line = "valid")
    /\ UNCHANGED <<at, up, wire, rx, icr, ims, cleared, tx>>

Unmask ==
    /\ stage = "registered" /\ at = "idle"
    /\ stage' = "unmasked" /\ ims' = TRUE
    /\ UNCHANGED <<at, up, wire, rx, icr, handled, cleared, tx>>

Filled == {i \in RxRing : rx_descs[i] # NoPacket}

\* "Read ICR to clear pending interrupts": a packet already in the ring
\* loses the interrupt it raised.
ClearPending ==
    /\ stage = "unmasked" /\ at = "idle"
    /\ stage' = "up" /\ icr' = FALSE
    /\ cleared' = (Filled # {})
    /\ UNCHANGED <<at, up, wire, rx, ims, handled, tx>>

-----------------------------------------------------------------------------
(* The card.                                                                *)

Receive(p) ==
    /\ Reached("rings")
    /\ rdh # rdt
    /\ rx_descs' = [rx_descs EXCEPT ![rdh] = p]
    /\ rdh' = NextRx(rdh)
    /\ icr' = TRUE
    /\ UNCHANGED <<stage, at, up, wire, rx_cur, rdt, ims, handled, cleared, tx>>

Transmit ==
    /\ tdh # tx_cur
    /\ wire' = tx_descs[tdh]
    /\ tx_descs' = [tx_descs EXCEPT ![tdh] = NoPacket]
    /\ tdh' = NextTx(tdh)
    /\ UNCHANGED <<stage, at, up, rx, irq, tx_cur>>

-----------------------------------------------------------------------------
(* e1000_irq_handler, step by step.                                         *)

Interrupted ==
    /\ handled /\ at = "idle"
    /\ icr /\ ims
    /\ icr' = FALSE
    /\ at' = "poll"
    /\ cleared' = FALSE
    /\ UNCHANGED <<stage, up, wire, rx, ims, handled, tx>>

\* A card set up for frames of at most RX_BUF_SIZE_E1000 bytes delivers none
\* of another length.
Poll ==
    /\ at = "poll"
    /\ IF rx_descs[rx_cur] # NoPacket
       THEN up' = rx_descs[rx_cur] /\ at' = "net"
       ELSE at' = "idle" /\ UNCHANGED up
    /\ UNCHANGED <<stage, wire, rx, irq, tx>>

NewTail_Cur == NextRx(rx_cur)
NewTail == rx_cur

\* net_handle_packet has returned.
Release ==
    /\ at = "net"
    /\ rx_descs' = [rx_descs EXCEPT ![rx_cur] = NoPacket]
    /\ rx_cur' = NextRx(rx_cur)
    /\ rdt' = NewTail
    /\ at' = "poll"
    /\ UNCHANGED <<stage, up, wire, rdh, irq, tx>>

-----------------------------------------------------------------------------
(* e1000_send.  Its two polls of DD change nothing: the first one gives up  *)
(* when the card keeps the descriptor, and after the second send returns 0  *)
(* whether or not the packet is on the wire.                                *)

Available_Always == TRUE
Available == tx_descs[tx_cur] = NoPacket

Send(p) ==
    /\ stage = "up" /\ at \in {"idle", "net"}
    /\ Available
    /\ tx_descs' = [tx_descs EXCEPT ![tx_cur] = p]
    /\ tx_cur' = NextTx(tx_cur)
    /\ UNCHANGED <<stage, at, up, wire, rx, irq, tdh>>

-----------------------------------------------------------------------------
Driver ==
    \/ e1000_init \/ InitRings \/ Register \/ Unmask \/ ClearPending
    \/ Interrupted \/ Poll \/ Release

Next ==
    \/ Driver
    \/ Transmit
    \/ \E p \in PACKETS : Receive(p) \/ Send(p)

-----------------------------------------------------------------------------
(* What the rings hold, oldest first (see Link).                            *)

Held(ring, first, size) ==
    [k \in 1 .. Cardinality({i \in DOMAIN ring : ring[i] # NoPacket}) |->
        ring[(first + k - 1) % size]]

In == LET held == Held(rx_descs, rx_cur, NUM_RX_DESC)
      IN IF at = "net" THEN Tail(held) ELSE held
Out == Held(tx_descs, tdh, NUM_TX_DESC)

InUse == rx_descs[rx_cur]        \* the packet net_handle_packet reads
AllRoom == (rdt - rdh) % NUM_RX_DESC = NUM_RX_DESC - 1

=============================================================================
