-------------------------------- MODULE Pci --------------------------------
(* The enumeration of drivers/pci.c, for the drivers that look for a card.
   A machine is the function that answers at each slot and function number
   (NoDevice: vendor 0xFFFF), and the slots whose header says they have more
   than one; a function is known by what the drivers ask of it.             *)
EXTENDS Integers, FiniteSets

CONSTANTS
    PCI_MAX_DEVICES,
    SLOTS      \* the slots of all buses, in the order of the scan

Funcs == 0 .. 7
Kinds == {"rtl8139",       \* its vendor and device id
          "e1000",         \* one of e1000_device_ids
          "intel_nic",     \* an Intel network card of another device id
          "other"}
NoDevice == "none"
Machines == [functions : [SLOTS \X Funcs -> Kinds \cup {NoDevice}], multi : SUBSET SLOTS]

\* The functions pci_scan_device is called for, and that answer.
Scanned(m) ==
    {x \in SLOTS \X Funcs :
        /\ m.functions[<<x[1], 0>>] # NoDevice
        /\ x[2] = 0 \/ x[1] \in m.multi
        /\ m.functions[x] # NoDevice}

Before(x, y) == x[1] < y[1] \/ (x[1] = y[1] /\ x[2] < y[2])

\* The table has room for the first PCI_MAX_DEVICES of them.
pci_init(m) ==
    {x \in Scanned(m) :
        Cardinality({y \in Scanned(m) : Before(y, x)}) < PCI_MAX_DEVICES}

pci_find(m, kind) == \E x \in pci_init(m) : m.functions[x] = kind

=============================================================================
