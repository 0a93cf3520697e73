-------------------------------- MODULE Net --------------------------------
(***************************************************************************)
(* The protocols of net/net.c above the driver, and the commands `ping' and *)
(* `resolve'.  Packets are handled in the network card's interrupt and      *)
(* commands in the keyboard's, both with interrupts off: each is one        *)
(* action.  Where the code waits with hlt for a packet or for ticks, no     *)
(* interrupt will wake it (module Irq), and the kernel waits for good.      *)
(*                                                                          *)
(* Frames are what the other hosts may send; those net_handle_packet and    *)
(* the handlers below it drop (too short, of another type, protocol or      *)
(* port) change nothing and are left out, and so are checksums, which the   *)
(* code computes and never verifies.                                        *)
(***************************************************************************)
EXTENDS Integers, Sequences, FiniteSets

CONSTANTS
    HOSTS,             \* addresses
    LOCAL_NET,         \* those of our subnet
    our_ip, NET_GATEWAY, NET_DNS,
    MACS,              \* link addresses of other hosts
    ARP_CACHE_SIZE,
    ANSWERS,           \* answer sections of DNS responses
    None

ASSUME AddressAssumption ==
    {our_ip, NET_GATEWAY, NET_DNS} \subseteq LOCAL_NET /\ LOCAL_NET \subseteq HOSTS
ASSUME CacheAssumption == ARP_CACHE_SIZE \in Nat \ {0}

\* An answer: how its name is written, its type, the address it holds.
Answers == [name : {"labels", "pointer", "labels_pointer"},
            type : {"A", "other"}, ip : HOSTS]
ASSUME AnswersAssumption == ANSWERS \subseteq Seq(Answers)

Broadcast == "broadcast"
Garbage == "garbage"        \* any four bytes of a packet
Slots == 0 .. ARP_CACHE_SIZE - 1
Entries == [ip : HOSTS, mac : MACS]
\* The id and sequence of an echo: those of a ping_state never used, of the
\* first echo of every ping.
EchoIds == {<<0, 0>>, <<4660, 1>>}
DnsIds == {0, 1}

VARIABLES
    arp_cache,        \* an entry, or None where it is not valid
    announced,        \* what each host has last announced, if it has
    sent,             \* the frame the last handler or command sent, if it
                      \* did: its address, its kind, the host it is for
    ping_state,       \* the echo it waits for, whether the reply came
    dns,              \* dns_query_id, dns_result_ip, dns_got_reply
    ctrl_c_pressed,
    waiting           \* None, or what the kernel waits for

vars == <<arp_cache, announced, sent, ping_state, dns, ctrl_c_pressed, waiting>>

Frames == [dst : MACS \cup {Broadcast}, kind : {"request", "reply", "ip"}, to : HOSTS]
Waits == {"arp", "ping", "dns"}
ASSUME NoneAssumption == None \notin HOSTS \cup MACS \cup Entries \cup Frames \cup Waits

TypeOK ==
    /\ arp_cache \in [Slots -> Entries \cup {None}]
    /\ announced \in [HOSTS -> MACS \cup {None}]
    /\ sent \in Frames \cup {None}
    /\ ping_state \in [echo : EchoIds, got_reply : BOOLEAN]
    /\ dns \in [query_id : DnsIds, result_ip : HOSTS \cup {None, Garbage}, got_reply : BOOLEAN]
    /\ ctrl_c_pressed \in BOOLEAN
    /\ waiting \in Waits \cup {None}

\* net_init.
Init ==
    /\ arp_cache = [i \in Slots |-> None]
    /\ announced = [h \in HOSTS |-> None]
    /\ sent = None
    /\ ping_state = [echo |-> <<0, 0>>, got_reply |-> FALSE]
    /\ dns = [query_id |-> 0, result_ip |-> None, got_reply |-> FALSE]
    /\ ctrl_c_pressed = FALSE
    /\ waiting = None

-----------------------------------------------------------------------------
(* The ARP cache.                                                           *)

First(S) == CHOOSE i \in S : \A j \in S : i <= j

Holding(ip) == {i \in Slots : arp_cache[i] # None /\ arp_cache[i].ip = ip}
arp_lookup(ip) ==
    IF Holding(ip) = {} THEN None ELSE arp_cache[First(Holding(ip))].mac

Free == {i \in Slots : arp_cache[i] = None}

SlotFor_NoUpdate(ip) == IF Free # {} THEN First(Free) ELSE 0
SlotFor_Last(ip) ==
    IF Holding(ip) # {} THEN First(Holding(ip)) ELSE ARP_CACHE_SIZE - 1
SlotFor(ip) ==
    CASE Holding(ip) # {} -> First(Holding(ip))
      [] Holding(ip) = {} /\ Free # {} -> First(Free)
      [] OTHER -> 0

arp_update(ip, mac) ==
    arp_cache' = [arp_cache EXCEPT ![SlotFor(ip)] = [ip |-> ip, mac |-> mac]]

-----------------------------------------------------------------------------
(* Sending.                                                                 *)

eth_send(dst, kind, to) == sent' = [dst |-> dst, kind |-> kind, to |-> to]

arp_send_request(ip) == eth_send(Broadcast, "request", ip)
arp_send_reply(ip, mac) == eth_send(mac, "reply", ip)

NextHop_Direct(ip) == ip
NextHop(ip) == IF ip \in LOCAL_NET THEN ip ELSE NET_GATEWAY

ip_send_Unchecked(ip, pressed, after) ==
    IF arp_lookup(NextHop(ip)) # None \/ pressed
    THEN eth_send(arp_lookup(NextHop(ip)), "ip", ip) /\ waiting' = after
    ELSE arp_send_request(NextHop(ip)) /\ waiting' = "arp"

\* ip_send with the arp_resolve in it.  On a miss the request goes out; then
\* arp_resolve gives up if Ctrl+C was pressed (before the interrupt: nothing
\* can press it now), or waits for the reply.  The packet is sent and the
\* caller goes on, to `after', or it is not.
ip_send(ip, pressed, after) ==
    IF arp_lookup(NextHop(ip)) # None
    THEN eth_send(arp_lookup(NextHop(ip)), "ip", ip) /\ waiting' = after
    ELSE /\ arp_send_request(NextHop(ip))
         /\ waiting' = IF pressed THEN after ELSE "arp"

-----------------------------------------------------------------------------
(* net_handle_packet.                                                       *)

handle_arp(op, ip, mac, for_us) ==
    /\ waiting = None
    /\ announced' = [announced EXCEPT ![ip] = mac]
    /\ arp_update(ip, mac)
    /\ IF op = "request" /\ for_us
       THEN arp_send_reply(ip, mac)
       ELSE sent' = None
    /\ UNCHANGED <<ping_state, dns, ctrl_c_pressed, waiting>>

\* The reply goes to the source address of the request, whatever frame it
\* came in.
EchoRequest(src) ==
    /\ waiting = None
    /\ ip_send(src, ctrl_c_pressed, None)
    /\ UNCHANGED <<arp_cache, announced, ping_state, dns, ctrl_c_pressed>>

EchoReply(echo) ==
    /\ waiting = None
    /\ echo = ping_state.echo
    /\ ping_state' = [ping_state EXCEPT !.got_reply = TRUE]
    /\ sent' = None
    /\ UNCHANGED <<arp_cache, announced, dns, ctrl_c_pressed, waiting>>

\* The addresses handle_udp may take from an answer section: that of the
\* first A record, but a name of labels that ends in a pointer is skipped
\* wrongly, and what follows it is read as anything.
Results(answers) ==
    LET stops == {i \in DOMAIN answers :
                    answers[i].type = "A" \/ answers[i].name = "labels_pointer"}
    IN CASE stops = {} -> {None}
         [] stops # {} /\ answers[First(stops)].name # "labels_pointer" ->
                {answers[First(stops)].ip}
         [] OTHER -> {None, Garbage}

\* A response from port 53.
handle_udp(id, answers) ==
    /\ waiting = None
    /\ id = dns.query_id
    /\ \E ip \in Results(answers) \ {None} :
        dns' = [dns EXCEPT !.result_ip = ip, !.got_reply = TRUE]
    /\ sent' = None
    /\ UNCHANGED <<arp_cache, announced, ping_state, ctrl_c_pressed, waiting>>

-----------------------------------------------------------------------------
(* The keyboard: Ctrl+C at the prompt, and commands, before each of which   *)
(* shell_execute clears ctrl_c_pressed.                                     *)

CtrlC ==
    /\ waiting = None
    /\ ctrl_c_pressed' = TRUE
    /\ sent' = None
    /\ UNCHANGED <<arp_cache, announced, ping_state, dns, waiting>>

OtherCommand ==
    /\ waiting = None
    /\ ctrl_c_pressed' = FALSE
    /\ sent' = None
    /\ UNCHANGED <<arp_cache, announced, ping_state, dns, waiting>>

net_send_icmp_echo(ip, echo) ==
    /\ ping_state' = [echo |-> echo, got_reply |-> FALSE]
    /\ ip_send(ip, FALSE, "ping")

\* Up to the wait for the first reply.
cmd_ping(ip) ==
    /\ waiting = None
    /\ ctrl_c_pressed' = FALSE
    /\ net_send_icmp_echo(ip, <<4660, 1>>)
    /\ UNCHANGED <<arp_cache, announced, dns>>

\* The query's id is taken from the ticks.
net_dns_resolve ==
    /\ \E id \in DnsIds :
        dns' = [query_id |-> id, result_ip |-> None, got_reply |-> FALSE]
    /\ ip_send(NET_DNS, FALSE, "dns")

cmd_resolve ==
    /\ waiting = None
    /\ ctrl_c_pressed' = FALSE
    /\ net_dns_resolve
    /\ UNCHANGED <<arp_cache, announced, ping_state>>

-----------------------------------------------------------------------------
net_handle_packet ==
    \/ \E op \in {"request", "reply"}, ip \in HOSTS, mac \in MACS, for_us \in BOOLEAN :
        handle_arp(op, ip, mac, for_us)
    \/ \E src \in HOSTS : EchoRequest(src)
    \/ \E echo \in EchoIds : EchoReply(echo)
    \/ \E id \in DnsIds, answers \in ANSWERS : handle_udp(id, answers)

Next ==
    \/ net_handle_packet
    \/ CtrlC \/ OtherCommand
    \/ \E ip \in HOSTS : cmd_ping(ip)
    \/ cmd_resolve

Spec == Init /\ [][Next]_vars

-----------------------------------------------------------------------------
(* The cache is what an ARP cache promises to be: each announcement that is *)
(* received changes the address of its host, to what it says, and that of   *)
(* no other; a lookup finds the address announced last, for every host not  *)
(* forgotten; and a host is forgotten only when a new one finds every slot  *)
(* taken.                                                                   *)
Known ==
    [h \in {g \in HOSTS : arp_lookup(g) # None} |-> arp_lookup(h)]
N == INSTANCE Neighbours WITH known <- Known, CAPACITY <- ARP_CACHE_SIZE
ImplementsNeighbours == N!Spec

(* No packet goes astray: a frame with an IP packet is addressed to what    *)
(* the next hop, the host itself or the gateway, has last announced, even   *)
(* when its address has changed or its entry was overwritten in between.    *)
SentToNextHop ==
    sent # None /\ sent.kind = "ip" =>
        sent.dst = announced[IF sent.to \in LOCAL_NET THEN sent.to ELSE NET_GATEWAY]

(* "Resolve an IP to MAC (blocking with timeout)" (net.c:204): no timeout   *)
(* ever ends the wait (Irq), and one packet can start it, the first echo    *)
(* request of a host that never announced itself.  What does hold is when   *)
(* it starts: the next hop has not announced itself, or more hosts have     *)
(* than there are slots, so that one that did may have been forgotten.  A   *)
(* network whose hosts announce themselves first, and fit, never stops the  *)
(* kernel in arp_resolve.                                                   *)
WaitsOnlyForStrangers ==
    waiting = "arp" =>
        \/ announced[sent.to] = None
        \/ Cardinality({h \in HOSTS : announced[h] # None}) > ARP_CACHE_SIZE

=============================================================================
