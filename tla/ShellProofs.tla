---------------------------- MODULE ShellProofs -----------------------------
(***************************************************************************)
(* The commands that keep state and the network under them, for any names,  *)
(* texts, hosts, programs and sizes of the tables: the ARP cache never      *)
(* holds an address that is not the one its host announced last, so that no *)
(* packet goes astray, and it implements module Neighbours; the tables are  *)
(* maps; a loaded program starts as itself.  The hosts may be infinitely    *)
(* many: those that have announced themselves are always finitely many.     *)
(* Then the commands that answer from their arguments alone: what calc,     *)
(* grep, wc, head and tail print is right.                                  *)
(***************************************************************************)
EXTENDS Answers, FiniteSetTheorems, SequenceTheorems, WellFoundedInduction, TLAPS

-----------------------------------------------------------------------------
(* The network.                                                             *)


Cached == {i \in Slots : arp_cache[i] # None}
Announcers == {h \in HOSTS : announced[h] # None}

\* A host has one entry, and it holds the address announced last.
Fresh ==
    /\ \A i, j \in Cached : arp_cache[i].ip = arp_cache[j].ip => i = j
    /\ \A i \in Cached : announced[arp_cache[i].ip] = arp_cache[i].mac

\* As long as there is room for every announcer, none is forgotten.
Remembered ==
    /\ IsFiniteSet(Announcers)
    /\ Cardinality(Announcers) <= ARP_CACHE_SIZE =>
        \A h \in Announcers : \E i \in Cached : arp_cache[i].ip = h

NetInv == TypeOK /\ Fresh /\ Remembered /\ SentToNextHop /\ WaitsOnlyForStrangers

-----------------------------------------------------------------------------
(* The least element that First chooses.                                    *)
LEMMA FirstIsLeast ==
    ASSUME NEW S \in SUBSET Nat, S # {}
    PROVE  First(S) \in S /\ \A j \in S : First(S) <= j
<1> DEFINE Less == {p \in Nat \X Nat : p[1] < p[2]}
<1>1. IsWellFoundedOn(Less, Nat)
  <2>1. OpToRel(<, Nat) = Less
    BY Zenon DEF OpToRel
  <2>2. QED  BY <2>1, NatLessThanWellFounded, Zenon
<1>2. PICK i \in S : \A j \in S : <<j, i>> \notin Less
  BY <1>1, WFMin, Zenon
<1>3. ASSUME NEW j \in S PROVE i <= j
  <2>1. i \in Nat /\ j \in Nat
    OBVIOUS
  <2>2. j < i => <<j, i>> \in Less
    BY <2>1
  <2>3. QED  BY <1>2, <2>1, <2>2
<1>4. QED  BY <1>2, <1>3 DEF First

(* What a lookup finds: the one entry of the host, if it has one.           *)
LEMMA LookupFacts ==
    ASSUME TypeOK, Fresh
    PROVE  /\ \A i \in Cached : /\ arp_cache[i].ip \in HOSTS /\ arp_cache[i].mac \in MACS
                                /\ arp_lookup(arp_cache[i].ip) = arp_cache[i].mac
           /\ \A h \in HOSTS : arp_lookup(h) = None \/ \E i \in Cached : arp_cache[i].ip = h
<1>1. ASSUME NEW i \in Cached PROVE arp_cache[i].ip \in HOSTS /\ arp_cache[i].mac \in MACS
  BY <1>1 DEF Cached, TypeOK, Entries
<1>2. ASSUME NEW i \in Cached PROVE arp_lookup(arp_cache[i].ip) = arp_cache[i].mac
  <2>1. Holding(arp_cache[i].ip) = {i}
    BY <1>2 DEF Holding, Fresh, Cached
  <2>2. i \in Nat
    BY CacheAssumption DEF Cached, Slots
  <2>3. First({i}) = i
    BY <2>2, FirstIsLeast
  <2>4. QED  BY <2>1, <2>3 DEF arp_lookup
<1>3. ASSUME NEW h \in HOSTS PROVE arp_lookup(h) = None \/ \E i \in Cached : arp_cache[i].ip = h
  BY DEF arp_lookup, Holding, Cached
<1>4. QED  BY <1>1, <1>2, <1>3

(* The slot an update takes: the host's own, else a free one, else any.     *)
LEMMA SlotFacts ==
    ASSUME TypeOK, NEW ip \in HOSTS
    PROVE  LET k == SlotFor(ip) IN
           /\ k \in Slots
           /\ \/ k \in Cached /\ arp_cache[k].ip = ip
              \/ /\ \A i \in Cached : arp_cache[i].ip # ip
                 /\ k \notin Cached \/ Cached = Slots
<1>1. Holding(ip) \in SUBSET Nat /\ Free \in SUBSET Nat
  BY CacheAssumption DEF Holding, Free, Slots
<1>2. CASE Holding(ip) # {}
  <2>1. SlotFor(ip) \in Holding(ip)
    BY <1>1, <1>2, FirstIsLeast DEF SlotFor
  <2>2. QED  BY <2>1 DEF Holding, Cached
<1>3. CASE Holding(ip) = {} /\ Free # {}
  <2>1. SlotFor(ip) \in Free
    BY <1>1, <1>3, FirstIsLeast DEF SlotFor
  <2>2. QED  BY <1>3, <2>1 DEF Free, Holding, Cached
<1>4. CASE Holding(ip) = {} /\ Free = {}
  <2>1. SlotFor(ip) = 0
    BY <1>4 DEF SlotFor
  <2>2. 0 \in Slots
    BY CacheAssumption DEF Slots
  <2>3. QED  BY <1>4, <2>1, <2>2 DEF Free, Holding, Cached
<1>5. QED  BY <1>2, <1>3, <1>4

(* The hosts in the cache are as many as its entries.                       *)
LEMMA CachedHosts ==
    ASSUME TypeOK, Fresh
    PROVE  LET H == {arp_cache[i].ip : i \in Cached} IN
           /\ IsFiniteSet(H) /\ Cardinality(H) \in Nat
           /\ Cached = Slots => Cardinality(H) = ARP_CACHE_SIZE
           /\ Cached # Slots => Cardinality(H) < ARP_CACHE_SIZE
<1> DEFINE H == {arp_cache[i].ip : i \in Cached}
           f == [i \in Cached |-> arp_cache[i].ip]
<1>1. IsFiniteSet(Slots) /\ Cardinality(Slots) = ARP_CACHE_SIZE
  BY CacheAssumption, FS_Interval DEF Slots
<1>2. /\ IsFiniteSet(Cached) /\ Cardinality(Cached) <= ARP_CACHE_SIZE
      /\ Cached # Slots => Cardinality(Cached) # ARP_CACHE_SIZE
  BY <1>1, FS_Subset DEF Cached
<1>3. f \in Surjection(Cached, H) /\ f \in Injection(Cached, H)
  <2>1. f \in [Cached -> H] /\ \A h \in H : \E i \in Cached : f[i] = h
    OBVIOUS
  <2>2. \A i, j \in Cached : f[i] = f[j] => i = j
    BY DEF Fresh
  <2>3. QED  BY <2>1, <2>2 DEF Surjection, Injection, IsInjective
<1>4. IsFiniteSet(H) /\ Cardinality(H) = Cardinality(Cached)
  BY <1>2, <1>3, FS_Surjection
<1>5. Cardinality(H) \in Nat
  BY <1>4, FS_CardinalityType
<1>6. QED  BY <1>1, <1>2, <1>4, <1>5, CacheAssumption

-----------------------------------------------------------------------------
LEMMA InitNetInv == Init => NetInv
<1> SUFFICES ASSUME Init PROVE NetInv
  OBVIOUS
<1>1. TypeOK
  BY DEF Init, TypeOK, Waits, EchoIds, DnsIds
<1>2. Fresh
  BY DEF Init, Fresh, Cached
<1>3. Remembered
  <2>1. Announcers = {}
    BY DEF Init, Announcers
  <2>2. QED  BY <2>1, FS_EmptySet DEF Remembered
<1>4. SentToNextHop /\ WaitsOnlyForStrangers
  BY NoneAssumption DEF Init, Waits, SentToNextHop, WaitsOnlyForStrangers
<1>5. QED  BY <1>1, <1>2, <1>3, <1>4 DEF NetInv

(* ip_send sends to the address its next hop announced last, or waits for a *)
(* next hop the cache does not have.                                        *)
LEMMA SendFacts ==
    ASSUME NetInv, NEW ip \in HOSTS, NEW pressed \in BOOLEAN,
           NEW after \in {None, "ping", "dns"}, ip_send(ip, pressed, after),
           UNCHANGED <<arp_cache, announced>>
    PROVE  /\ sent' \in Frames /\ waiting' \in Waits \cup {None}
           /\ SentToNextHop' /\ WaitsOnlyForStrangers'
<1> DEFINE hop == IF ip \in LOCAL_NET THEN ip ELSE NET_GATEWAY
<1>1. hop \in HOSTS /\ hop = NextHop(ip)
  BY AddressAssumption DEF NextHop
<1>2. CASE arp_lookup(hop) # None
  <2>1. PICK i \in Cached : arp_cache[i].ip = hop
    BY <1>1, <1>2, LookupFacts DEF NetInv
  <2>2. arp_lookup(hop) = announced[hop] /\ arp_lookup(hop) \in MACS
    BY <2>1, LookupFacts DEF NetInv, Fresh
  <2>3. sent' = [dst |-> announced[hop], kind |-> "ip", to |-> ip] /\ waiting' = after
    BY <1>1, <1>2, <2>2 DEF ip_send, eth_send
  <2>4. after # "arp"
    BY NoneAssumption DEF Waits
  <2>5. sent' \in Frames
    BY <2>2, <2>3 DEF Frames
  <2>6. QED  BY <2>5, <2>2, <2>3, <2>4 DEF Waits, SentToNextHop, WaitsOnlyForStrangers
<1>3. CASE arp_lookup(hop) = None
  <2>1. sent' = [dst |-> Broadcast, kind |-> "request", to |-> hop]
    BY <1>1, <1>3 DEF ip_send, arp_send_request, eth_send
  <2>2. \A i \in Cached : arp_cache[i].ip # hop
    BY <1>3, LookupFacts, NoneAssumption DEF NetInv
  <2>3. announced[hop] = None \/ ~ Cardinality(Announcers) <= ARP_CACHE_SIZE
    BY <1>1, <2>2 DEF NetInv, Remembered, Announcers
  <2>4. Cardinality(Announcers) \in Nat
    BY FS_CardinalityType DEF NetInv, Remembered
  <2>5. WaitsOnlyForStrangers'
    BY <2>1, <2>3, <2>4, CacheAssumption DEF WaitsOnlyForStrangers, Announcers
  <2>6. waiting' \in Waits \cup {None}
    BY <1>1, <1>3 DEF ip_send, Waits
  <2>7. QED  BY <1>1, <2>1, <2>5, <2>6 DEF Frames, SentToNextHop
<1>4. QED  BY <1>2, <1>3

(* What a handler or command that leaves the cache alone must keep.         *)
LEMMA CacheKept ==
    ASSUME NetInv, UNCHANGED <<arp_cache, announced>>
    PROVE  Fresh' /\ Remembered'
  BY DEF NetInv, Fresh, Remembered, Cached, Announcers

-----------------------------------------------------------------------------
(* A host announces itself.                                                 *)
LEMMA HandleArpCache ==
    ASSUME NetInv, NEW ip \in HOSTS, NEW mac \in MACS, arp_update(ip, mac),
           announced' = [announced EXCEPT ![ip] = mac]
    PROVE  /\ arp_cache' \in [Slots -> Entries \cup {None}]
           /\ announced' \in [HOSTS -> MACS \cup {None}]
           /\ Fresh' /\ Remembered'
<1> DEFINE k == SlotFor(ip)
           e == [ip |-> ip, mac |-> mac]
<1> HIDE DEF k
<1>1. /\ k \in Slots
      /\ \/ k \in Cached /\ arp_cache[k].ip = ip
         \/ /\ \A i \in Cached : arp_cache[i].ip # ip
            /\ k \notin Cached \/ Cached = Slots
  BY SlotFacts DEF NetInv, k
<1>2. arp_cache' = [arp_cache EXCEPT ![k] = e] /\ e \in Entries /\ e # None
  BY NoneAssumption DEF arp_update, Entries, k
<1>3. /\ arp_cache' \in [Slots -> Entries \cup {None}]
      /\ announced' \in [HOSTS -> MACS \cup {None}]
  BY <1>2 DEF NetInv, TypeOK
<1>4. /\ Cached' = Cached \cup {k} /\ arp_cache'[k] = e
      /\ \A i \in Cached : i # k => arp_cache'[i] = arp_cache[i]
  BY <1>1, <1>2 DEF NetInv, TypeOK, Cached
<1>5. \A i \in Cached : arp_cache[i].ip \in HOSTS
  BY LookupFacts DEF NetInv
<1>6. Fresh'
  <2>1. \A i \in Cached : i # k => arp_cache[i].ip # ip
    BY <1>1 DEF NetInv, Fresh
  <2>2. \A h \in HOSTS : announced'[h] = IF h = ip THEN mac ELSE announced[h]
    BY DEF NetInv, TypeOK
  <2>3. \A i, j \in Cached' : arp_cache'[i].ip = arp_cache'[j].ip => i = j
    BY <1>4, <2>1 DEF NetInv, Fresh
  <2>4. \A i \in Cached' : announced'[arp_cache'[i].ip] = arp_cache'[i].mac
    BY <1>4, <1>5, <2>1, <2>2 DEF NetInv, Fresh
  <2>5. QED  BY <2>3, <2>4 DEF Fresh
<1>7. Remembered'
  <2>1. Announcers' = Announcers \cup {ip}
    BY NoneAssumption DEF Announcers, NetInv, TypeOK
  <2>2. /\ IsFiniteSet(Announcers') /\ Cardinality(Announcers) \in Nat
        /\ Cardinality(Announcers') =
            IF ip \in Announcers THEN Cardinality(Announcers) ELSE Cardinality(Announcers) + 1
    BY <2>1, FS_AddElement, FS_CardinalityType DEF NetInv, Remembered
  <2>3. SUFFICES ASSUME Cardinality(Announcers') <= ARP_CACHE_SIZE, NEW h \in Announcers'
                 PROVE  \E i \in Cached' : arp_cache'[i].ip = h
    BY <2>2 DEF Remembered
  <2>4. CASE h = ip
    BY <1>4, <2>4
  <2>5. CASE h # ip
    <3>1. PICK i \in Cached : arp_cache[i].ip = h
      BY <2>1, <2>2, <2>3, <2>5, CacheAssumption DEF NetInv, Remembered
    <3>2. i # k
      <4>1. SUFFICES ASSUME i = k PROVE FALSE
        OBVIOUS
      <4>2. Cached = Slots /\ \A j \in Cached : arp_cache[j].ip # ip
        BY <1>1, <2>5, <3>1, <4>1
      <4>3. ip \notin Announcers
        BY <2>2, <2>3, <4>2, CacheAssumption DEF NetInv, Remembered
      <4> DEFINE H == {arp_cache[j].ip : j \in Cached}
      <4>4. H \subseteq Announcers
        BY <1>5, LookupFacts, NoneAssumption DEF Announcers, NetInv, Fresh
      <4>5. Cardinality(H) = ARP_CACHE_SIZE
        BY <4>2, CachedHosts DEF NetInv
      <4>6. Cardinality(H) <= Cardinality(Announcers)
        BY <4>4, FS_Subset DEF NetInv, Remembered
      <4>7. QED  BY <2>2, <2>3, <4>3, <4>5, <4>6, CacheAssumption
    <3>3. QED  BY <1>4, <3>1, <3>2
  <2>6. QED  BY <2>4, <2>5
<1>8. QED  BY <1>3, <1>6, <1>7

(* An answer section gives an address, none, or whatever the packet holds.  *)
LEMMA ResultsType ==
    ASSUME NEW answers \in ANSWERS
    PROVE  Results(answers) \subseteq HOSTS \cup {None, Garbage}
<1> DEFINE stops == {i \in DOMAIN answers :
                        answers[i].type = "A" \/ answers[i].name = "labels_pointer"}
<1>1. answers \in Seq(Answers)
  BY AnswersAssumption
<1>2. stops \in SUBSET Nat /\ \A i \in DOMAIN answers : answers[i].ip \in HOSTS
  <2>1. DOMAIN answers \in SUBSET Nat /\ \A i \in DOMAIN answers : answers[i] \in Answers
    BY <1>1
  <2>2. QED  BY <2>1 DEF Answers
<1>3. stops # {} => First(stops) \in stops
  BY <1>2, FirstIsLeast
<1>4. QED  BY <1>2, <1>3 DEF Results

LEMMA HandlerNetInv == ASSUME NetInv, net_handle_packet PROVE NetInv'
<1>1. ASSUME NEW o \in {"request", "reply"}, NEW ip \in HOSTS, NEW mac \in MACS,
             NEW for_us \in BOOLEAN, handle_arp(o, ip, mac, for_us)
      PROVE  NetInv'
  <2>1. /\ arp_cache' \in [Slots -> Entries \cup {None}]
        /\ announced' \in [HOSTS -> MACS \cup {None}]
        /\ Fresh' /\ Remembered'
    BY <1>1, HandleArpCache DEF handle_arp
  <2>2. sent' = None \/ sent' = [dst |-> mac, kind |-> "reply", to |-> ip]
    BY <1>1 DEF handle_arp, arp_send_reply, eth_send
  <2>3. TypeOK'
    BY <1>1, <2>1, <2>2 DEF handle_arp, NetInv, TypeOK, Frames
  <2>4. SentToNextHop' /\ WaitsOnlyForStrangers'
    BY <1>1, <2>2, NoneAssumption DEF handle_arp, SentToNextHop, WaitsOnlyForStrangers, Waits
  <2>5. QED  BY <2>1, <2>3, <2>4 DEF NetInv
<1>2. ASSUME NEW src \in HOSTS, EchoRequest(src) PROVE NetInv'
  <2>1. ctrl_c_pressed \in BOOLEAN
    BY DEF NetInv, TypeOK
  <2>2. /\ sent' \in Frames /\ waiting' \in Waits \cup {None}
        /\ SentToNextHop' /\ WaitsOnlyForStrangers'
    BY <1>2, <2>1, SendFacts DEF EchoRequest
  <2>3. QED  BY <1>2, <2>2, CacheKept DEF EchoRequest, NetInv, TypeOK
<1>3. ASSUME NEW echo \in EchoIds, EchoReply(echo) PROVE NetInv'
  BY <1>3, CacheKept, NoneAssumption
     DEF EchoReply, NetInv, TypeOK, SentToNextHop, WaitsOnlyForStrangers, Waits
<1>4. ASSUME NEW id \in DnsIds, NEW answers \in ANSWERS, handle_udp(id, answers) PROVE NetInv'
  <2>1. Results(answers) \subseteq HOSTS \cup {None, Garbage}
    BY ResultsType
  <2>2. dns' \in [query_id : DnsIds, result_ip : HOSTS \cup {None, Garbage}, got_reply : BOOLEAN]
    BY <1>4, <2>1 DEF handle_udp, NetInv, TypeOK
  <2>3. QED
    BY <1>4, <2>2, CacheKept, NoneAssumption
       DEF handle_udp, NetInv, TypeOK, SentToNextHop, WaitsOnlyForStrangers, Waits
<1>5. QED  BY <1>1, <1>2, <1>3, <1>4 DEF net_handle_packet

LEMMA NextNetInv == NetInv /\ [Next]_vars => NetInv'
<1> SUFFICES ASSUME NetInv, [Next]_vars PROVE NetInv'
  OBVIOUS
<1>1. CASE net_handle_packet
  BY <1>1, HandlerNetInv
<1>2. CASE CtrlC \/ OtherCommand
  BY <1>2, CacheKept, NoneAssumption
     DEF CtrlC, OtherCommand, NetInv, TypeOK, SentToNextHop, WaitsOnlyForStrangers, Waits
<1>3. ASSUME NEW ip \in HOSTS, cmd_ping(ip) PROVE NetInv'
  <2>1. /\ sent' \in Frames /\ waiting' \in Waits \cup {None}
        /\ SentToNextHop' /\ WaitsOnlyForStrangers'
    BY <1>3, SendFacts DEF cmd_ping, net_send_icmp_echo
  <2>2. ping_state' \in [echo : EchoIds, got_reply : BOOLEAN]
    BY <1>3 DEF cmd_ping, net_send_icmp_echo, EchoIds
  <2>3. TypeOK'
    BY <1>3, <2>1, <2>2 DEF cmd_ping, net_send_icmp_echo, NetInv, TypeOK
  <2>4. Fresh' /\ Remembered'
    BY <1>3, CacheKept DEF cmd_ping
  <2>5. QED  BY <2>1, <2>3, <2>4 DEF NetInv
<1>4. CASE cmd_resolve
  <2>1. /\ sent' \in Frames /\ waiting' \in Waits \cup {None}
        /\ SentToNextHop' /\ WaitsOnlyForStrangers'
    BY <1>4, AddressAssumption, SendFacts DEF cmd_resolve, net_dns_resolve
  <2>2. PICK id \in DnsIds :
            dns' = [query_id |-> id, result_ip |-> None, got_reply |-> FALSE]
    BY <1>4 DEF cmd_resolve, net_dns_resolve
  <2>3. TypeOK'
    BY <1>4, <2>1, <2>2 DEF cmd_resolve, NetInv, TypeOK
  <2>4. Fresh' /\ Remembered'
    BY <1>4, CacheKept DEF cmd_resolve
  <2>5. QED  BY <2>1, <2>3, <2>4 DEF NetInv
<1>5. CASE UNCHANGED vars
  BY <1>5, CacheKept DEF vars, NetInv, TypeOK, SentToNextHop, WaitsOnlyForStrangers
<1>6. QED  BY <1>1, <1>2, <1>3, <1>4, <1>5 DEF Next

THEOREM NetInvariant == Spec => []NetInv
  BY InitNetInv, NextNetInv, PTL DEF Spec

(* The cache, the last frame and what the commands remember keep their      *)
(* types.                                                                   *)
THEOREM NetTypeCorrect == Spec => []TypeOK
  BY NetInvariant, PTL DEF NetInv

(* No packet goes astray: ip_send never uses an address that is not the one *)
(* the next hop announced last, whatever was overwritten or learnt since.   *)
THEOREM SentToNextHopAlways == Spec => []SentToNextHop
  BY NetInvariant, PTL DEF NetInv

(* An answer to a packet waits for an ARP reply, with no interrupt to bring *)
(* it, only when its next hop is unknown or the cache is too small.         *)
THEOREM WaitsOnlyForStrangersAlways == Spec => []WaitsOnlyForStrangers
  BY NetInvariant, PTL DEF NetInv

-----------------------------------------------------------------------------
(* The cache as Neighbours sees it: a map with the entries' hosts and       *)
(* addresses.                                                               *)
LEMMA KnownFacts ==
    TypeOK /\ Fresh =>
        /\ Known = [h \in DOMAIN Known |-> Known[h]]
        /\ DOMAIN Known = {arp_cache[i].ip : i \in Cached}
        /\ \A i \in Cached : Known[arp_cache[i].ip] = arp_cache[i].mac
<1> SUFFICES ASSUME TypeOK, Fresh
             PROVE  /\ Known = [h \in DOMAIN Known |-> Known[h]]
                    /\ DOMAIN Known = {arp_cache[i].ip : i \in Cached}
                    /\ \A i \in Cached : Known[arp_cache[i].ip] = arp_cache[i].mac
  OBVIOUS
<1>1. \A i \in Cached : /\ arp_cache[i].ip \in HOSTS /\ arp_cache[i].mac # None
                        /\ arp_lookup(arp_cache[i].ip) = arp_cache[i].mac
  BY LookupFacts, NoneAssumption
<1>2. \A h \in HOSTS : arp_lookup(h) = None \/ \E i \in Cached : arp_cache[i].ip = h
  BY LookupFacts
<1>3. DOMAIN Known = {arp_cache[i].ip : i \in Cached}
  <2>1. DOMAIN Known = {h \in HOSTS : arp_lookup(h) # None}
    BY DEF Known
  <2>2. QED  BY <1>1, <1>2, <2>1
<1>4. \A h \in DOMAIN Known : Known[h] = arp_lookup(h)
  BY DEF Known
<1>5. Known = [h \in DOMAIN Known |-> Known[h]]
  BY DEF Known
<1>6. QED  BY <1>1, <1>3, <1>4, <1>5

LEMMA SameCardinality == ASSUME NEW S PROVE N!Cardinality(S) = Cardinality(S)
  BY DEF N!Cardinality, Cardinality

(* An update with what a host announces is what Neighbours says of it.      *)
LEMMA UpdateLearns ==
    ASSUME NetInv, NetInv', NEW ip \in HOSTS, NEW mac \in MACS, arp_update(ip, mac),
           announced' = [announced EXCEPT ![ip] = mac]
    PROVE  N!Announce(ip, mac)
<1> DEFINE k == SlotFor(ip)
           e == [ip |-> ip, mac |-> mac]
<1> HIDE DEF k
<1>1. /\ k \in Slots
      /\ \/ k \in Cached /\ arp_cache[k].ip = ip
         \/ /\ \A i \in Cached : arp_cache[i].ip # ip
            /\ k \notin Cached \/ Cached = Slots
  BY SlotFacts DEF NetInv, k
<1>2. arp_cache' = [arp_cache EXCEPT ![k] = e] /\ e \in Entries /\ e # None
  BY NoneAssumption DEF arp_update, Entries, k
<1>3. /\ Cached' = Cached \cup {k} /\ arp_cache'[k] = e
      /\ \A i \in Cached : i # k => arp_cache'[i] = arp_cache[i]
  BY <1>1, <1>2 DEF NetInv, TypeOK, Cached
<1>4. /\ DOMAIN Known = {arp_cache[i].ip : i \in Cached}
      /\ \A i \in Cached : Known[arp_cache[i].ip] = arp_cache[i].mac
  BY KnownFacts DEF NetInv
<1>5. /\ Known' = [h \in DOMAIN Known' |-> Known'[h]]
      /\ DOMAIN Known' = {arp_cache'[i].ip : i \in Cached'}
      /\ \A i \in Cached' : Known'[arp_cache'[i].ip] = arp_cache'[i].mac
  <2>1. (TypeOK /\ Fresh =>
            /\ Known = [h \in DOMAIN Known |-> Known[h]]
            /\ DOMAIN Known = {arp_cache[i].ip : i \in Cached}
            /\ \A i \in Cached : Known[arp_cache[i].ip] = arp_cache[i].mac)'
    BY KnownFacts, PTL
  <2>2. QED  BY <2>1 DEF NetInv
<1>6. Known'[ip] = mac /\ \A i \in Cached : i # k => Known'[arp_cache[i].ip] = Known[arp_cache[i].ip]
  BY <1>3, <1>4, <1>5
<1>7. CASE k \in Cached /\ Cached = Slots /\ arp_cache[k].ip # ip
  <2> DEFINE old == arp_cache[k].ip
  <2>1. \A i \in Cached : arp_cache[i].ip # ip
    BY <1>1, <1>7
  <2>2. \A i \in Cached : i # k => arp_cache[i].ip # old
    BY <1>7 DEF NetInv, Fresh
  <2>3. old \in DOMAIN Known /\ ip \notin DOMAIN Known
    BY <1>4, <1>7, <2>1
  <2>4. DOMAIN Known' = (DOMAIN Known \ {old}) \cup {ip}
    BY <1>3, <1>4, <1>5, <1>7, <2>2
  <2>5. \A h \in DOMAIN Known \ {old} : h # ip /\ Known'[h] = Known[h]
    BY <1>4, <1>6, <2>3
  <2>6. Known' = [h \in (DOMAIN Known \ {old}) \cup {ip} |-> IF h = ip THEN mac ELSE Known[h]]
    BY <1>5, <1>6, <2>4, <2>5
  <2>7. Cardinality(DOMAIN Known) = ARP_CACHE_SIZE
    BY <1>4, <1>7, CachedHosts DEF NetInv
  <2>8. ~N!Room(ip)
    BY <2>3, <2>7, SameCardinality, CacheAssumption DEF N!Room
  <2>9. QED  BY <2>3, <2>6, <2>8 DEF N!Announce, N!Learn
<1>8. CASE k \in Cached /\ arp_cache[k].ip = ip
  <2>1. ip \in DOMAIN Known /\ DOMAIN Known' = DOMAIN Known \cup {ip}
    BY <1>3, <1>4, <1>5, <1>8
  <2>2. \A h \in DOMAIN Known : h # ip => Known'[h] = Known[h]
    BY <1>4, <1>6, <1>8
  <2>3. Known' = [h \in DOMAIN Known \cup {ip} |-> IF h = ip THEN mac ELSE Known[h]]
    BY <1>5, <1>6, <2>1, <2>2
  <2>4. QED  BY <2>1, <2>3 DEF N!Announce, N!Room, N!Learn
<1>9. CASE k \notin Cached
  <2>1. DOMAIN Known' = DOMAIN Known \cup {ip}
    BY <1>3, <1>4, <1>5, <1>9
  <2>2. \A h \in DOMAIN Known : h # ip /\ Known'[h] = Known[h]
    BY <1>1, <1>4, <1>6, <1>9
  <2>3. Known' = [h \in DOMAIN Known \cup {ip} |-> IF h = ip THEN mac ELSE Known[h]]
    BY <1>5, <1>6, <2>1, <2>2
  <2>4. Cardinality(DOMAIN Known) < ARP_CACHE_SIZE
    BY <1>1, <1>4, <1>9, CachedHosts DEF NetInv
  <2>5. QED  BY <2>3, <2>4, SameCardinality DEF N!Announce, N!Room, N!Learn
<1>10. QED  BY <1>1, <1>7, <1>8, <1>9

LEMMA StepImplements ==
    ASSUME NetInv, NetInv', [Next]_vars
    PROVE  [\E h \in HOSTS, m \in MACS : N!Announce(h, m)]_<<announced, Known>>
<1> DEFINE Same == UNCHANGED <<arp_cache, announced>>
<1>1. ASSUME NEW o \in {"request", "reply"}, NEW ip \in HOSTS, NEW mac \in MACS,
             NEW for_us \in BOOLEAN, handle_arp(o, ip, mac, for_us)
      PROVE  \E h \in HOSTS, m \in MACS : N!Announce(h, m)
  BY <1>1, UpdateLearns DEF handle_arp
<1>2. CASE Same
  <2>1. announced' = announced /\ arp_cache' = arp_cache
    BY <1>2
  <2>2. Known' = Known
    BY <2>1 DEF Known, arp_lookup, Holding
  <2>3. QED  BY <2>1, <2>2
<1>3. net_handle_packet => Same
           \/ \E o \in {"request", "reply"}, ip \in HOSTS, mac \in MACS, for_us \in BOOLEAN :
                handle_arp(o, ip, mac, for_us)
  BY DEF net_handle_packet, EchoRequest, EchoReply, handle_udp
<1>4. CtrlC \/ OtherCommand \/ cmd_resolve \/ UNCHANGED vars => Same
  BY DEF CtrlC, OtherCommand, cmd_resolve, vars
<1>5. (\E ip \in HOSTS : cmd_ping(ip)) => Same
  BY DEF cmd_ping
<1>6. QED  BY <1>1, <1>2, <1>3, <1>4, <1>5 DEF Next

(* The cache implements Neighbours, for any number of hosts.                *)
THEOREM CacheImplementsNeighbours == Spec => ImplementsNeighbours
<1>1. Init => N!Init
  <2> SUFFICES ASSUME Init PROVE Known = << >>
    BY DEF Init, N!Init
  <2>1. \A h \in HOSTS : arp_lookup(h) = None
    BY DEF Init, arp_lookup, Holding
  <2>2. QED  BY <2>1 DEF Known
<1>2. NetInv /\ NetInv' /\ [Next]_vars =>
        [\E h \in HOSTS, m \in MACS : N!Announce(h, m)]_<<announced, Known>>
  BY StepImplements
<1>3. QED
  BY <1>1, <1>2, NetInvariant, PTL DEF Spec, ImplementsNeighbours, N!Spec

-----------------------------------------------------------------------------
(* The network that the commands use is Net's: what is proved of Net holds  *)
(* of it.                                                                   *)
THEOREM ShellImplementsNet == ShellSpec => Spec
<1>1. ShellInit => Init
  BY DEF ShellInit
<1>2. [ShellNext]_shell_vars => [Next]_vars
  BY DEF ShellNext, shell_vars
<1>3. QED  BY <1>1, <1>2, PTL DEF ShellSpec, Spec

-----------------------------------------------------------------------------
(* The loader.                                                              *)

Tasks == [file : X!Loadable, runner : X!ElfSlots, number : Nat,
          at : X!Areas \cup {"created", "dead"}]

\* A task's runner is that of its load, whose slot has an entry since.
ElfInv ==
    /\ X!TypeOK
    /\ tasks \in Seq(Tasks)
    /\ \A i \in DOMAIN tasks :
        /\ tasks[i].number < next_elf_slot
        /\ tasks[i].runner = tasks[i].number % MAX_ELF_SLOTS
        /\ elf_entries[tasks[i].runner] \in X!Areas

LEMMA Division ==
    ASSUME NEW m \in Nat \ {0}, NEW n \in Nat
    PROVE  n = m * (n \div m) + (n % m)
  OBVIOUS

LEMMA TimesAtLeast ==
    ASSUME NEW m \in Nat \ {0}, NEW d \in Int, d >= 1
    PROVE  m * d >= m
  OBVIOUS

(* Two numbers less than a modulus apart have different remainders.         *)
LEMMA ModApart ==
    ASSUME NEW m \in Nat \ {0}, NEW a \in Nat, NEW n \in Nat, a < n, n - a < m
    PROVE  n % m # a % m
<1>1. n = m * (n \div m) + (n % m) /\ a = m * (a \div m) + (a % m)
  BY Division
<1>2. SUFFICES ASSUME n % m = a % m PROVE FALSE
  OBVIOUS
<1>3. PICK p \in Int, q \in Int : p = a \div m /\ q = n \div m
  OBVIOUS
<1>4. n - a = m * (q - p)
  BY <1>1, <1>2, <1>3
<1>5. q - p >= 1
  BY <1>4
<1>6. QED  BY <1>4, <1>5, TimesAtLeast

LEMMA ModBelow ==
    ASSUME NEW m \in Nat \ {0}, NEW k \in Nat
    PROVE  k % m \in 0 .. m - 1
  OBVIOUS

LEMMA EntryIsArea == \A f \in X!Given : f.entry \in X!Areas
  BY ProgramsAssumption DEF X!Given, X!ElfAssumption, X!Files, X!BuiltinPrograms, X!Areas

LEMMA ElfInitInv == X!Init => ElfInv /\ EntryKept
<1> SUFFICES ASSUME X!Init PROVE ElfInv /\ EntryKept
  OBVIOUS
<1>1. tasks = <<>> /\ tasks \in Seq(Tasks)
  BY DEF X!Init
<1>2. X!TypeOK
  BY <1>1, ProgramsAssumption DEF X!Init, X!TypeOK, X!ElfAssumption
<1>3. QED  BY <1>1, <1>2 DEF ElfInv, EntryKept, X!EntryKept

(* Whatever a step does to the task table, an entry or an area.             *)
LEMMA ElfNextInv == ElfInv /\ X!Next => ElfInv'
<1> SUFFICES ASSUME ElfInv, X!Next PROVE ElfInv'
  OBVIOUS
<1>1. MAX_ELF_SLOTS \in Nat \ {0} /\ MAX_TASKS \in Nat \ {0} /\ MAX_LOADS \in Nat
  BY ProgramsAssumption DEF X!ElfAssumption
<1>2. \A i \in DOMAIN tasks : tasks[i] \in Tasks
  BY DEF ElfInv
<1>3. ASSUME NEW f \in X!Given, X!CopySegments(f)
      PROVE  /\ DOMAIN memory' = X!Areas
             /\ \A a \in X!Areas : memory'[a] \in {g.name : g \in X!Given} \cup {Nobody}
  BY <1>3 DEF X!CopySegments, ElfInv, X!TypeOK
<1>4. ASSUME NEW f \in X!Given, X!SegmentRefused(f) PROVE ElfInv'
  BY <1>3, <1>4 DEF X!SegmentRefused, ElfInv, X!TypeOK
<1>5. ASSUME NEW f \in X!Given, X!Loaded(f) PROVE ElfInv'
  <2> DEFINE slot == next_elf_slot % MAX_ELF_SLOTS
             t == [file |-> f, runner |-> slot, number |-> next_elf_slot, at |-> "created"]
  <2>1. next_elf_slot \in Nat /\ next_elf_slot' = next_elf_slot + 1
    BY <1>5, <1>1 DEF X!Loaded, ElfInv, X!TypeOK
  <2>2. slot \in X!ElfSlots
    BY <1>1, <2>1, ModBelow DEF X!ElfSlots
  <2>3. /\ elf_entries' = [elf_entries EXCEPT ![slot] = f.entry] /\ f.entry \in X!Areas
        /\ elf_entries \in [X!ElfSlots -> X!Areas \cup {Nobody}]
    BY <1>5, EntryIsArea DEF X!Loaded, X!Slot, ElfInv, X!TypeOK
  <2>4. t \in Tasks
    BY <1>5, <2>1, <2>2 DEF X!Loaded, Tasks, X!Loadable
  <2>5. tasks' = tasks \/ (tasks' = Append(tasks, t) /\ Len(tasks) < MAX_TASKS - 1)
    BY <1>5 DEF X!Loaded, X!Slot
  <2>6. /\ tasks' \in Seq(Tasks) /\ Len(tasks') < MAX_TASKS
        /\ \A i \in DOMAIN tasks' : (i \in DOMAIN tasks /\ tasks'[i] = tasks[i]) \/ tasks'[i] = t
    <3>1. CASE tasks' = tasks
      BY <3>1 DEF ElfInv, X!TypeOK
    <3>2. CASE tasks' = Append(tasks, t) /\ Len(tasks) < MAX_TASKS - 1
      BY <3>2, <2>4, <1>1 DEF ElfInv
    <3>3. QED  BY <2>5, <3>1, <3>2
  <2>7. ASSUME NEW i \in DOMAIN tasks'
        PROVE  /\ tasks'[i].number < next_elf_slot'
               /\ tasks'[i].runner = tasks'[i].number % MAX_ELF_SLOTS
               /\ elf_entries'[tasks'[i].runner] \in X!Areas
    <3>1. CASE i \in DOMAIN tasks /\ tasks'[i] = tasks[i]
      <4>1. tasks[i] \in Tasks /\ tasks[i].number \in Nat /\ tasks[i].runner \in X!ElfSlots
        BY <3>1, <1>2 DEF Tasks
      <4>2. QED  BY <3>1, <4>1, <2>1, <2>3 DEF ElfInv
    <3>2. CASE tasks'[i] = t
      BY <3>2, <2>1, <2>2, <2>3
    <3>3. QED  BY <2>6, <3>1, <3>2
  <2>8. X!TypeOK'
    <3>1. next_elf_slot' \in 0 .. MAX_LOADS
      BY <1>1, <1>5, <2>1 DEF X!Loaded
    <3>2. elf_entries' \in [X!ElfSlots -> X!Areas \cup {Nobody}]
      BY <2>2, <2>3
    <3>3. \A i \in DOMAIN tasks' : tasks'[i] \in Tasks
      BY <2>6
    <3>4. \A i \in DOMAIN tasks' : /\ tasks'[i].runner \in X!ElfSlots
                                   /\ tasks'[i].at \in X!Areas \cup {"created", "dead"}
      BY <3>3 DEF Tasks
    <3>5. X!CopySegments(f)
      BY <1>5 DEF X!Loaded
    <3>6. QED  BY <1>3, <2>6, <3>1, <3>2, <3>4, <3>5 DEF X!TypeOK
  <2>9. QED  BY <2>6, <2>7, <2>8 DEF ElfInv
<1>6. ASSUME NEW i \in DOMAIN tasks, NEW place \in X!Areas \cup {"created", "dead"},
             tasks' = [tasks EXCEPT ![i].at = place],
             UNCHANGED <<memory, elf_entries, next_elf_slot>>
      PROVE  ElfInv'
  <2>1. [tasks[i] EXCEPT !.at = place] \in Tasks
    BY <1>2, <1>6 DEF Tasks
  <2>2. /\ tasks' \in Seq(Tasks) /\ DOMAIN tasks' = DOMAIN tasks /\ Len(tasks') = Len(tasks)
        /\ \A j \in DOMAIN tasks : /\ tasks'[j] \in Tasks
                                   /\ tasks'[j].runner = tasks[j].runner
                                   /\ tasks'[j].number = tasks[j].number
    <3>1. tasks \in Seq(Tasks) /\ \A j \in DOMAIN tasks : tasks[j] \in Tasks
      BY <1>2 DEF ElfInv
    <3>2. DOMAIN tasks' = DOMAIN tasks /\ tasks' \in Seq(Tasks) /\ Len(tasks') = Len(tasks)
      BY <1>6, <2>1, <3>1
    <3>3. ASSUME NEW j \in DOMAIN tasks
          PROVE  /\ tasks'[j] \in Tasks
                 /\ tasks'[j].runner = tasks[j].runner /\ tasks'[j].number = tasks[j].number
      <4>1. CASE j = i
        <5>1. tasks'[j] = [tasks[i] EXCEPT !.at = place]
          BY <1>6, <3>1, <4>1
        <5>2. QED  BY <2>1, <3>1, <4>1, <5>1 DEF Tasks
      <4>2. CASE j # i
        <5>1. tasks'[j] = tasks[j]
          BY <1>6, <3>1, <4>2
        <5>2. QED  BY <3>1, <5>1
      <4>3. QED  BY <4>1, <4>2
    <3>4. QED  BY <3>2, <3>3
  <2>3. X!TypeOK'
    BY <1>6, <2>2 DEF ElfInv, X!TypeOK, Tasks
  <2>4. QED  BY <1>6, <2>2, <2>3 DEF ElfInv
<1>7. ASSUME NEW i \in DOMAIN tasks, X!Start(i) \/ X!End(i) PROVE ElfInv'
  BY <1>6, <1>7 DEF X!Start, X!End, ElfInv
<1>8. QED  BY <1>4, <1>5, <1>7 DEF X!Next

(* A load leaves the entries of the waiting tasks it counts for alone, and  *)
(* copies nothing to an area that another program has to itself.            *)
LEMMA EntryNextInv == ElfInv /\ EntryKept /\ X!Next => EntryKept'
<1> SUFFICES ASSUME ElfInv, EntryKept, X!Next PROVE EntryKept'
  OBVIOUS
<1>1. MAX_ELF_SLOTS \in Nat \ {0} /\ next_elf_slot \in Nat
  BY ProgramsAssumption DEF X!ElfAssumption, ElfInv, X!TypeOK
<1>2. \A i \in DOMAIN tasks :
        /\ tasks[i] \in Tasks /\ tasks[i].number \in Nat /\ tasks[i].runner \in X!ElfSlots
        /\ tasks[i].file \in X!Loadable /\ tasks[i].file.entry \in X!Areas
  <2>1. \A i \in DOMAIN tasks : tasks[i] \in Tasks
    BY DEF ElfInv
  <2>2. \A t \in Tasks : /\ t.number \in Nat /\ t.runner \in X!ElfSlots /\ t.file \in X!Loadable
                         /\ t.file.entry \in X!Areas
    BY EntryIsArea DEF Tasks, X!Loadable
  <2>3. QED  BY <2>1, <2>2
<1>3. ASSUME NEW f \in X!Given, X!elf_validate(f), X!CopySegments(f), NEW g \in X!Loadable,
             X!OwnArea(g), memory[g.entry] = g.name
      PROVE  memory'[g.entry] = g.name
  <2>1. g.entry \in X!Areas
    BY EntryIsArea DEF X!Loadable
  <2>2. memory'[g.entry] = IF g.entry \in X!Copied(f) THEN f.name ELSE memory[g.entry]
    BY <1>3, <2>1 DEF X!CopySegments
  <2>3. QED  BY <1>3, <2>2 DEF X!OwnArea
<1>4. ASSUME NEW f \in X!Given, X!SegmentRefused(f) PROVE EntryKept'
  BY <1>2, <1>3, <1>4 DEF X!SegmentRefused, EntryKept, X!EntryKept
<1>5. ASSUME NEW f \in X!Given, X!Loaded(f) PROVE EntryKept'
  <2> DEFINE slot == next_elf_slot % MAX_ELF_SLOTS
             t == [file |-> f, runner |-> slot, number |-> next_elf_slot, at |-> "created"]
  <2>1. slot \in X!ElfSlots /\ f \in X!Loadable
    BY <1>1, <1>5, ModBelow DEF X!ElfSlots, X!Loaded, X!Loadable
  <2>2. /\ elf_entries' = [elf_entries EXCEPT ![slot] = f.entry]
        /\ elf_entries \in [X!ElfSlots -> X!Areas \cup {Nobody}]
        /\ next_elf_slot' = next_elf_slot + 1
        /\ X!CopySegments(f) /\ X!elf_validate(f)
    BY <1>5 DEF X!Loaded, X!Slot, ElfInv, X!TypeOK
  <2>3. \A i \in DOMAIN tasks' : (i \in DOMAIN tasks /\ tasks'[i] = tasks[i]) \/ tasks'[i] = t
    BY <1>5 DEF X!Loaded, X!Slot, ElfInv
  <2>4. SUFFICES ASSUME NEW i \in DOMAIN tasks', tasks'[i].at = "created",
                        next_elf_slot' - tasks'[i].number <= MAX_ELF_SLOTS
                 PROVE  /\ elf_entries'[tasks'[i].runner] = tasks'[i].file.entry
                        /\ X!OwnArea(tasks'[i].file) =>
                            memory'[tasks'[i].file.entry] = tasks'[i].file.name
    BY DEF EntryKept, X!EntryKept
  <2>5. CASE i \in DOMAIN tasks /\ tasks'[i] = tasks[i]
    <3>1. /\ tasks[i].number \in Nat /\ tasks[i].number < next_elf_slot
          /\ next_elf_slot - tasks[i].number < MAX_ELF_SLOTS
          /\ tasks[i].runner = tasks[i].number % MAX_ELF_SLOTS
      BY <1>1, <1>2, <2>2, <2>4, <2>5 DEF ElfInv
    <3>2. slot # tasks[i].runner
      BY <1>1, <3>1, ModApart
    <3>3. /\ elf_entries[tasks[i].runner] = tasks[i].file.entry
          /\ X!OwnArea(tasks[i].file) => memory[tasks[i].file.entry] = tasks[i].file.name
      BY <1>1, <2>4, <2>5, <3>1 DEF EntryKept, X!EntryKept
    <3>4. elf_entries'[tasks[i].runner] = tasks[i].file.entry
      BY <1>2, <2>2, <2>5, <3>2, <3>3
    <3>5. X!OwnArea(tasks[i].file) => memory'[tasks[i].file.entry] = tasks[i].file.name
      BY <1>2, <1>3, <2>2, <2>5, <3>3
    <3>6. QED  BY <2>5, <3>4, <3>5
  <2>6. CASE tasks'[i] = t
    <3>1. elf_entries'[slot] = f.entry
      BY <2>1, <2>2
    <3>2. X!OwnArea(f) => memory'[f.entry] = f.name
      BY <2>1, <2>2, EntryIsArea DEF X!OwnArea, X!CopySegments
    <3>3. QED  BY <2>6, <3>1, <3>2
  <2>7. QED  BY <2>3, <2>5, <2>6
<1>6. ASSUME NEW i \in DOMAIN tasks, NEW place, place # "created",
             tasks' = [tasks EXCEPT ![i].at = place],
             UNCHANGED <<memory, elf_entries, next_elf_slot>>
      PROVE  EntryKept'
  <2>1. DOMAIN tasks' = DOMAIN tasks /\ tasks'[i].at = place
    BY <1>2, <1>6 DEF Tasks, ElfInv
  <2>2. \A j \in DOMAIN tasks : j # i => tasks'[j] = tasks[j]
    BY <1>6 DEF ElfInv
  <2>3. QED  BY <1>6, <2>1, <2>2 DEF EntryKept, X!EntryKept
<1>7. ASSUME NEW i \in DOMAIN tasks, X!Start(i) \/ X!End(i) PROVE EntryKept'
  BY <1>6, <1>7 DEF X!Start, X!End, ElfInv, X!Areas
<1>8. QED  BY <1>4, <1>5, <1>7 DEF X!Next

LEMMA ElfAlways == ShellSpec => []ElfInv
<1>1. ShellInit => ElfInv
  BY ElfInitInv DEF ShellInit
<1>2. ElfInv /\ [ShellNext]_shell_vars => ElfInv'
  <2>1. ElfInv /\ UNCHANGED programs => ElfInv'
    BY DEF ElfInv, X!TypeOK, programs
  <2>2. QED  BY <2>1, ElfNextInv DEF ShellNext, shell_vars
<1>3. QED  BY <1>1, <1>2, PTL DEF ShellSpec

(* A program that waits for its first turn keeps its entry until            *)
(* MAX_ELF_SLOTS more are loaded, for any files and numbers of slots, and   *)
(* its bytes there if no other file is ever copied to its area.             *)
THEOREM EntryKeptAlways == ShellSpec => []EntryKept
<1>1. ShellInit => EntryKept
  BY ElfInitInv DEF ShellInit
<1>2. ElfInv /\ EntryKept /\ [ShellNext]_shell_vars => EntryKept'
  <2>1. EntryKept /\ UNCHANGED programs => EntryKept'
    BY DEF EntryKept, X!EntryKept, programs
  <2>2. QED  BY <2>1, EntryNextInv DEF ShellNext, shell_vars
<1>3. QED  BY <1>1, <1>2, ElfAlways, PTL DEF ShellSpec

-----------------------------------------------------------------------------
(* The tables.                                                              *)

\* A name is in the table once; what is behind the count does not matter.
Table(t, max) ==
    /\ t \in V!Tables(max)
    /\ \A i \in 1 .. t.count : t.keys[i] \in NAMES /\ t.values[i] \in TEXTS
    /\ \A i, j \in 1 .. t.count : t.keys[i] = t.keys[j] => i = j

Keys(t) == {t.keys[i] : i \in 1 .. t.count}
IsMap(m) == m = [k \in DOMAIN m |-> m[k]]

\* The entries of s are those of t, with v as the value of k.
Updates(s, t, k, v) ==
    \A j \in 1 .. s.count :
        \/ s.keys[j] = k /\ s.values[j] = v
        \/ /\ s.keys[j] # k /\ j \in 1 .. t.count
           /\ s.keys[j] = t.keys[j] /\ s.values[j] = t.values[j]

LEMMA TableFields ==
    ASSUME NEW max \in Nat, NEW t \in V!Tables(max)
    PROVE  /\ t.keys \in [1 .. max -> NAMES \cup {Nothing}]
           /\ t.values \in [1 .. max -> TEXTS \cup {Nothing}]
           /\ t.count \in 0 .. max /\ t.count \in Nat /\ 1 .. t.count \subseteq 1 .. max
  BY DEF V!Tables

(* Where a name is, if it is in the table.                                  *)
LEMMA PlaceFacts ==
    ASSUME NEW max \in Nat, NEW t, Table(t, max), NEW i \in 1 .. t.count
    PROVE  V!Places(t, t.keys[i]) = {i} /\ V!FirstPlace(t, t.keys[i]) = i
<1>1. V!Places(t, t.keys[i]) = {i}
  BY DEF V!Places, Table
<1>2. i \in Nat
  BY TableFields DEF Table
<1>3. QED  BY <1>1, <1>2 DEF V!FirstPlace

LEMMA LookupFound ==
    ASSUME NEW max \in Nat, NEW t, Table(t, max)
    PROVE  /\ \A i \in 1 .. t.count : /\ V!Lookup(t, t.keys[i]) = t.values[i]
                                      /\ t.values[i] # Nothing
           /\ \A k : (\A i \in 1 .. t.count : t.keys[i] # k) => V!Lookup(t, k) = Nothing
<1>1. ASSUME NEW i \in 1 .. t.count PROVE V!Lookup(t, t.keys[i]) = t.values[i]
  BY PlaceFacts DEF V!Lookup
<1>2. \A i \in 1 .. t.count : t.values[i] # Nothing
  BY VariablesAssumption DEF Table, V!EnvAssumption
<1>3. ASSUME NEW k, \A i \in 1 .. t.count : t.keys[i] # k PROVE V!Lookup(t, k) = Nothing
  BY <1>3 DEF V!Lookup, V!Places
<1>4. QED  BY <1>1, <1>2, <1>3

(* The table as a map: its domain, its values, how many entries it has.     *)
LEMMA MapFacts ==
    ASSUME NEW max \in Nat, NEW t, Table(t, max)
    PROVE  LET m == V!AsMap(t) IN
           /\ IsMap(m)
           /\ DOMAIN m = Keys(t)
           /\ \A i \in 1 .. t.count : m[t.keys[i]] = t.values[i]
           /\ Cardinality(DOMAIN m) = t.count
<1> DEFINE m == V!AsMap(t)
           f == [i \in 1 .. t.count |-> t.keys[i]]
<1>1. DOMAIN m = Keys(t)
  <2>1. DOMAIN m = {k \in NAMES : V!Lookup(t, k) # Nothing}
    BY DEF V!AsMap
  <2>2. \A i \in 1 .. t.count : t.keys[i] \in NAMES
    BY DEF Table
  <2>3. QED  BY <2>1, <2>2, LookupFound DEF Keys
<1>2. \A k \in DOMAIN m : m[k] = V!Lookup(t, k)
  BY DEF V!AsMap
<1>3. IsMap(m)
  BY DEF V!AsMap, IsMap
<1>4. f \in Surjection(1 .. t.count, DOMAIN m) /\ f \in Injection(1 .. t.count, DOMAIN m)
  <2>1. f \in [1 .. t.count -> DOMAIN m] /\ \A k \in DOMAIN m : \E i \in 1 .. t.count : f[i] = k
    BY <1>1 DEF Keys
  <2>2. \A i, j \in 1 .. t.count : f[i] = f[j] => i = j
    BY DEF Table
  <2>3. QED  BY <2>1, <2>2 DEF Surjection, Injection, IsInjective
<1>5. t.count \in Nat /\ IsFiniteSet(1 .. t.count) /\ Cardinality(1 .. t.count) = t.count
  <2>1. t.count \in Nat
    BY TableFields DEF Table
  <2>2. PICK c \in Nat : c = t.count
    BY <2>1
  <2>3. IsFiniteSet(1 .. c) /\ Cardinality(1 .. c) = c
    BY FS_Interval
  <2>4. QED  BY <2>2, <2>3
<1>6. Cardinality(DOMAIN m) = t.count
  BY <1>4, <1>5, FS_Surjection
<1>7. QED  BY <1>1, <1>2, <1>3, <1>6, LookupFound DEF Keys

(* env_set and cmd_alias: the name has the value, or there was no room.     *)
LEMMA StoredFacts ==
    ASSUME NEW max \in Nat, NEW t, Table(t, max), NEW k \in NAMES, NEW v \in TEXTS,
           NEW s, s = V!Stored(t, k, v)
    PROVE  /\ Table(s, max)
           /\ \/ s = t /\ k \notin Keys(t) /\ t.count = max
              \/ /\ k \in Keys(t) \/ t.count < max
                 /\ Updates(s, t, k, CUT[v])
                 /\ Keys(s) = Keys(t) \cup {k}
<1>1. /\ t.keys \in [1 .. max -> NAMES \cup {Nothing}]
      /\ t.values \in [1 .. max -> TEXTS \cup {Nothing}]
      /\ t.count \in 0 .. max /\ t.count \in Nat /\ 1 .. t.count \subseteq 1 .. max
  BY TableFields DEF Table
<1>2. CUT[v] \in TEXTS
  BY VariablesAssumption DEF V!EnvAssumption
<1>3. CASE \E p \in 1 .. t.count : t.keys[p] = k
  <2>1. PICK p \in 1 .. t.count : t.keys[p] = k
    BY <1>3
  <2>2. V!Places(t, k) # {} /\ V!FirstPlace(t, k) = p
    BY <2>1, PlaceFacts
  <2>3. p \in DOMAIN t.keys /\ ~ p > t.count
    BY <1>1
  <2>4. s = [keys |-> [t.keys EXCEPT ![p] = k], values |-> [t.values EXCEPT ![p] = CUT[v]],
             count |-> t.count]
    BY <2>2, <2>3 DEF V!Stored
  <2>5. s.keys = t.keys /\ s.count = t.count
    BY <1>1, <2>1, <2>4
  <2>6. /\ s.values \in [1 .. max -> TEXTS \cup {Nothing}]
        /\ \A j \in 1 .. t.count : s.values[j] = IF j = p THEN CUT[v] ELSE t.values[j]
    BY <1>1, <1>2, <2>4
  <2>7. Table(s, max)
    BY <1>1, <1>2, <2>4, <2>5, <2>6 DEF Table, V!Tables
  <2>8. QED  BY <2>1, <2>5, <2>6, <2>7 DEF Table, Updates, Keys
<1>4. CASE \A p \in 1 .. t.count : t.keys[p] # k
  <2>1. V!Places(t, k) = {}
    BY <1>4 DEF V!Places
  <2>2. CASE t.count + 1 \notin 1 .. max
    <3>1. s = t
      BY <1>1, <2>1, <2>2 DEF V!Stored
    <3>2. t.count = max /\ k \notin Keys(t)
      BY <1>1, <1>4, <2>2 DEF Keys
    <3>3. QED  BY <3>1, <3>2
  <2>3. CASE t.count + 1 \in 1 .. max
    <3> DEFINE n == t.count + 1
    <3>1. s = [keys |-> [t.keys EXCEPT ![n] = k], values |-> [t.values EXCEPT ![n] = CUT[v]],
               count |-> n]
      <4>1. ~ (n \notin DOMAIN t.keys) /\ n > t.count
        BY <1>1, <2>3
      <4>2. QED  BY <2>1, <4>1 DEF V!Stored
    <3>2. /\ s.keys \in [1 .. max -> NAMES \cup {Nothing}]
          /\ s.values \in [1 .. max -> TEXTS \cup {Nothing}] /\ s.count \in 0 .. max
      BY <1>1, <1>2, <2>3, <3>1
    <3>3. /\ s.count = n /\ s.keys[n] = k /\ s.values[n] = CUT[v]
          /\ \A j \in 1 .. t.count : s.keys[j] = t.keys[j] /\ s.values[j] = t.values[j]
      BY <1>1, <2>3, <3>1
    <3>4. 1 .. n = (1 .. t.count) \cup {n} /\ n \notin 1 .. t.count
      BY <1>1
    <3>5. s \in V!Tables(max)
      BY <3>1, <3>2 DEF V!Tables
    <3>6. Table(s, max)
      BY <1>2, <1>4, <3>3, <3>4, <3>5 DEF Table
    <3>7. Keys(s) = Keys(t) \cup {k}
      BY <3>3, <3>4 DEF Keys
    <3>8. t.count < max
      BY <1>1, <2>3
    <3>9. QED  BY <1>4, <3>3, <3>4, <3>6, <3>7, <3>8 DEF Updates
  <2>4. QED  BY <2>2, <2>3
<1>5. QED  BY <1>3, <1>4

(* env_unset and cmd_unalias: the entries behind the removed one move up.   *)
Without(s, t, k) ==
    /\ Keys(s) = Keys(t) \ {k}
    /\ \A j \in 1 .. s.count : \E i \in 1 .. t.count :
         s.keys[j] = t.keys[i] /\ s.values[j] = t.values[i]

LEMMA RemovedFacts ==
    ASSUME NEW max \in Nat, NEW t, Table(t, max), NEW k,
           NEW p \in 1 .. t.count, t.keys[p] = k, NEW s, s = V!Removed(t, k)
    PROVE  Table(s, max) /\ Without(s, t, k)
<1> DEFINE c == t.count
           from(j) == IF p <= j THEN j + 1 ELSE j
<1>1. /\ t.keys \in [1 .. max -> NAMES \cup {Nothing}]
      /\ t.values \in [1 .. max -> TEXTS \cup {Nothing}]
      /\ c \in 0 .. max /\ c \in Nat /\ 1 .. c \subseteq 1 .. max
  BY TableFields DEF Table
<1>2. V!Places(t, k) # {} /\ V!FirstPlace(t, k) = p
  BY PlaceFacts
<1>3. s = [keys |-> [j \in 1 .. max |-> IF p <= j /\ j < c THEN t.keys[j + 1] ELSE t.keys[j]],
           values |-> [j \in 1 .. max |-> IF p <= j /\ j < c THEN t.values[j + 1] ELSE t.values[j]],
           count |-> c - 1]
  BY <1>1, <1>2 DEF V!Removed
<1>4. /\ s.keys \in [1 .. max -> NAMES \cup {Nothing}]
      /\ s.values \in [1 .. max -> TEXTS \cup {Nothing}]
      /\ s.count \in 0 .. max
  BY <1>1, <1>3
<1>5. s \in V!Tables(max)
  BY <1>3, <1>4 DEF V!Tables
<1>6. ASSUME NEW j \in 1 .. s.count
      PROVE  from(j) \in 1 .. c /\ from(j) # p /\ s.keys[j] = t.keys[from(j)]
             /\ s.values[j] = t.values[from(j)]
  BY <1>1, <1>3
<1>7. ASSUME NEW i \in 1 .. c, i # p
      PROVE  \E j \in 1 .. s.count : from(j) = i
  <2>1. CASE i < p
    <3>1. i \in 1 .. s.count /\ from(i) = i
      BY <1>1, <1>3, <2>1
    <3>2. QED  BY <3>1
  <2>2. CASE p < i
    <3>1. i - 1 \in 1 .. s.count /\ from(i - 1) = i
      BY <1>1, <1>3, <2>2
    <3>2. QED  BY <3>1
  <2>3. QED  BY <1>1, <1>7, <2>1, <2>2
<1>8. \A i, j \in 1 .. s.count : from(i) = from(j) => i = j
  BY <1>1, <1>3
<1> HIDE DEF from
<1>9. Table(s, max)
  <2>1. \A j \in 1 .. s.count : s.keys[j] \in NAMES /\ s.values[j] \in TEXTS
    BY <1>6 DEF Table
  <2>2. \A i, j \in 1 .. s.count : s.keys[i] = s.keys[j] => i = j
    BY <1>6, <1>8 DEF Table
  <2>3. QED  BY <1>5, <2>1, <2>2 DEF Table
<1>10. Keys(s) = Keys(t) \ {k}
  <2>1. \A i \in 1 .. c : t.keys[i] = k <=> i = p
    BY DEF Table
  <2>2. QED  BY <1>6, <1>7, <2>1 DEF Keys
<1>11. Without(s, t, k)
  BY <1>6, <1>10 DEF Without
<1>12. QED  BY <1>9, <1>11

(* What the two lemmas say of the map.                                      *)
Remove(m, k) == [h \in DOMAIN m \ {k} |-> m[h]]
Put(m, max, k, v) ==
    IF k \in DOMAIN m \/ Cardinality(DOMAIN m) < max
    THEN [h \in DOMAIN m \cup {k} |-> IF h = k THEN CUT[v] ELSE m[h]]
    ELSE m

LEMMA StoredMap ==
    ASSUME NEW max \in Nat, NEW t, Table(t, max), NEW k \in NAMES, NEW v \in TEXTS,
           NEW s, s = V!Stored(t, k, v)
    PROVE  V!AsMap(s) = Put(V!AsMap(t), max, k, v)
<1> DEFINE m == V!AsMap(t)
           n == V!AsMap(s)
<1>1. Table(s, max)
  BY StoredFacts
<1>2. /\ DOMAIN m = Keys(t)
      /\ \A i \in 1 .. t.count : m[t.keys[i]] = t.values[i]
      /\ Cardinality(DOMAIN m) = t.count /\ t.count \in Nat
  BY MapFacts, TableFields DEF Table
<1>3. /\ IsMap(n)
      /\ DOMAIN n = Keys(s)
      /\ \A i \in 1 .. s.count : n[s.keys[i]] = s.values[i]
  BY <1>1, MapFacts
<1>4. CASE s = t /\ k \notin Keys(t) /\ t.count = max
  BY <1>2, <1>4 DEF Put
<1>5. CASE /\ k \in Keys(t) \/ t.count < max
           /\ Updates(s, t, k, CUT[v])
           /\ Keys(s) = Keys(t) \cup {k}
  <2> HIDE DEF m, n
  <2>1. DOMAIN n = DOMAIN m \cup {k}
    BY <1>2, <1>3, <1>5
  <2>2. ASSUME NEW h \in DOMAIN n PROVE n[h] = IF h = k THEN CUT[v] ELSE m[h]
    <3>1. PICK j \in 1 .. s.count : s.keys[j] = h
      BY <1>3 DEF Keys
    <3>2. \/ h = k /\ s.values[j] = CUT[v]
          \/ h # k /\ j \in 1 .. t.count /\ t.keys[j] = h /\ s.values[j] = t.values[j]
      BY <1>5, <3>1 DEF Updates
    <3>3. QED  BY <1>2, <1>3, <3>1, <3>2
  <2>3. n = [h \in DOMAIN m \cup {k} |-> IF h = k THEN CUT[v] ELSE m[h]]
    BY <1>3, <2>1, <2>2 DEF IsMap
  <2>4. k \in DOMAIN m \/ Cardinality(DOMAIN m) < max
    BY <1>2, <1>5
  <2>5. n = Put(m, max, k, v)
    BY <2>3, <2>4 DEF Put
  <2>6. QED  BY <2>5 DEF m, n
<1>6. QED  BY <1>4, <1>5, StoredFacts

LEMMA RemovedMap ==
    ASSUME NEW max \in Nat, NEW t, Table(t, max), NEW k \in NAMES,
           NEW s, s = V!Removed(t, k)
    PROVE  Table(s, max) /\ V!AsMap(s) = Remove(V!AsMap(t), k)
<1> DEFINE m == V!AsMap(t)
           n == V!AsMap(s)
<1>1. /\ DOMAIN m = Keys(t) /\ IsMap(m)
      /\ \A i \in 1 .. t.count : m[t.keys[i]] = t.values[i]
  BY MapFacts
<1>2. CASE \A p \in 1 .. t.count : t.keys[p] # k
  <2>1. s = t
    BY <1>2 DEF V!Removed, V!Places
  <2>2. DOMAIN m \ {k} = DOMAIN m
    BY <1>1, <1>2 DEF Keys
  <2>3. m = [h \in DOMAIN m \ {k} |-> m[h]]
    BY <1>1, <2>2 DEF IsMap
  <2>4. m = Remove(m, k)
    BY <2>3 DEF Remove
  <2>5. QED  BY <2>1, <2>4
<1>3. CASE \E p \in 1 .. t.count : t.keys[p] = k
  <2>1. PICK p \in 1 .. t.count : t.keys[p] = k
    BY <1>3
  <2>2. Table(s, max) /\ Without(s, t, k)
    BY <2>1, RemovedFacts
  <2>3. /\ IsMap(n) /\ DOMAIN n = Keys(s)
        /\ \A i \in 1 .. s.count : n[s.keys[i]] = s.values[i]
    BY <2>2, MapFacts
  <2> HIDE DEF m, n
  <2>4. DOMAIN n = DOMAIN m \ {k}
    BY <1>1, <2>2, <2>3 DEF Without
  <2>5. ASSUME NEW h \in DOMAIN n PROVE n[h] = m[h]
    <3>1. PICK j \in 1 .. s.count : s.keys[j] = h
      BY <2>3 DEF Keys
    <3>2. PICK i \in 1 .. t.count : s.keys[j] = t.keys[i] /\ s.values[j] = t.values[i]
      BY <2>2 DEF Without
    <3>3. QED  BY <1>1, <2>3, <3>1, <3>2
  <2>6. n = Remove(m, k)
    BY <2>3, <2>4, <2>5 DEF IsMap, Remove
  <2>7. QED  BY <2>2, <2>6 DEF m, n
<1>4. QED  BY <1>2, <1>3

-----------------------------------------------------------------------------
(* The sessions that use the tables.                                        *)

EnvInv ==
    /\ Table(env, ENV_MAX_VARS) /\ Table(aliases, MAX_ALIASES)
    /\ \/ \E word \in NAMES \cup TEXTS \cup {Nothing} : done = V!Ran(word)
       \/ \E table \in {"env", "aliases"}, k \in NAMES :
            \/ done = V!RemoveFrom(table, k)
            \/ \E v \in TEXTS : done = V!PutIn(table, k, v)

LEMMA Rooms == ENV_MAX_VARS \in Nat /\ MAX_ALIASES \in Nat
  BY VariablesAssumption DEF V!EnvAssumption

LEMMA EnvInitInv == V!Init => EnvInv
<1> SUFFICES ASSUME V!Init PROVE EnvInv
  OBVIOUS
<1>1. Table(aliases, MAX_ALIASES)
  BY Rooms DEF V!Init, V!Empty, V!Tables, Table
<1>2. Table(env, ENV_MAX_VARS)
  <2> DEFINE n == Len(DEFAULTS)
  <2>1. n \in Nat /\ n <= ENV_MAX_VARS /\ DOMAIN DEFAULTS = 1 .. n
    BY VariablesAssumption DEF V!EnvAssumption
  <2>2. \A i \in 1 .. n : DEFAULTS[i] \in NAMES \X TEXTS
    BY VariablesAssumption, <2>1 DEF V!EnvAssumption
  <2>3. \A i \in 1 .. n : DEFAULTS[i][1] \in NAMES /\ CUT[DEFAULTS[i][2]] \in TEXTS
    BY <2>2, VariablesAssumption DEF V!EnvAssumption
  <2>4. \A i, j \in 1 .. n : DEFAULTS[i][1] = DEFAULTS[j][1] => i = j
    BY <2>1, VariablesAssumption DEF V!EnvAssumption
  <2> HIDE DEF n
  <2>5. /\ env.count = n
        /\ env.keys = [i \in 1 .. ENV_MAX_VARS |->
                        IF i \in 1 .. n THEN DEFAULTS[i][1] ELSE Nothing]
        /\ env.values = [i \in 1 .. ENV_MAX_VARS |->
                        IF i \in 1 .. n THEN CUT[DEFAULTS[i][2]] ELSE Nothing]
        /\ env = [keys |-> env.keys, values |-> env.values, count |-> env.count]
    BY <2>1 DEF V!Init, V!env_init, n
  <2>6. /\ env.keys \in [1 .. ENV_MAX_VARS -> NAMES \cup {Nothing}]
        /\ env.values \in [1 .. ENV_MAX_VARS -> TEXTS \cup {Nothing}]
        /\ env.count \in 0 .. ENV_MAX_VARS
    BY <2>1, <2>3, <2>5, Rooms
  <2>7. env \in V!Tables(ENV_MAX_VARS)
    BY <2>5, <2>6, Zenon DEF V!Tables
  <2>8. 1 .. n \subseteq 1 .. ENV_MAX_VARS
    BY <2>1, Rooms
  <2>9. QED  BY <2>3, <2>4, <2>5, <2>7, <2>8 DEF Table
<1>3. QED  BY <1>1, <1>2 DEF V!Init, EnvInv

LEMMA StoredTable ==
    ASSUME NEW max \in Nat, NEW t, Table(t, max), NEW k \in NAMES, NEW v \in TEXTS
    PROVE  Table(V!Stored(t, k, v), max)
  BY StoredFacts

LEMMA RemovedTable ==
    ASSUME NEW max \in Nat, NEW t, Table(t, max), NEW k \in NAMES
    PROVE  Table(V!Removed(t, k), max)
  BY RemovedMap

LEMMA EnvNextInv == EnvInv /\ (V!NextVariables \/ V!NextAliases) => EnvInv'
<1> SUFFICES ASSUME EnvInv, V!NextVariables \/ V!NextAliases PROVE EnvInv'
  OBVIOUS
<1>1. ASSUME NEW n \in NAMES, NEW v \in TEXTS, V!cmd_set(n, v) \/ V!cmd_alias(n, v) PROVE EnvInv'
  BY <1>1, Rooms, StoredTable DEF EnvInv, V!cmd_set, V!cmd_alias
<1>2. ASSUME NEW n \in NAMES, V!cmd_unset(n) \/ V!cmd_unalias(n) PROVE EnvInv'
  BY <1>2, Rooms, RemovedTable DEF EnvInv, V!cmd_unset, V!cmd_unalias
<1>3. ASSUME NEW n \in NAMES, NEW fits \in BOOLEAN, V!Expand(n, fits) PROVE EnvInv'
  <2>1. V!Lookup(aliases, n) \in TEXTS \cup {Nothing}
    <3>1. CASE \E i \in 1 .. aliases.count : aliases.keys[i] = n
      BY <3>1, Rooms, LookupFound DEF EnvInv, Table
    <3>2. CASE \A i \in 1 .. aliases.count : aliases.keys[i] # n
      BY <3>2, Rooms, LookupFound DEF EnvInv
    <3>3. QED  BY <3>1, <3>2
  <2>2. QED  BY <1>3, <2>1 DEF EnvInv, V!Expand
<1>4. QED  BY <1>1, <1>2, <1>3 DEF V!NextVariables, V!NextAliases

LEMMA EnvAlways == ShellSpec => []EnvInv
<1>1. ShellInit => EnvInv
  BY EnvInitInv DEF ShellInit
<1>2. EnvInv /\ [ShellNext]_shell_vars => EnvInv'
  <2>1. EnvInv /\ UNCHANGED tables => EnvInv'
    BY DEF EnvInv, tables
  <2>2. QED  BY <2>1, EnvNextInv DEF ShellNext, shell_vars
<1>3. QED  BY <1>1, <1>2, PTL DEF ShellSpec

(* The cache, the tables, the loader's slots and the task table keep their  *)
(* types whatever commands are given and packets come.                      *)
THEOREM ShellTypeCorrect == ShellSpec => []ShellTypeOK
<1>1. ShellInit => session \in Sessions
  BY DEF ShellInit
<1>2. session \in Sessions /\ [ShellNext]_shell_vars => (session \in Sessions)'
  BY DEF ShellNext, shell_vars
<1>3. (session \in Sessions) /\ TypeOK /\ EnvInv /\ ElfInv => ShellTypeOK
  BY DEF ShellTypeOK, EnvInv, ElfInv, Table, V!TypeOK
<1>4. QED
  BY <1>1, <1>2, <1>3, ShellImplementsNet, NetTypeCorrect, EnvAlways, ElfAlways, PTL DEF ShellSpec

-----------------------------------------------------------------------------
LEMMA SameCardinalityOfMaps ==
    ASSUME NEW S
    PROVE  /\ V!Variables!Cardinality(S) = Cardinality(S)
           /\ V!AliasMap!Cardinality(S) = Cardinality(S)
  BY DEF V!Variables!Cardinality, V!AliasMap!Cardinality, Cardinality

(* A command on a table puts or removes its name, any other changes neither. *)
LEMMA EnvStep ==
    EnvInv /\ [ShellNext]_shell_vars =>
        [V!Variables!Next]_<<V!AsMap(env), V!On("env")>>
<1> DEFINE m == V!AsMap(env)
           last == V!On("env")
           Same == m' = m /\ last' = last
<1> SUFFICES ASSUME EnvInv, [ShellNext]_shell_vars PROVE V!Variables!Next \/ Same
  OBVIOUS
<1>1. Table(env, ENV_MAX_VARS) /\ ENV_MAX_VARS \in Nat
  BY Rooms DEF EnvInv
<1>2. CASE UNCHANGED tables
  <2>1. env' = env /\ done' = done
    BY <1>2 DEF tables
  <2>2. Same
    BY <2>1 DEF V!On
  <2>3. QED  BY <2>2
<1>3. ASSUME NEW n \in NAMES, NEW v \in TEXTS, V!cmd_set(n, v) PROVE V!Variables!Next
  <2>1. env' = V!Stored(env, n, v) /\ done' = V!PutIn("env", n, v)
    BY <1>3 DEF V!cmd_set
  <2>2. m' = Put(m, ENV_MAX_VARS, n, v)
    BY <1>1, <2>1, StoredMap
  <2>3. last' = <<"put", n, v>>
    BY <2>1 DEF V!On, V!PutIn
  <2>4. V!Variables!Put(n, v)
    BY <2>2, <2>3, SameCardinalityOfMaps DEF Put, V!Variables!Put, V!Variables!Room
  <2>5. QED  BY <2>4 DEF V!Variables!Next
<1>4. ASSUME NEW n \in NAMES, V!cmd_unset(n) PROVE V!Variables!Next
  <2>1. env' = V!Removed(env, n) /\ done' = V!RemoveFrom("env", n)
    BY <1>4 DEF V!cmd_unset
  <2>2. m' = Remove(m, n)
    BY <1>1, <2>1, RemovedMap
  <2>3. last' = <<"remove", n>>
    BY <2>1 DEF V!On, V!RemoveFrom
  <2>4. V!Variables!Remove(n)
    BY <2>2, <2>3 DEF Remove, V!Variables!Remove
  <2>5. QED  BY <2>4 DEF V!Variables!Next
<1>5. ASSUME env' = env, done'.table # "env" PROVE V!Variables!Next
  <2>1. m' = m /\ last' = Nothing
    BY <1>5 DEF V!On
  <2>2. QED  BY <2>1 DEF V!Variables!Next, V!Variables!Another
<1>6. ASSUME NEW n \in NAMES, NEW v \in TEXTS, V!cmd_alias(n, v) PROVE V!Variables!Next
  <2>1. env' = env /\ done'.table # "env"
    BY <1>6 DEF V!cmd_alias, V!PutIn
  <2>2. QED  BY <1>5, <2>1
<1>7. ASSUME NEW n \in NAMES, V!cmd_unalias(n) PROVE V!Variables!Next
  <2>1. env' = env /\ done'.table # "env"
    BY <1>7 DEF V!cmd_unalias, V!RemoveFrom
  <2>2. QED  BY <1>5, <2>1
<1>8. ASSUME NEW n \in NAMES, NEW fits \in BOOLEAN, V!Expand(n, fits) PROVE V!Variables!Next
  <2>1. env' = env /\ done'.table # "env"
    BY <1>8 DEF V!Expand, V!Ran
  <2>2. QED  BY <1>5, <2>1
<1>9. QED
  BY <1>2, <1>3, <1>4, <1>6, <1>7, <1>8
     DEF ShellNext, shell_vars, V!NextVariables, V!NextAliases

LEMMA AliasStep ==
    EnvInv /\ [ShellNext]_shell_vars =>
        [V!AliasMap!Next]_<<V!AsMap(aliases), V!On("aliases")>>
<1> DEFINE m == V!AsMap(aliases)
           last == V!On("aliases")
           Same == m' = m /\ last' = last
<1> SUFFICES ASSUME EnvInv, [ShellNext]_shell_vars PROVE V!AliasMap!Next \/ Same
  OBVIOUS
<1>1. Table(aliases, MAX_ALIASES) /\ MAX_ALIASES \in Nat
  BY Rooms DEF EnvInv
<1>2. CASE UNCHANGED tables
  <2>1. aliases' = aliases /\ done' = done
    BY <1>2 DEF tables
  <2>2. Same
    BY <2>1 DEF V!On
  <2>3. QED  BY <2>2
<1>3. ASSUME NEW n \in NAMES, NEW v \in TEXTS, V!cmd_alias(n, v) PROVE V!AliasMap!Next
  <2>1. aliases' = V!Stored(aliases, n, v) /\ done' = V!PutIn("aliases", n, v)
    BY <1>3 DEF V!cmd_alias
  <2>2. m' = Put(m, MAX_ALIASES, n, v)
    BY <1>1, <2>1, StoredMap
  <2>3. last' = <<"put", n, v>>
    BY <2>1 DEF V!On, V!PutIn
  <2>4. V!AliasMap!Put(n, v)
    BY <2>2, <2>3, SameCardinalityOfMaps DEF Put, V!AliasMap!Put, V!AliasMap!Room
  <2>5. QED  BY <2>4 DEF V!AliasMap!Next
<1>4. ASSUME NEW n \in NAMES, V!cmd_unalias(n) PROVE V!AliasMap!Next
  <2>1. aliases' = V!Removed(aliases, n) /\ done' = V!RemoveFrom("aliases", n)
    BY <1>4 DEF V!cmd_unalias
  <2>2. m' = Remove(m, n)
    BY <1>1, <2>1, RemovedMap
  <2>3. last' = <<"remove", n>>
    BY <2>1 DEF V!On, V!RemoveFrom
  <2>4. V!AliasMap!Remove(n)
    BY <2>2, <2>3 DEF Remove, V!AliasMap!Remove
  <2>5. QED  BY <2>4 DEF V!AliasMap!Next
<1>5. ASSUME aliases' = aliases, done'.table # "aliases" PROVE V!AliasMap!Next
  <2>1. m' = m /\ last' = Nothing
    BY <1>5 DEF V!On
  <2>2. QED  BY <2>1 DEF V!AliasMap!Next, V!AliasMap!Another
<1>6. ASSUME NEW n \in NAMES, NEW v \in TEXTS, V!cmd_set(n, v) PROVE V!AliasMap!Next
  <2>1. aliases' = aliases /\ done'.table # "aliases"
    BY <1>6 DEF V!cmd_set, V!PutIn
  <2>2. QED  BY <1>5, <2>1
<1>7. ASSUME NEW n \in NAMES, V!cmd_unset(n) PROVE V!AliasMap!Next
  <2>1. aliases' = aliases /\ done'.table # "aliases"
    BY <1>7 DEF V!cmd_unset, V!RemoveFrom
  <2>2. QED  BY <1>5, <2>1
<1>8. ASSUME NEW n \in NAMES, NEW fits \in BOOLEAN, V!Expand(n, fits) PROVE V!AliasMap!Next
  <2>1. aliases' = aliases /\ done'.table # "aliases"
    BY <1>8 DEF V!Expand, V!Ran
  <2>2. QED  BY <1>5, <2>1
<1>9. QED
  BY <1>2, <1>3, <1>4, <1>6, <1>7, <1>8
     DEF ShellNext, shell_vars, V!NextVariables, V!NextAliases

(* A table starts as a map.                                                 *)
LEMMA InitIsMap ==
    ASSUME NEW max \in Nat, NEW t, Table(t, max)
    PROVE  V!AsMap(t) \in UNION {[D -> TEXTS] : D \in SUBSET NAMES}
<1> DEFINE m == V!AsMap(t)
<1>1. IsMap(m) /\ DOMAIN m = Keys(t) /\ \A i \in 1 .. t.count : m[t.keys[i]] = t.values[i]
  BY MapFacts
<1> HIDE DEF m
<1>2. DOMAIN m \in SUBSET NAMES
  BY <1>1 DEF Table, Keys
<1>3. \A k \in DOMAIN m : m[k] \in TEXTS
  BY <1>1 DEF Table, Keys
<1>4. m \in [DOMAIN m -> TEXTS]
  BY <1>1, <1>3 DEF IsMap
<1>5. QED  BY <1>2, <1>4 DEF m

(* The variables and the aliases are maps, on which every command does what *)
(* it says and no more, for tables of any size.                             *)
THEOREM TablesImplementMaps == ShellSpec => ImplementsMaps
<1>1. EnvInv => /\ V!AsMap(env) \in UNION {[D -> TEXTS] : D \in SUBSET NAMES}
                /\ V!AsMap(aliases) \in UNION {[D -> TEXTS] : D \in SUBSET NAMES}
  BY Rooms, InitIsMap DEF EnvInv
<1>2. ShellInit => V!On("env") = Nothing /\ V!On("aliases") = Nothing
  BY DEF ShellInit, V!Init, V!Ran, V!On
<1>3. ShellInit /\ EnvInv => V!Variables!Init /\ V!AliasMap!Init
  BY <1>1, <1>2 DEF V!Variables!Init, V!AliasMap!Init
<1>4. EnvInv /\ [ShellNext]_shell_vars =>
        /\ [V!Variables!Next]_<<V!AsMap(env), V!On("env")>>
        /\ [V!AliasMap!Next]_<<V!AsMap(aliases), V!On("aliases")>>
  BY EnvStep, AliasStep
<1>5. QED
  BY <1>3, <1>4, EnvAlways, PTL
     DEF ShellSpec, ImplementsMaps, V!ImplementsMaps, V!Variables!Spec, V!AliasMap!Spec

-----------------------------------------------------------------------------
(* Least elements and induction, for a set of numbers.                      *)

LEMMA LeastOf ==
    ASSUME NEW S \in SUBSET Nat, S # {}
    PROVE  \E i \in S : \A j \in S : i <= j
<1> DEFINE Less == {p \in Nat \X Nat : p[1] < p[2]}
<1>1. IsWellFoundedOn(Less, Nat)
  <2>1. OpToRel(<, Nat) = Less
    BY Zenon DEF OpToRel
  <2>2. QED  BY <2>1, NatLessThanWellFounded, Zenon
<1>2. PICK i \in S : \A j \in S : <<j, i>> \notin Less
  BY <1>1, WFMin, Zenon
<1>3. ASSUME NEW j \in S PROVE i <= j
  <2>1. i \in Nat /\ j \in Nat
    OBVIOUS
  <2>2. j < i => <<j, i>> \in Less
    BY <2>1
  <2>3. QED  BY <1>2, <2>1, <2>2
<1>4. QED  BY <1>2, <1>3

LEMMA Induction ==
    ASSUME NEW S, 0 \in S, \A k \in Nat : k \in S => k + 1 \in S
    PROVE  Nat \subseteq S
<1> DEFINE Rest == {n \in Nat : n \notin S}
<1>1. SUFFICES ASSUME Rest # {} PROVE FALSE
  OBVIOUS
<1>2. PICK i \in Rest : \A j \in Rest : i <= j
  <2> HIDE DEF Rest
  <2>1. Rest \in SUBSET Nat
    BY DEF Rest
  <2>2. QED  BY <1>1, <2>1, LeastOf
<1>3. i \in Nat /\ i # 0 /\ i - 1 \in Nat /\ (i - 1) + 1 = i
  BY <1>2
<1>4. i - 1 \in S
  BY <1>2, <1>3
<1>5. QED  BY <1>2, <1>3, <1>4

-----------------------------------------------------------------------------
(* calc: spaces and the two loops.                                          *)

LEMMA SpacesSkipped ==
    ASSUME NEW line, Len(line) \in Nat, NEW from \in Positions(line)
    PROVE  /\ SkipSpaces(line, from) \in from .. Len(line) + 1
           /\ SkipSpaces(line, from) \in Positions(line)
           /\ ~ Is(line, SkipSpaces(line, from), Space)
           /\ \A j \in from .. SkipSpaces(line, from) - 1 : Is(line, j, Space)
<1> DEFINE S == {i \in from .. Len(line) + 1 : ~ Is(line, i, Space)}
<1>1. from \in Nat /\ from >= 1 /\ from <= Len(line) + 1
  BY DEF Positions
<1>2. S \in SUBSET Nat
  BY <1>1
<1>3. Len(line) + 1 \in S
  BY <1>1 DEF Is
<1>4. PICK i \in S : \A j \in S : i <= j
  <2> HIDE DEF S
  <2>1. QED  BY <1>2, <1>3, LeastOf
<1>5. \A j \in from .. i - 1 : Is(line, j, Space)
  BY <1>1, <1>4
<1>6. \E n \in from .. Len(line) + 1 :
         ~ Is(line, n, Space) /\ \A j \in from .. n - 1 : Is(line, j, Space)
  BY <1>4, <1>5
<1> DEFINE c == SkipSpaces(line, from)
<1>7. /\ c \in from .. Len(line) + 1
      /\ ~ Is(line, c, Space) /\ \A j \in from .. c - 1 : Is(line, j, Space)
  BY <1>6, Zenon DEF SkipSpaces
<1> HIDE DEF c
<1>8. c \in Positions(line)
  BY <1>1, <1>7 DEF Positions
<1>9. QED  BY <1>7, <1>8 DEF c

\* The place that is not a space, behind spaces only, is where they end.
LEMMA SpacesEnd ==
    ASSUME NEW line, Len(line) \in Nat, NEW from \in Positions(line),
           NEW i \in from .. Len(line) + 1, ~ Is(line, i, Space),
           \A j \in from .. i - 1 : Is(line, j, Space)
    PROVE  SkipSpaces(line, from) = i
<1> DEFINE c == SkipSpaces(line, from)
<1>1. /\ c \in from .. Len(line) + 1
      /\ ~ Is(line, c, Space) /\ \A j \in from .. c - 1 : Is(line, j, Space)
  BY SpacesSkipped
<1> HIDE DEF c
<1>2. from \in Nat
  BY DEF Positions
<1>3. ~ c < i
  BY <1>1, <1>2
<1>4. ~ i < c
  BY <1>1, <1>2
<1>5. c = i
  BY <1>1, <1>2, <1>3, <1>4
<1>6. QED  BY <1>5 DEF c

LEMMA SkipTwice ==
    ASSUME NEW line, Len(line) \in Nat, NEW from \in Positions(line)
    PROVE  SkipSpaces(line, SkipSpaces(line, from)) = SkipSpaces(line, from)
<1> DEFINE c == SkipSpaces(line, from)
<1>1. c \in Positions(line) /\ ~ Is(line, c, Space)
  BY SpacesSkipped
<1> HIDE DEF c
<1>2. c \in c .. Len(line) + 1 /\ c .. c - 1 = {}
  BY <1>1 DEF Positions
<1>3. SkipSpaces(line, c) = c
  BY <1>1, <1>2, SpacesEnd
<1>4. QED  BY <1>3 DEF c

\* A parse that ends at or behind a place.
From(line, p, from) == p = Parsed(p.r, p.at) /\ p.at \in from .. Len(line) + 1

\* A function that parses, from places after m on.
ParsesAfter(line, f, m) == \A i \in Positions(line) : i > m => From(line, f[i], i)

\* The rounds of a loop.
Rounds(line, ops, operand, p, g, k) ==
    g = [n \in 0 .. k |-> IF n = 0 THEN p ELSE Round(line, ops, operand, g[n - 1])]

Runs(line, ops, operand, p, g) ==
    /\ g[0] = p
    /\ \A k \in 0 .. Len(line) - 1 : g[k + 1] = Round(line, ops, operand, g[k])
    /\ Loop(line, ops, operand, p) = g[Len(line)]

LEMMA LoopDefined ==
    ASSUME NEW line, Len(line) \in Nat, NEW ops, NEW operand, NEW p
    PROVE  \E g : Runs(line, ops, operand, p, g)
<1> DEFINE S == {k \in Nat : \E g : Rounds(line, ops, operand, p, g, k)}
<1>1. 0 \in S
  <2>1. Rounds(line, ops, operand, p, [n \in 0 .. 0 |-> p], 0)
    BY DEF Rounds
  <2>2. QED  BY <2>1
<1>2. ASSUME NEW k \in Nat, k \in S PROVE k + 1 \in S
  <2>1. PICK g : Rounds(line, ops, operand, p, g, k)
    BY <1>2
  <2> DEFINE h == [n \in 0 .. k + 1 |-> IF n = k + 1 THEN Round(line, ops, operand, g[k])
                                       ELSE g[n]]
  <2>2. ASSUME NEW n \in 0 .. k + 1
        PROVE  h[n] = IF n = 0 THEN p ELSE Round(line, ops, operand, h[n - 1])
    <3>1. CASE n = k + 1
      <4>1. n # 0 /\ n - 1 \in 0 .. k + 1 /\ n - 1 # k + 1 /\ n - 1 = k
        BY <3>1
      <4>2. h[n - 1] = g[k]
        BY <4>1
      <4>3. QED  BY <3>1, <4>1, <4>2
    <3>2. CASE n # k + 1
      <4>1. n \in 0 .. k
        BY <3>2
      <4>2. g[n] = IF n = 0 THEN p ELSE Round(line, ops, operand, g[n - 1])
        BY <2>1, <4>1 DEF Rounds
      <4>3. n # 0 => h[n - 1] = g[n - 1]
        BY <4>1
      <4>4. QED  BY <3>2, <4>2, <4>3
    <3>3. QED  BY <3>1, <3>2
  <2>3. h = [n \in 0 .. k + 1 |-> h[n]]
    OBVIOUS
  <2> HIDE DEF h
  <2>4. Rounds(line, ops, operand, p, h, k + 1)
    BY <2>2, <2>3 DEF Rounds
  <2>5. QED  BY <2>4
<1>3. Nat \subseteq S
  <2> HIDE DEF S
  <2>1. QED  BY <1>1, <1>2, Induction
<1>4. \E g : g = [n \in 0 .. Len(line) |-> IF n = 0 THEN p ELSE Round(line, ops, operand, g[n - 1])]
  BY <1>3 DEF Rounds
<1> DEFINE after[n \in 0 .. Len(line)] == IF n = 0 THEN p ELSE Round(line, ops, operand, after[n - 1])
<1>5. after = [n \in 0 .. Len(line) |-> IF n = 0 THEN p ELSE Round(line, ops, operand, after[n - 1])]
  BY <1>4, Zenon
<1>6. Loop(line, ops, operand, p) = after[Len(line)]
  BY Zenon DEF Loop
<1> HIDE DEF after
<1>7. after[0] = p
  BY <1>5
<1>8. ASSUME NEW k \in 0 .. Len(line) - 1
      PROVE  after[k + 1] = Round(line, ops, operand, after[k])
  <2>1. k + 1 \in 0 .. Len(line) /\ k + 1 # 0 /\ (k + 1) - 1 = k
    OBVIOUS
  <2>2. after[k + 1] = Round(line, ops, operand, after[(k + 1) - 1])
    BY <1>5, <2>1
  <2>3. QED  BY <2>1, <2>2
<1>9. QED  BY <1>6, <1>7, <1>8 DEF Runs

\* A round goes on behind the token it takes, or it is the last.
LEMMA RoundFacts ==
    ASSUME NEW line, Len(line) \in Nat, NEW ops, NEW operand, NEW p, NEW m \in Nat, m >= 1,
           From(line, p, m), ParsesAfter(line, operand, m)
    PROVE  LET q == Round(line, ops, operand, p) IN
           /\ From(line, q, m)
           /\ q.at >= p.at + 1 \/ Round(line, ops, operand, q) = q
<1> DEFINE at == SkipSpaces(line, p.at)
           q == Round(line, ops, operand, p)
           goes == p.r.is = "value" /\ \E op \in ops : Is(line, at, op)
<1>1. p.at \in Positions(line) /\ p.at \in Nat /\ p.at >= m /\ p = Parsed(p.r, p.at)
  BY DEF From, Positions
<1>2. /\ at \in Positions(line) /\ at \in Nat /\ at >= p.at /\ at <= Len(line) + 1
      /\ SkipSpaces(line, at) = at
  BY <1>1, SpacesSkipped, SkipTwice
<1>3. CASE p.r.is # "value"
  <2>1. q = p
    BY <1>3 DEF Round
  <2>2. QED  BY <2>1
<1>4. CASE goes
  <2> DEFINE o == operand[at + 1]
  <2>1. at <= Len(line)
    BY <1>4 DEF Is
  <2>2. at + 1 \in Positions(line) /\ at + 1 > m
    BY <1>1, <1>2, <2>1 DEF Positions
  <2>3. From(line, o, at + 1)
    BY <2>2 DEF ParsesAfter
  <2>4. q = Apply(p, line[at].c, o)
    BY <1>4 DEF Round
  <2>5. q = Parsed(q.r, q.at) /\ q.at = o.at
    BY <2>4 DEF Apply, Parsed
  <2> HIDE DEF q, o, at
  <2>6. o.at \in at + 1 .. Len(line) + 1
    BY <2>3 DEF From
  <2>7. q.at \in m .. Len(line) + 1 /\ q.at >= p.at + 1
    BY <1>1, <1>2, <2>5, <2>6
  <2>8. QED  BY <2>5, <2>7 DEF From, q
<1>5. CASE p.r.is = "value" /\ ~ goes
  <2>1. q = Parsed(p.r, at)
    BY <1>5 DEF Round
  <2>2. q = Parsed(q.r, q.at) /\ q.at = at /\ q.r = p.r
    BY <2>1 DEF Parsed
  <2> HIDE DEF q
  <2>3. Round(line, ops, operand, q) = q
    BY <1>2, <1>5, <2>1, <2>2 DEF Round
  <2>4. q.at \in m .. Len(line) + 1
    BY <1>1, <1>2, <2>2
  <2>5. QED  BY <2>2, <2>3, <2>4 DEF From, q
<1>6. QED  BY <1>3, <1>4, <1>5

\* Where a loop ends up: behind where it began, after the last round.
LEMMA LoopFacts ==
    ASSUME NEW line, Len(line) \in Nat, NEW ops, NEW operand, NEW p, NEW m \in Nat, m >= 1,
           From(line, p, m), ParsesAfter(line, operand, m)
    PROVE  LET l == Loop(line, ops, operand, p) IN
           /\ From(line, l, m)
           /\ Round(line, ops, operand, l) = l
<1>1. PICK g : Runs(line, ops, operand, p, g)
  BY LoopDefined
<1> DEFINE S == {k \in Nat : 
                     k <= Len(line) =>
                        /\ From(line, g[k], m)
                        /\ \/ Round(line, ops, operand, g[k]) = g[k]
                           \/ g[k].at >= m + k}
<1>2. 0 \in S
  BY <1>1 DEF From, Runs
<1>3. ASSUME NEW k \in Nat, k \in S PROVE k + 1 \in S
  <2> SUFFICES ASSUME k + 1 <= Len(line)
               PROVE  /\ From(line, g[k + 1], m)
                      /\ Round(line, ops, operand, g[k + 1]) = g[k + 1] \/ g[k + 1].at >= m + (k + 1)
    OBVIOUS
  <2>1. g[k + 1] = Round(line, ops, operand, g[k]) /\ From(line, g[k], m) /\ (Round(line, ops, operand, g[k]) = g[k] \/ g[k].at >= m + k)
    BY <1>1, <1>3 DEF Runs
  <2>2. /\ From(line, Round(line, ops, operand, g[k]), m)
        /\ Round(line, ops, operand, g[k]).at >= g[k].at + 1 \/ Round(line, ops, operand, Round(line, ops, operand, g[k])) = Round(line, ops, operand, g[k])
    BY <2>1, RoundFacts
  <2>3. g[k].at \in Nat /\ g[k + 1].at \in Nat
    BY <2>1, <2>2 DEF From
  <2>4. QED  BY <2>1, <2>2, <2>3
<1>4. Len(line) \in S
  <2> HIDE DEF S
  <2>1. QED  BY <1>2, <1>3, Induction
<1>5. From(line, g[Len(line)], m) /\ (Round(line, ops, operand, g[Len(line)]) = g[Len(line)] \/ g[Len(line)].at >= m + Len(line))
  BY <1>4
<1>6. ASSUME g[Len(line)].at >= m + Len(line) PROVE Round(line, ops, operand, g[Len(line)]) = g[Len(line)]
  <2> DEFINE q == g[Len(line)]
             at == SkipSpaces(line, q.at)
  <2>1. q.at = Len(line) + 1 /\ q = Parsed(q.r, q.at) /\ q.at \in Positions(line)
    BY <1>5, <1>6 DEF From, Positions
  <2>2. at = Len(line) + 1
    <3>1. at \in q.at .. Len(line) + 1
      BY <2>1, SpacesSkipped
    <3> HIDE DEF at, q
    <3>2. QED  BY <2>1, <3>1
  <2>3. ~ \E op \in ops : Is(line, at, op)
    BY <2>2 DEF Is
  <2> HIDE DEF at, q
  <2>4. Round(line, ops, operand, q) = q
    BY <2>1, <2>2, <2>3 DEF Round, at
  <2>5. QED  BY <2>4 DEF q
<1>7. QED  BY <1>1, <1>5, <1>6 DEF Runs

\* A loop that a round does not change is over.
LEMMA LoopOver ==
    ASSUME NEW line, Len(line) \in Nat, NEW ops, NEW operand, NEW p,
           Round(line, ops, operand, p) = p
    PROVE  Loop(line, ops, operand, p) = p
<1>1. PICK g : Runs(line, ops, operand, p, g)
  BY LoopDefined
<1> DEFINE S == {k \in Nat : k <= Len(line) => g[k] = p}
<1>2. 0 \in S
  BY <1>1 DEF Runs
<1>3. ASSUME NEW k \in Nat, k \in S PROVE k + 1 \in S
  BY <1>1, <1>3 DEF Runs
<1>4. Len(line) \in S
  <2> HIDE DEF S
  <2>1. QED  BY <1>2, <1>3, Induction
<1>5. QED  BY <1>1, <1>4 DEF Runs

\* A loop is its first round and the loop from there.
LEMMA LoopContinues ==
    ASSUME NEW line, Len(line) \in Nat, NEW ops, NEW operand, NEW p, NEW m \in Nat, m >= 1,
           From(line, p, m), ParsesAfter(line, operand, m)
    PROVE  Loop(line, ops, operand, p)
              = Loop(line, ops, operand, Round(line, ops, operand, p))
<1>1. PICK g : Runs(line, ops, operand, p, g)
  BY LoopDefined
<1>2. PICK h : Runs(line, ops, operand, Round(line, ops, operand, p), h)
  BY LoopDefined
<1>3. Round(line, ops, operand, g[Len(line)]) = g[Len(line)]
  <2>1. Round(line, ops, operand, Loop(line, ops, operand, p)) = Loop(line, ops, operand, p)
    BY LoopFacts
  <2>2. QED  BY <1>1, <2>1 DEF Runs
<1> DEFINE S == {k \in Nat : k <= Len(line) => h[k] = Round(line, ops, operand, g[k])}
<1>4. 0 \in S
  BY <1>1, <1>2 DEF Runs
<1>5. ASSUME NEW k \in Nat, k \in S PROVE k + 1 \in S
  BY <1>1, <1>2, <1>5 DEF Runs
<1>6. Len(line) \in S
  <2> HIDE DEF S
  <2>1. QED  BY <1>4, <1>5, Induction
<1>7. h[Len(line)] = g[Len(line)]
  BY <1>3, <1>6
<1>8. QED  BY <1>1, <1>2, <1>7 DEF Runs

\* Leading spaces make no difference.
LEMMA LoopSkips ==
    ASSUME NEW line, Len(line) \in Nat, NEW ops, NEW operand, NEW r, r.is = "value",
           NEW at \in Positions(line), ParsesAfter(line, operand, at)
    PROVE  Loop(line, ops, operand, Parsed(r, SkipSpaces(line, at)))
              = Loop(line, ops, operand, Parsed(r, at))
<1> DEFINE p == Parsed(r, at)
           q == Parsed(r, SkipSpaces(line, at))
<1>1. p.r = r /\ p.at = at /\ q.r = r /\ q.at = SkipSpaces(line, at)
  BY DEF Parsed
<1>2. Round(line, ops, operand, p) = Round(line, ops, operand, q)
  <2>1. SkipSpaces(line, q.at) = SkipSpaces(line, p.at)
    BY <1>1, SkipTwice
  <2> HIDE DEF p, q
  <2>2. QED  BY <1>1, <2>1 DEF Round, Apply
<1>3. at \in Nat /\ at >= 1 /\ SkipSpaces(line, at) \in at .. Len(line) + 1
  BY SpacesSkipped DEF Positions
<1>4. From(line, p, at) /\ From(line, q, at)
  BY <1>1, <1>3 DEF From, Positions
<1> HIDE DEF p, q
<1>5. QED  BY <1>2, <1>3, <1>4, LoopContinues DEF p, q

\* A loop without an operator to take.
LEMMA LoopEnds ==
    ASSUME NEW line, Len(line) \in Nat, NEW ops, NEW operand, NEW r, r.is = "value",
           NEW at \in Positions(line), ParsesAfter(line, operand, at),
           ~ \E op \in ops : Is(line, SkipSpaces(line, at), op)
    PROVE  Loop(line, ops, operand, Parsed(r, at)) = Parsed(r, SkipSpaces(line, at))
<1> DEFINE q == Parsed(r, SkipSpaces(line, at))
<1>1. q.r = r /\ q.at = SkipSpaces(line, at)
  BY DEF Parsed
<1>2. Round(line, ops, operand, q) = q
  BY <1>1, SkipTwice DEF Round
<1> HIDE DEF q
<1>3. Loop(line, ops, operand, q) = q
  BY <1>2, LoopOver
<1>4. QED  BY <1>3, LoopSkips DEF q

\* A loop only calls its operand further to the right.
LEMMA LoopLocal ==
    ASSUME NEW line, Len(line) \in Nat, NEW ops, NEW operand, NEW other, NEW p,
           NEW m \in Nat, m >= 1, From(line, p, m), ParsesAfter(line, operand, m),
           \A i \in Positions(line) : i > m => operand[i] = other[i]
    PROVE  Loop(line, ops, operand, p) = Loop(line, ops, other, p)
<1>1. PICK g : Runs(line, ops, operand, p, g)
  BY LoopDefined
<1>2. PICK h : Runs(line, ops, other, p, h)
  BY LoopDefined
<1> DEFINE S == {k \in Nat : k <= Len(line) => From(line, g[k], m) /\ h[k] = g[k]}
<1>3. 0 \in S
  BY <1>1, <1>2 DEF Runs
<1>4. ASSUME NEW k \in Nat, k \in S PROVE k + 1 \in S
  <2> SUFFICES ASSUME k + 1 <= Len(line) PROVE From(line, g[k + 1], m) /\ h[k + 1] = g[k + 1]
    OBVIOUS
  <2>1. From(line, g[k], m) /\ h[k] = g[k]
    BY <1>4
  <2>2. From(line, g[k + 1], m)
    BY <1>1, <2>1, RoundFacts DEF Runs
  <2> DEFINE at == SkipSpaces(line, g[k].at)
  <2>3. g[k].at \in Positions(line) /\ g[k].at >= m /\ g[k].at \in Nat
    BY <2>1 DEF From, Positions
  <2>4. at \in g[k].at .. Len(line) + 1
    BY <2>3, SpacesSkipped
  <2> HIDE DEF at
  <2>5. \A op \in ops : Is(line, at, op) => operand[at + 1] = other[at + 1]
    BY <2>3, <2>4 DEF Is, Positions
  <2>6. Round(line, ops, operand, g[k]) = Round(line, ops, other, g[k])
    BY <2>5 DEF Round, at
  <2>7. QED  BY <1>1, <1>2, <2>1, <2>2, <2>6 DEF Runs
<1>5. Len(line) \in S
  <2> HIDE DEF S
  <2>1. QED  BY <1>3, <1>4, Induction
<1>6. QED  BY <1>1, <1>2, <1>5 DEF Runs

-----------------------------------------------------------------------------
(* calc_number, calc_term and calc_expr go to the right, and what they      *)
(* return depends on calc_expr further to the right only.                   *)

\* Two functions that are the same from places after m on.
AgreeAfter(line, f, g, m) == \A i \in Positions(line) : i > m => f[i] = g[i]

\* A sign is skipped, and the place behind it is a place of the line.
LEMMA AfterSign ==
    ASSUME NEW line, Len(line) \in Nat, NEW from \in Positions(line)
    PROVE  LET begin == SkipSpaces(line, from)
               at == IF Is(line, begin, "-") THEN begin + 1 ELSE begin
           IN  from \in Nat /\ from >= 1 /\ at \in from .. Len(line) + 1 /\ at \in Nat
<1> DEFINE begin == SkipSpaces(line, from)
<1>1. from \in Nat /\ from >= 1 /\ begin \in from .. Len(line) + 1
  BY SpacesSkipped DEF Positions
<1> HIDE DEF begin
<1>2. Is(line, begin, "-") => begin <= Len(line)
  BY DEF Is
<1>3. QED  BY <1>1, <1>2 DEF begin

LEMMA NumberFrom ==
    ASSUME NEW line, Len(line) \in Nat, NEW expr, NEW from \in Positions(line),
           ParsesAfter(line, expr, from)
    PROVE  From(line, calc_number(line, expr, from), from)
<1> DEFINE neg == Is(line, SkipSpaces(line, from), "-")
           at == IF neg THEN SkipSpaces(line, from) + 1 ELSE SkipSpaces(line, from)
           q == calc_number(line, expr, from)
<1>1. from \in Nat /\ from >= 1 /\ at \in from .. Len(line) + 1 /\ at \in Nat
  BY AfterSign
<1>2. CASE Is(line, at, "(")
  <2> DEFINE p == expr[at + 1]
  <2>1. at + 1 \in Positions(line) /\ at + 1 > from
    BY <1>1, <1>2 DEF Is, Positions
  <2>2. From(line, p, at + 1)
    BY <2>1 DEF ParsesAfter
  <2>3. q = Parsed(Signed(neg, p.r), IF Is(line, p.at, ")") THEN p.at + 1 ELSE p.at)
    <3> HIDE DEF at
    <3>1. ~ Is(line, at, "number")
      BY <1>2 DEF Is
    <3>2. QED  BY <1>2, <3>1 DEF calc_number, at
  <2>4. q = Parsed(q.r, q.at) /\ q.at = IF Is(line, p.at, ")") THEN p.at + 1 ELSE p.at
    BY <2>3 DEF Parsed
  <2> HIDE DEF p, q, at
  <2>5. p.at \in at + 1 .. Len(line) + 1
    BY <2>2 DEF From
  <2>6. q.at \in from .. Len(line) + 1
    BY <1>1, <2>4, <2>5 DEF Is
  <2>7. QED  BY <2>4, <2>6 DEF From, q
<1>3. CASE Is(line, at, "number") /\ ~ Is(line, at, "(")
  <2>1. q = Parsed(Signed(neg, Ok(line[at].n)), at + 1)
    BY <1>3 DEF calc_number
  <2>2. q = Parsed(q.r, q.at) /\ q.at = at + 1
    BY <2>1 DEF Parsed
  <2> HIDE DEF q, at
  <2>3. q.at \in from .. Len(line) + 1
    BY <1>1, <1>3, <2>2 DEF Is
  <2>4. QED  BY <2>2, <2>3 DEF From, q
<1>4. CASE ~ Is(line, at, "number") /\ ~ Is(line, at, "(")
  <2>1. q = Parsed(Error, at)
    BY <1>4 DEF calc_number
  <2>2. q = Parsed(q.r, q.at) /\ q.at = at
    BY <2>1 DEF Parsed
  <2> HIDE DEF q, at
  <2>3. QED  BY <1>1, <2>2 DEF From, q
<1>5. QED  BY <1>2, <1>3, <1>4

LEMMA NumberLocal ==
    ASSUME NEW line, Len(line) \in Nat, NEW expr, NEW other, NEW from \in Positions(line),
           AgreeAfter(line, expr, other, from)
    PROVE  calc_number(line, expr, from) = calc_number(line, other, from)
<1> DEFINE neg == Is(line, SkipSpaces(line, from), "-")
           at == IF neg THEN SkipSpaces(line, from) + 1 ELSE SkipSpaces(line, from)
<1>1. from \in Nat /\ from >= 1 /\ at \in from .. Len(line) + 1 /\ at \in Nat
  BY AfterSign
<1>2. CASE Is(line, at, "(")
  <2>1. at + 1 \in Positions(line) /\ at + 1 > from
    BY <1>1, <1>2 DEF Is, Positions
  <2>2. expr[at + 1] = other[at + 1]
    BY <2>1 DEF AgreeAfter
  <2>3. QED  BY <1>2, <2>2 DEF calc_number
<1>3. CASE ~ Is(line, at, "(")
  BY <1>3 DEF calc_number
<1>4. QED  BY <1>2, <1>3

\* The numbers of a term, as a function of the place.
Numbers(line, expr) == [at \in Positions(line) |-> calc_number(line, expr, at)]

LEMMA NumbersAfter ==
    ASSUME NEW line, Len(line) \in Nat, NEW expr, NEW m \in Nat,
           ParsesAfter(line, expr, m)
    PROVE  ParsesAfter(line, Numbers(line, expr), m)
<1>1. ASSUME NEW i \in Positions(line), i > m
      PROVE  From(line, Numbers(line, expr)[i], i)
  <2>1. i \in Nat
    BY DEF Positions
  <2>2. ParsesAfter(line, expr, i)
    BY <1>1, <2>1 DEF ParsesAfter, Positions
  <2>3. From(line, calc_number(line, expr, i), i)
    BY <2>2, NumberFrom
  <2>4. QED  BY <2>3 DEF Numbers
<1>2. QED  BY <1>1 DEF ParsesAfter

LEMMA NumbersAgree ==
    ASSUME NEW line, Len(line) \in Nat, NEW expr, NEW other, NEW m \in Nat,
           AgreeAfter(line, expr, other, m)
    PROVE  AgreeAfter(line, Numbers(line, expr), Numbers(line, other), m)
<1>1. ASSUME NEW i \in Positions(line), i > m
      PROVE  Numbers(line, expr)[i] = Numbers(line, other)[i]
  <2>1. AgreeAfter(line, expr, other, i)
    BY <1>1 DEF AgreeAfter, Positions
  <2>2. QED  BY <2>1, NumberLocal DEF Numbers
<1>2. QED  BY <1>1 DEF AgreeAfter

LEMMA TermFrom ==
    ASSUME NEW line, Len(line) \in Nat, NEW expr, NEW from \in Positions(line),
           ParsesAfter(line, expr, from)
    PROVE  From(line, calc_term(line, expr, from), from)
<1>1. from \in Nat /\ from >= 1
  BY DEF Positions
<1>2. From(line, calc_number(line, expr, from), from)
  BY NumberFrom
<1>3. ParsesAfter(line, Numbers(line, expr), from)
  BY <1>1, NumbersAfter
<1>4. From(line, Loop(line, Products, Numbers(line, expr), calc_number(line, expr, from)), from)
  BY <1>1, <1>2, <1>3, LoopFacts
<1>5. QED  BY <1>4 DEF calc_term, Numbers

LEMMA TermLocal ==
    ASSUME NEW line, Len(line) \in Nat, NEW expr, NEW other, NEW from \in Positions(line),
           ParsesAfter(line, expr, from), AgreeAfter(line, expr, other, from)
    PROVE  calc_term(line, expr, from) = calc_term(line, other, from)
<1>1. from \in Nat /\ from >= 1
  BY DEF Positions
<1> DEFINE p == calc_number(line, expr, from)
<1>2. From(line, p, from) /\ p = calc_number(line, other, from)
  BY NumberFrom, NumberLocal
<1>3. ParsesAfter(line, Numbers(line, expr), from)
  BY <1>1, NumbersAfter
<1>4. AgreeAfter(line, Numbers(line, expr), Numbers(line, other), from)
  BY <1>1, NumbersAgree
<1> HIDE DEF p
<1>5. Loop(line, Products, Numbers(line, expr), p) = Loop(line, Products, Numbers(line, other), p)
  BY <1>1, <1>2, <1>3, <1>4, LoopLocal DEF AgreeAfter
<1>6. QED  BY <1>2, <1>5 DEF calc_term, Numbers, p

\* The terms of a sum, as a function of the place, and the sum.
Terms(line, expr) == [at \in Positions(line) |-> calc_term(line, expr, at)]
Sum(line, expr, from) == Loop(line, Sums, Terms(line, expr), calc_term(line, expr, from))

LEMMA TermsAfter ==
    ASSUME NEW line, Len(line) \in Nat, NEW expr, NEW m \in Nat,
           ParsesAfter(line, expr, m)
    PROVE  ParsesAfter(line, Terms(line, expr), m)
<1>1. ASSUME NEW i \in Positions(line), i > m
      PROVE  From(line, Terms(line, expr)[i], i)
  <2>1. i \in Nat
    BY DEF Positions
  <2>2. ParsesAfter(line, expr, i)
    BY <1>1, <2>1 DEF ParsesAfter, Positions
  <2>3. From(line, calc_term(line, expr, i), i)
    BY <2>2, TermFrom
  <2>4. QED  BY <2>3 DEF Terms
<1>2. QED  BY <1>1 DEF ParsesAfter

LEMMA TermsAgree ==
    ASSUME NEW line, Len(line) \in Nat, NEW expr, NEW other, NEW m \in Nat,
           ParsesAfter(line, expr, m), AgreeAfter(line, expr, other, m)
    PROVE  AgreeAfter(line, Terms(line, expr), Terms(line, other), m)
<1>1. ASSUME NEW i \in Positions(line), i > m
      PROVE  Terms(line, expr)[i] = Terms(line, other)[i]
  <2>1. AgreeAfter(line, expr, other, i) /\ ParsesAfter(line, expr, i)
    BY <1>1 DEF AgreeAfter, ParsesAfter, Positions
  <2>2. QED  BY <2>1, TermLocal DEF Terms
<1>2. QED  BY <1>1 DEF AgreeAfter

LEMMA SumFrom ==
    ASSUME NEW line, Len(line) \in Nat, NEW expr, NEW from \in Positions(line),
           ParsesAfter(line, expr, from)
    PROVE  From(line, Sum(line, expr, from), from)
<1>1. from \in Nat /\ from >= 1
  BY DEF Positions
<1>2. From(line, calc_term(line, expr, from), from)
  BY TermFrom
<1>3. ParsesAfter(line, Terms(line, expr), from)
  BY <1>1, TermsAfter
<1>4. QED  BY <1>1, <1>2, <1>3, LoopFacts DEF Sum

LEMMA SumLocal ==
    ASSUME NEW line, Len(line) \in Nat, NEW expr, NEW other, NEW from \in Positions(line),
           ParsesAfter(line, expr, from), AgreeAfter(line, expr, other, from)
    PROVE  Sum(line, expr, from) = Sum(line, other, from)
<1>1. from \in Nat /\ from >= 1
  BY DEF Positions
<1> DEFINE p == calc_term(line, expr, from)
<1>2. From(line, p, from) /\ p = calc_term(line, other, from)
  BY TermFrom, TermLocal
<1>3. ParsesAfter(line, Terms(line, expr), from)
  BY <1>1, TermsAfter
<1>4. AgreeAfter(line, Terms(line, expr), Terms(line, other), from)
  BY <1>1, TermsAgree
<1> HIDE DEF p
<1>5. Loop(line, Sums, Terms(line, expr), p) = Loop(line, Sums, Terms(line, other), p)
  BY <1>1, <1>2, <1>3, <1>4, LoopLocal DEF AgreeAfter
<1>6. QED  BY <1>2, <1>5 DEF Sum, p

\* A function that is calc_expr from places after m on.
IsExpr(line, f, m) ==
    \A i \in Positions(line) : i > m => f[i] = Sum(line, f, i) /\ From(line, f[i], i)

LEMMA ExprExists ==
    ASSUME NEW line, Len(line) \in Nat
    PROVE  \E f : IsExpr(line, f, 0) /\ f = [i \in Positions(line) |-> f[i]]
<1> DEFINE S == {k \in Nat : \E f : IsExpr(line, f, Len(line) + 1 - k)
                                     /\ f = [i \in Positions(line) |-> f[i]]}
<1>1. 0 \in S
  <2> DEFINE f == [i \in Positions(line) |-> 0]
  <2>1. IsExpr(line, f, Len(line) + 1 - 0)
    BY DEF IsExpr, Positions
  <2>2. f = [i \in Positions(line) |-> f[i]]
    OBVIOUS
  <2> HIDE DEF f
  <2>3. QED  BY <2>1, <2>2
<1>2. ASSUME NEW k \in Nat, k \in S PROVE k + 1 \in S
  <2> DEFINE m == Len(line) + 1 - k
  <2>1. PICK f : IsExpr(line, f, m) /\ f = [i \in Positions(line) |-> f[i]]
    BY <1>2
  <2>2. m \in Int /\ Len(line) + 1 - (k + 1) = m - 1 /\ m <= Len(line) + 1
    OBVIOUS
  <2> DEFINE h == [i \in Positions(line) |-> IF i = m THEN Sum(line, f, m) ELSE f[i]]
  <2> HIDE DEF m
  <2>3. h = [i \in Positions(line) |-> h[i]]
    OBVIOUS
  <2>4. \A i \in Positions(line) : i # m => h[i] = f[i]
    OBVIOUS
  <2>5. m \in Positions(line) => h[m] = Sum(line, f, m)
    OBVIOUS
  <2> HIDE DEF h
  <2>6. ASSUME NEW i \in Positions(line), i > m - 1
        PROVE  h[i] = Sum(line, h, i) /\ From(line, h[i], i)
    <3>1. i \in Nat /\ i >= m
      BY <2>2, <2>6 DEF Positions
    <3>2. ParsesAfter(line, f, i)
      <4>1. \A j \in Positions(line) : j > i => j > m
        BY <2>2, <3>1 DEF Positions
      <4>2. QED  BY <2>1, <4>1, Zenon DEF IsExpr, ParsesAfter
    <3>3. AgreeAfter(line, f, h, i)
      BY <2>2, <2>4, <3>1 DEF AgreeAfter, Positions
    <3>4. Sum(line, f, i) = Sum(line, h, i) /\ From(line, Sum(line, f, i), i)
      BY <3>2, <3>3, SumLocal, SumFrom
    <3>5. CASE i = m
      BY <2>5, <3>4, <3>5
    <3>6. CASE i # m
      <4>1. h[i] = f[i] /\ i > m
        BY <2>2, <2>4, <3>1, <3>6
      <4>2. f[i] = Sum(line, f, i)
        BY <2>1, <4>1 DEF IsExpr
      <4>3. QED  BY <3>4, <4>1, <4>2
    <3>7. QED  BY <3>5, <3>6
  <2>7. IsExpr(line, h, m - 1)
    BY <2>6 DEF IsExpr
  <2>8. QED  BY <2>2, <2>3, <2>7
<1>3. Len(line) + 1 \in S
  <2> HIDE DEF S
  <2>1. QED  BY <1>1, <1>2, Induction
<1>4. Len(line) + 1 - (Len(line) + 1) = 0
  OBVIOUS
<1>5. QED  BY <1>3, <1>4

\* calc_expr is what its recursive definition says.
LEMMA ExprDefined ==
    ASSUME NEW line, Len(line) \in Nat
    PROVE  IsExpr(line, calc_expr(line), 0)
<1>1. PICK f : IsExpr(line, f, 0) /\ f = [i \in Positions(line) |-> f[i]]
  BY ExprExists
<1>2. f = [i \in Positions(line) |-> Sum(line, f, i)]
  BY <1>1 DEF IsExpr, Positions
<1> DEFINE expr[from \in Positions(line)] ==
              Loop(line, Sums,
                   [at \in Positions(line) |-> calc_term(line, expr, at)],
                   calc_term(line, expr, from))
<1>3. \E e : e = [from \in Positions(line) |->
              Loop(line, Sums,
                   [at \in Positions(line) |-> calc_term(line, e, at)],
                   calc_term(line, e, from))]
  BY <1>2 DEF Sum, Terms
<1>4. expr = [from \in Positions(line) |->
              Loop(line, Sums,
                   [at \in Positions(line) |-> calc_term(line, expr, at)],
                   calc_term(line, expr, from))]
  BY <1>3, Zenon
<1>5. calc_expr(line) = expr
  BY Zenon DEF calc_expr
<1> HIDE DEF expr
<1> DEFINE c == calc_expr(line)
<1>6. \A i \in Positions(line) : c[i] = Sum(line, c, i)
  BY <1>4, <1>5 DEF Sum, Terms
<1> HIDE DEF c
<1> DEFINE S == {k \in Nat : ParsesAfter(line, c, Len(line) + 1 - k)}
<1>7. 0 \in S
  BY DEF ParsesAfter, Positions
<1>8. ASSUME NEW k \in Nat, k \in S PROVE k + 1 \in S
  <2> DEFINE m == Len(line) + 1 - k
  <2>1. ParsesAfter(line, c, m) /\ m \in Int /\ Len(line) + 1 - (k + 1) = m - 1
    BY <1>8
  <2> HIDE DEF m
  <2>2. ASSUME NEW i \in Positions(line), i > m - 1 PROVE From(line, c[i], i)
    <3>1. ParsesAfter(line, c, i)
      BY <2>1, <2>2 DEF ParsesAfter, Positions
    <3>2. QED  BY <1>6, <3>1, SumFrom
  <2>3. QED  BY <2>1, <2>2 DEF ParsesAfter
<1>9. Len(line) + 1 \in S
  <2> HIDE DEF S
  <2>1. QED  BY <1>7, <1>8, Induction
<1>10. Len(line) + 1 - (Len(line) + 1) = 0
  OBVIOUS
<1>11. ParsesAfter(line, c, 0)
  BY <1>9, <1>10
<1>12. QED  BY <1>6, <1>11 DEF IsExpr, ParsesAfter, c

-----------------------------------------------------------------------------
(* What is read where an expression is typed.  Each level reads what it     *)
(* typed up to its end, or fails as what is typed means; a loop goes on     *)
(* from the end.                                                            *)

Occurs(t, line, at) ==
    /\ at \in Positions(line) /\ at + Len(t) \in Positions(line)
    /\ \A j \in 1 .. Len(t) : line[at + j - 1] = t[j]

\* calc_number behind the sign.
Unsigned(line, expr, neg, at) ==
    CASE Is(line, at, "(") ->
            LET p == expr[at + 1]
            IN Parsed(Signed(neg, p.r), IF Is(line, p.at, ")") THEN p.at + 1 ELSE p.at)
      [] Is(line, at, "number") -> Parsed(Signed(neg, Ok(line[at].n)), at + 1)
      [] OTHER -> Parsed(Error, at)

\* A number or parentheses, whatever the sign; a number with its sign.
ReadsUnsigned(line, expr, t, m) ==
    \A at, neg : Occurs(t, line, at) /\ neg \in BOOLEAN =>
        /\ ~ Is(line, at, Space) /\ ~ Is(line, at, "-")
        /\ Unsigned(line, expr, neg, at).r = Signed(neg, m)
        /\ m.is = "value" =>
              Unsigned(line, expr, neg, at) = Parsed(Signed(neg, m), at + Len(t))

ReadsNumber(line, expr, t, m) ==
    \A at : Occurs(t, line, at) =>
        /\ ~ Is(line, at, Space)
        /\ calc_number(line, expr, at).r = m
        /\ m.is = "value" => calc_number(line, expr, at) = Parsed(m, at + Len(t))

ReadsTerm(line, expr, t, m) ==
    \A at : Occurs(t, line, at) =>
        /\ ~ Is(line, at, Space)
        /\ m.is # "value" => calc_term(line, expr, at).r = m
        /\ m.is = "value" =>
              calc_term(line, expr, at)
                 = Loop(line, Products, Numbers(line, expr), Parsed(m, at + Len(t)))

\* What follows a sum is no operator of products.
Ended(line, at) == ~ \E op \in Products : Is(line, SkipSpaces(line, at), op)

ReadsSum(line, expr, t, m) ==
    \A at : Occurs(t, line, at) /\ Ended(line, at + Len(t)) =>
        /\ ~ Is(line, at, Space)
        /\ m.is # "value" => Sum(line, expr, at).r = m
        /\ m.is = "value" =>
              Sum(line, expr, at)
                 = Loop(line, Sums, Terms(line, expr), Parsed(m, at + Len(t)))

LEMMA SpaceDiffers == \A x \in {"(", ")", "-", "+", "*", "/", "%", "number"} : Space # x
BY Zenon DEF Space

LEMMA OccursConcat ==
    ASSUME NEW line, Len(line) \in Nat, NEW s \in Seq(Tokens), NEW t \in Seq(Tokens), NEW at,
           Occurs(s \o t, line, at)
    PROVE  Occurs(s, line, at) /\ Occurs(t, line, at + Len(s))
<1>1. /\ Len(s \o t) = Len(s) + Len(t) /\ Len(s) \in Nat /\ Len(t) \in Nat
      /\ \A j \in 1 .. Len(s) + Len(t) :
            (s \o t)[j] = IF j <= Len(s) THEN s[j] ELSE t[j - Len(s)]
  BY ConcatProperties
<1> DEFINE u == s \o t
<1> HIDE DEF u
<1>2. /\ at \in Nat /\ at >= 1 /\ at + (Len(s) + Len(t)) <= Len(line) + 1
      /\ \A j \in 1 .. Len(s) + Len(t) : line[at + j - 1] = u[j]
  BY <1>1 DEF Occurs, Positions, u
<1>3. \A j \in 1 .. Len(s) : line[at + j - 1] = s[j]
  BY <1>1, <1>2 DEF u
<1>4. ASSUME NEW j \in 1 .. Len(t) PROVE line[(at + Len(s)) + j - 1] = t[j]
  <2>1. Len(s) + j \in 1 .. Len(s) + Len(t) /\ ~ Len(s) + j <= Len(s) /\ (Len(s) + j) - Len(s) = j
    BY <1>1
  <2>2. line[at + (Len(s) + j) - 1] = u[Len(s) + j] /\ u[Len(s) + j] = t[(Len(s) + j) - Len(s)]
    BY <1>1, <1>2, <2>1 DEF u
  <2>3. at + (Len(s) + j) - 1 = (at + Len(s)) + j - 1
    BY <1>1, <1>2
  <2>4. QED  BY <2>1, <2>2, <2>3
<1>5. at \in Positions(line) /\ at + Len(s) \in Positions(line)
      /\ (at + Len(s)) + Len(t) \in Positions(line)
  BY <1>1, <1>2 DEF Positions
<1>6. QED  BY <1>1, <1>3, <1>4, <1>5 DEF Occurs

LEMMA ConcatLength ==
    ASSUME NEW s \in Seq(Tokens), NEW t \in Seq(Tokens)
    PROVE  s \o t \in Seq(Tokens) /\ Len(s \o t) = Len(s) + Len(t)
BY ConcatProperties

LEMMA OccursOne ==
    ASSUME NEW line, Len(line) \in Nat, NEW x, NEW at, Occurs(<<x>>, line, at)
    PROVE  /\ at \in Positions(line) /\ at \in Nat /\ at <= Len(line) /\ at + 1 \in Positions(line)
           /\ line[at] = x
<1>1. Len(<<x>>) = 1 /\ <<x>>[1] = x
  OBVIOUS
<1>2. at \in Nat /\ at + 1 <= Len(line) + 1 /\ line[at + 1 - 1] = x
  BY <1>1 DEF Occurs, Positions
<1>3. at + 1 - 1 = at
  BY <1>2
<1>4. QED  BY <1>1, <1>2, <1>3 DEF Occurs, Positions

\* calc_expr parses from everywhere.
LEMMA ExprAfter ==
    ASSUME NEW line, Len(line) \in Nat, NEW expr, IsExpr(line, expr, 0), NEW m \in Nat
    PROVE  /\ ParsesAfter(line, expr, m)
           /\ ParsesAfter(line, Numbers(line, expr), m)
           /\ ParsesAfter(line, Terms(line, expr), m)
<1>1. ParsesAfter(line, expr, m)
  <2>1. \A i \in Positions(line) : i > 0
    BY DEF Positions
  <2>2. QED  BY <2>1, Zenon DEF IsExpr, ParsesAfter
<1>2. QED  BY <1>1, NumbersAfter, TermsAfter

LEMMA NumberIsUnsigned ==
    ASSUME NEW line, NEW expr, NEW from
    PROVE  LET neg == Is(line, SkipSpaces(line, from), "-")
           IN calc_number(line, expr, from)
                 = Unsigned(line, expr, neg,
                            IF neg THEN SkipSpaces(line, from) + 1 ELSE SkipSpaces(line, from))
BY DEF calc_number, Unsigned

\* No space to skip.
LEMMA NoSpace ==
    ASSUME NEW line, Len(line) \in Nat, NEW at \in Positions(line), ~ Is(line, at, Space)
    PROVE  SkipSpaces(line, at) = at
<1>1. at \in at .. Len(line) + 1 /\ at .. at - 1 = {}
  BY DEF Positions
<1>2. QED  BY <1>1, SpacesEnd

\* One space to skip.
LEMMA OneSpace ==
    ASSUME NEW line, Len(line) \in Nat, NEW at \in Positions(line), at + 1 \in Positions(line),
           line[at].c = Space, ~ Is(line, at + 1, Space)
    PROVE  SkipSpaces(line, at) = at + 1
<1>1. at \in Nat /\ at + 1 <= Len(line) + 1 /\ at + 1 \in at .. Len(line) + 1
  BY DEF Positions
<1>2. \A j \in at .. (at + 1) - 1 : Is(line, j, Space)
  BY <1>1 DEF Is
<1>3. QED  BY <1>1, <1>2, SpacesEnd

LEMMA UnsignedIsNumber ==
    ASSUME NEW line, Len(line) \in Nat, NEW expr, NEW t, NEW m, ReadsUnsigned(line, expr, t, m)
    PROVE  ReadsNumber(line, expr, t, m)
<1> SUFFICES ASSUME NEW at, Occurs(t, line, at)
             PROVE  /\ ~ Is(line, at, Space)
                    /\ calc_number(line, expr, at).r = m
                    /\ m.is = "value" => calc_number(line, expr, at) = Parsed(m, at + Len(t))
  BY Zenon DEF ReadsNumber
<1>1. /\ ~ Is(line, at, Space) /\ ~ Is(line, at, "-")
      /\ Unsigned(line, expr, FALSE, at).r = Signed(FALSE, m)
      /\ m.is = "value" =>
              Unsigned(line, expr, FALSE, at) = Parsed(Signed(FALSE, m), at + Len(t))
  BY Zenon DEF ReadsUnsigned
<1>2. SkipSpaces(line, at) = at
  BY <1>1, NoSpace DEF Occurs
<1>3. calc_number(line, expr, at) = Unsigned(line, expr, FALSE, at)
  <2>1. Is(line, at, "-") = FALSE
    BY <1>1 DEF Is
  <2>2. QED  BY <1>2, <2>1, NumberIsUnsigned
<1>4. Signed(FALSE, m) = m
  BY DEF Signed
<1>5. QED  BY <1>1, <1>3, <1>4

LEMMA NumberIsTerm ==
    ASSUME NEW line, Len(line) \in Nat, NEW expr, NEW t, NEW m, ReadsNumber(line, expr, t, m)
    PROVE  ReadsTerm(line, expr, t, m)
<1> SUFFICES ASSUME NEW at, Occurs(t, line, at)
             PROVE  /\ ~ Is(line, at, Space)
                    /\ m.is # "value" => calc_term(line, expr, at).r = m
                    /\ m.is = "value" =>
                         calc_term(line, expr, at)
                         = Loop(line, Products, Numbers(line, expr), Parsed(m, at + Len(t)))
  BY Zenon DEF ReadsTerm
<1> DEFINE q == calc_number(line, expr, at)
<1>1. ~ Is(line, at, Space) /\ q.r = m /\ (m.is = "value" => q = Parsed(m, at + Len(t)))
  BY Zenon DEF ReadsNumber
<1>2. calc_term(line, expr, at) = Loop(line, Products, Numbers(line, expr), q)
  BY Zenon DEF calc_term, Numbers
<1> HIDE DEF q
<1>3. ASSUME m.is # "value" PROVE Loop(line, Products, Numbers(line, expr), q).r = m
  <2>1. Round(line, Products, Numbers(line, expr), q) = q
    BY <1>1, <1>3 DEF Round
  <2>2. QED  BY <1>1, <2>1, LoopOver
<1>4. QED  BY <1>1, <1>2, <1>3

LEMMA TermIsSum ==
    ASSUME NEW line, Len(line) \in Nat, NEW expr, IsExpr(line, expr, 0),
           NEW t, NEW m, ReadsTerm(line, expr, t, m)
    PROVE  ReadsSum(line, expr, t, m)
<1> SUFFICES ASSUME NEW at, Occurs(t, line, at), Ended(line, at + Len(t))
             PROVE  /\ ~ Is(line, at, Space)
                    /\ m.is # "value" => Sum(line, expr, at).r = m
                    /\ m.is = "value" =>
                         Sum(line, expr, at)
                         = Loop(line, Sums, Terms(line, expr), Parsed(m, at + Len(t)))
  BY Zenon DEF ReadsSum
<1> DEFINE q == calc_term(line, expr, at)
           end == at + Len(t)
<1>1. /\ ~ Is(line, at, Space) /\ (m.is # "value" => q.r = m)
      /\ m.is = "value" => q = Loop(line, Products, Numbers(line, expr), Parsed(m, end))
  BY Zenon DEF ReadsTerm
<1>2. Sum(line, expr, at) = Loop(line, Sums, Terms(line, expr), q)
  BY Zenon DEF Sum
<1>3. end \in Positions(line) /\ end \in Nat /\ Ended(line, end)
  BY DEF Occurs, Positions
<1> HIDE DEF q, end
<1>4. ASSUME m.is # "value" PROVE Loop(line, Sums, Terms(line, expr), q).r = m
  <2>1. Round(line, Sums, Terms(line, expr), q) = q
    BY <1>1, <1>4 DEF Round
  <2>2. QED  BY <1>1, <1>4, <2>1, LoopOver
<1>5. ASSUME m.is = "value"
      PROVE  Loop(line, Sums, Terms(line, expr), q)
                = Loop(line, Sums, Terms(line, expr), Parsed(m, end))
  <2>1. ParsesAfter(line, Numbers(line, expr), end) /\ ParsesAfter(line, Terms(line, expr), end)
    BY <1>3, ExprAfter
  <2>2. q = Parsed(m, SkipSpaces(line, end))
    BY <1>1, <1>3, <1>5, <2>1, LoopEnds DEF Ended
  <2>3. QED  BY <1>3, <1>5, <2>1, <2>2, LoopSkips
<1>6. QED  BY <1>1, <1>2, <1>4, <1>5 DEF end

\* Spaces before a number, or a term, make no difference.
LEMMA SpaceBefore ==
    ASSUME NEW line, Len(line) \in Nat, NEW expr, NEW at \in Positions(line),
           at + 1 \in Positions(line), line[at].c = Space, ~ Is(line, at + 1, Space)
    PROVE  /\ calc_number(line, expr, at) = calc_number(line, expr, at + 1)
           /\ calc_term(line, expr, at) = calc_term(line, expr, at + 1)
<1>1. SkipSpaces(line, at) = at + 1 /\ SkipSpaces(line, at + 1) = at + 1
  BY OneSpace, NoSpace
<1>2. calc_number(line, expr, at) = calc_number(line, expr, at + 1)
  BY <1>1, NumberIsUnsigned
<1>3. QED  BY <1>2 DEF calc_term

\* A literal.
LEMMA ReadsLiteral ==
    ASSUME NEW line, Len(line) \in Nat, NEW expr, NEW n \in Nat
    PROVE  ReadsUnsigned(line, expr, <<Number(n)>>, Ok(n))
<1> SUFFICES ASSUME NEW at, NEW neg \in BOOLEAN, Occurs(<<Number(n)>>, line, at)
             PROVE  /\ ~ Is(line, at, Space) /\ ~ Is(line, at, "-")
                    /\ Unsigned(line, expr, neg, at) = Parsed(Signed(neg, Ok(n)), at + 1)
  <2>1. Len(<<Number(n)>>) = 1
    OBVIOUS
  <2>2. \A r, i : Parsed(r, i).r = r
    BY DEF Parsed
  <2>3. QED  BY <2>1, <2>2 DEF ReadsUnsigned
<1>1. line[at].c = "number" /\ line[at].n = n /\ at <= Len(line)
  BY OccursOne DEF Number
<1>2. Is(line, at, "number") /\ ~ Is(line, at, "(") /\ ~ Is(line, at, "-") /\ ~ Is(line, at, Space)
  BY <1>1, SpaceDiffers DEF Is
<1>3. QED  BY <1>1, <1>2 DEF Unsigned

\* Parentheses around a sum.
LEMMA ReadsParentheses ==
    ASSUME NEW line, Len(line) \in Nat, NEW expr, IsExpr(line, expr, 0),
           NEW t \in Seq(Tokens), NEW m, ReadsSum(line, expr, t, m)
    PROVE  ReadsUnsigned(line, expr,
                         <<Symbol("(")>> \o t \o <<Symbol(Space), Symbol(")")>>, m)
<1> DEFINE opens == <<Symbol("(")>>
           closes == <<Symbol(Space), Symbol(")")>>
           whole == opens \o t \o closes
<1>1. /\ opens \in Seq(Tokens) /\ closes \in Seq(Tokens) /\ opens \o t \in Seq(Tokens)
      /\ Len(opens) = 1 /\ Len(closes) = 2 /\ Len(t) \in Nat
      /\ closes[1] = Symbol(Space) /\ closes[2] = Symbol(")")
  <2>1. Symbol("(") \in Tokens /\ Symbol(Space) \in Tokens /\ Symbol(")") \in Tokens
    BY DEF Symbol, Tokens
  <2>2. QED  BY <2>1
<1> SUFFICES ASSUME NEW at, NEW neg \in BOOLEAN, Occurs(whole, line, at)
             PROVE  /\ ~ Is(line, at, Space) /\ ~ Is(line, at, "-")
                    /\ Unsigned(line, expr, neg, at).r = Signed(neg, m)
                    /\ m.is = "value" =>
                         Unsigned(line, expr, neg, at) = Parsed(Signed(neg, m), at + Len(whole))
  BY Zenon DEF ReadsUnsigned
<1>0. Occurs(whole, line, at)
  OBVIOUS
<1> HIDE DEF opens, closes
<1>2. /\ Occurs(opens, line, at) /\ Occurs(t, line, at + 1) /\ Occurs(closes, line, (at + 1) + Len(t))
      /\ Len(whole) = Len(t) + 3
  <2>1. /\ Occurs(opens \o t, line, at) /\ Occurs(closes, line, at + Len(opens \o t))
    BY <1>0, <1>1, OccursConcat
  <2>2. /\ Occurs(opens, line, at) /\ Occurs(t, line, at + Len(opens))
    BY <1>1, <2>1, OccursConcat
  <2>3. at \in Nat
    BY <2>2 DEF Occurs, Positions
  <2>4. Len(opens \o t) = 1 + Len(t) /\ Len(whole) = (1 + Len(t)) + 2
    <3>1. Len(opens \o t) = Len(opens) + Len(t) /\ Len(whole) = Len(opens \o t) + Len(closes)
      BY <1>1, ConcatLength
    <3> HIDE DEF whole
    <3>2. QED  BY <1>1, <3>1
  <2>5. QED  BY <1>1, <2>1, <2>2, <2>3, <2>4
<1> DEFINE end == (at + 1) + Len(t)
<1>3. at \in Nat /\ at >= 1 /\ at + 1 \in Positions(line) /\ at <= Len(line) /\ line[at] = Symbol("(")
  <2>1. Occurs(<<Symbol("(")>>, line, at)
    BY <1>2 DEF opens
  <2>2. QED  BY <2>1, OccursOne DEF Positions
<1>4. /\ end \in Nat /\ end \in Positions(line) /\ end + 1 \in Positions(line) /\ end + 1 <= Len(line)
      /\ line[end].c = Space /\ line[end + 1].c = ")"
  <2> HIDE DEF end
  <2>1. /\ end \in Positions(line) /\ end + 2 \in Positions(line)
        /\ line[end + 1 - 1] = Symbol(Space) /\ line[end + 2 - 1] = Symbol(")")
    BY <1>1, <1>2 DEF Occurs, end
  <2>2. end \in Nat /\ end + 1 - 1 = end /\ end + 2 - 1 = end + 1
    BY <2>1 DEF Positions
  <2>3. QED  BY <2>1, <2>2 DEF Symbol, Positions
<1>5. Is(line, at, "(") /\ ~ Is(line, at, "number") /\ ~ Is(line, at, Space) /\ ~ Is(line, at, "-")
  BY <1>3, SpaceDiffers DEF Is, Symbol
<1> HIDE DEF end
<1>6. Is(line, end + 1, ")") /\ SkipSpaces(line, end) = end + 1
  <2>1. Is(line, end + 1, ")") /\ ~ Is(line, end + 1, Space)
    BY <1>4, SpaceDiffers DEF Is
  <2>2. QED  BY <1>4, <2>1, OneSpace
<1>7. Ended(line, end) /\ ~ \E op \in Sums : Is(line, SkipSpaces(line, end), op)
  BY <1>4, <1>6 DEF Ended, Products, Sums, Is
<1> DEFINE p == expr[at + 1]
<1>8. p = Sum(line, expr, at + 1)
  BY <1>3 DEF IsExpr, Positions
<1>9. /\ m.is # "value" => p.r = m
      /\ m.is = "value" => p = Loop(line, Sums, Terms(line, expr), Parsed(m, end))
  <2>1. Ended(line, (at + 1) + Len(t))
    BY <1>7 DEF end
  <2>2. QED  BY <1>2, <1>8, <2>1, Zenon DEF ReadsSum, end
<1>10. m.is = "value" => p = Parsed(m, end + 1)
  <2>1. ParsesAfter(line, Terms(line, expr), end)
    BY <1>4, ExprAfter
  <2>2. QED  BY <1>4, <1>6, <1>7, <1>9, <2>1, LoopEnds
<1> HIDE DEF p
<1>11. Unsigned(line, expr, neg, at)
          = Parsed(Signed(neg, p.r), IF Is(line, p.at, ")") THEN p.at + 1 ELSE p.at)
  BY <1>5 DEF Unsigned, p
<1>12. p.r = m /\ (m.is = "value" => p.at = end + 1)
  BY <1>9, <1>10 DEF Parsed
<1>13. end + 2 = at + Len(whole) /\ (end + 1) + 1 = end + 2
  BY <1>1, <1>2, <1>3, <1>4 DEF end
<1>14. Unsigned(line, expr, neg, at).r = Signed(neg, m)
  BY <1>11, <1>12 DEF Parsed
<1>15. QED  BY <1>5, <1>6, <1>11, <1>12, <1>13, <1>14

\* A sign.
LEMMA ReadsNegation ==
    ASSUME NEW line, Len(line) \in Nat, NEW expr,
           NEW t \in Seq(Tokens), NEW m, ReadsUnsigned(line, expr, t, m)
    PROVE  ReadsNumber(line, expr, <<Symbol("-")>> \o t, Signed(TRUE, m))
<1> DEFINE sign == <<Symbol("-")>>
<1>1. sign \in Seq(Tokens) /\ Len(sign) = 1 /\ Len(t) \in Nat
  <2>1. Symbol("-") \in Tokens
    BY DEF Symbol, Tokens
  <2>2. QED  BY <2>1
<1> SUFFICES ASSUME NEW at, Occurs(sign \o t, line, at)
             PROVE  /\ ~ Is(line, at, Space)
                    /\ calc_number(line, expr, at).r = Signed(TRUE, m)
                    /\ Signed(TRUE, m).is = "value" =>
                         calc_number(line, expr, at) = Parsed(Signed(TRUE, m), at + Len(sign \o t))
  BY Zenon DEF ReadsNumber
<1>0. Occurs(sign \o t, line, at)
  OBVIOUS
<1> HIDE DEF sign
<1>2. Occurs(sign, line, at) /\ Occurs(t, line, at + 1) /\ Len(sign \o t) = 1 + Len(t)
  <2>1. Occurs(sign, line, at) /\ Occurs(t, line, at + Len(sign))
    BY <1>0, <1>1, OccursConcat
  <2>2. Len(sign \o t) = Len(sign) + Len(t)
    BY <1>1, ConcatLength
  <2>3. QED  BY <1>1, <2>1, <2>2
<1>3. at \in Nat /\ at \in Positions(line) /\ at <= Len(line) /\ line[at] = Symbol("-")
  BY <1>2, OccursOne DEF sign
<1>4. Is(line, at, "-") = TRUE /\ ~ Is(line, at, Space)
  BY <1>3, SpaceDiffers DEF Is, Symbol
<1>5. calc_number(line, expr, at) = Unsigned(line, expr, TRUE, at + 1)
  <2>1. SkipSpaces(line, at) = at
    BY <1>3, <1>4, NoSpace
  <2>2. QED  BY <1>4, <2>1, NumberIsUnsigned
<1>6. /\ Unsigned(line, expr, TRUE, at + 1).r = Signed(TRUE, m)
      /\ m.is = "value" =>
            Unsigned(line, expr, TRUE, at + 1) = Parsed(Signed(TRUE, m), (at + 1) + Len(t))
  BY <1>2, Zenon DEF ReadsUnsigned
<1>7. Signed(TRUE, m).is = "value" => m.is = "value"
  BY DEF Signed
<1>8. (at + 1) + Len(t) = at + Len(sign \o t)
  BY <1>1, <1>2, <1>3
<1>9. QED  BY <1>4, <1>5, <1>6, <1>7, <1>8

\* A loop that takes an operator.
LEMMA LoopTakes ==
    ASSUME NEW line, Len(line) \in Nat, NEW ops, NEW operand, NEW r, r.is = "value",
           NEW end \in Positions(line), ParsesAfter(line, operand, end),
           NEW op \in ops, SkipSpaces(line, end) = end + 1, Is(line, end + 1, op)
    PROVE  Loop(line, ops, operand, Parsed(r, end))
              = Loop(line, ops, operand, Apply(Parsed(r, end), op, operand[end + 2]))
<1> DEFINE p == Parsed(r, end)
<1>1. p.r = r /\ p.at = end
  BY DEF Parsed
<1>2. end \in Nat /\ end >= 1 /\ end \in end .. Len(line) + 1 /\ (end + 1) + 1 = end + 2
  BY DEF Positions
<1>3. From(line, p, end)
  BY <1>1, <1>2 DEF From
<1> HIDE DEF p
<1>4. Loop(line, ops, operand, p) = Loop(line, ops, operand, Round(line, ops, operand, p))
  BY <1>2, <1>3, LoopContinues
<1>5. line[end + 1].c = op
  BY DEF Is
<1>6. Round(line, ops, operand, p) = Apply(p, op, operand[end + 2])
  BY <1>1, <1>2, <1>5 DEF Round
<1>7. QED  BY <1>4, <1>6 DEF p

\* A loop after a failure.
LEMMA LoopFailed ==
    ASSUME NEW line, Len(line) \in Nat, NEW ops, NEW operand, NEW r, r.is # "value", NEW at
    PROVE  Loop(line, ops, operand, Parsed(r, at)).r = r
<1> DEFINE p == Parsed(r, at)
<1>1. p.r = r
  BY DEF Parsed
<1> HIDE DEF p
<1>2. Round(line, ops, operand, p) = p
  BY <1>1 DEF Round
<1>3. QED  BY <1>1, <1>2, LoopOver DEF p

\* Where two operands and an operator between spaces are typed.
Between(l, op, r) == l \o <<Symbol(Space), Symbol(op), Symbol(Space)>> \o r

LEMMA BetweenOccurs ==
    ASSUME NEW line, Len(line) \in Nat, NEW l \in Seq(Tokens), NEW r \in Seq(Tokens),
           NEW op \in Operators, NEW at, Occurs(Between(l, op, r), line, at)
    PROVE  LET end == at + Len(l) IN
           /\ Occurs(l, line, at) /\ Occurs(r, line, end + 3)
           /\ end \in Nat /\ end \in Positions(line) /\ end + 2 \in Positions(line)
           /\ end + 3 \in Positions(line)
           /\ SkipSpaces(line, end) = end + 1 /\ Is(line, end + 1, op) /\ line[end + 2].c = Space
           /\ at + Len(Between(l, op, r)) = (end + 3) + Len(r)
<1> DEFINE mid == <<Symbol(Space), Symbol(op), Symbol(Space)>>
           end == at + Len(l)
<1>1. /\ mid \in Seq(Tokens) /\ Len(mid) = 3 /\ Len(l) \in Nat /\ Len(r) \in Nat
      /\ mid[1] = Symbol(Space) /\ mid[2] = Symbol(op) /\ mid[3] = Symbol(Space)
  <2>1. Symbol(Space) \in Tokens /\ Symbol(op) \in Tokens
    BY DEF Symbol, Tokens, Operators, Sums, Products
  <2>2. QED  BY <2>1
<1>2. Occurs(l \o mid \o r, line, at) /\ Between(l, op, r) = l \o mid \o r
  BY DEF Between
<1> HIDE DEF mid
<1>3. l \o mid \in Seq(Tokens) /\ Len(l \o mid) = Len(l) + 3 /\ Len(l \o mid \o r) = (Len(l) + 3) + Len(r)
  <2>1. l \o mid \in Seq(Tokens) /\ Len(l \o mid) = Len(l) + Len(mid)
    BY <1>1, ConcatLength
  <2>2. Len(l \o mid \o r) = Len(l \o mid) + Len(r)
    BY <2>1, ConcatLength
  <2>3. QED  BY <1>1, <2>1, <2>2
<1>4. Occurs(l \o mid, line, at) /\ Occurs(r, line, at + Len(l \o mid))
  BY <1>2, <1>3, OccursConcat
<1>5. Occurs(l, line, at) /\ Occurs(mid, line, end)
  BY <1>1, <1>4, OccursConcat
<1>6. at \in Nat /\ at >= 1
  BY <1>5 DEF Occurs, Positions
<1>7. end \in Nat /\ at + Len(l \o mid) = end + 3 /\ at + Len(l \o mid \o r) = (end + 3) + Len(r)
  BY <1>1, <1>3, <1>6
<1> HIDE DEF end
<1>8. /\ end \in Positions(line) /\ end + 3 \in Positions(line)
      /\ line[end + 1 - 1] = mid[1] /\ line[end + 2 - 1] = mid[2] /\ line[end + 3 - 1] = mid[3]
  BY <1>1, <1>5 DEF Occurs
<1>9. /\ end + 1 \in Positions(line) /\ end + 2 \in Positions(line) /\ end + 1 <= Len(line)
      /\ end + 1 - 1 = end /\ end + 2 - 1 = end + 1 /\ end + 3 - 1 = end + 2
  BY <1>7, <1>8 DEF Positions
<1>10. line[end].c = Space /\ line[end + 1].c = op /\ line[end + 2].c = Space
  BY <1>1, <1>8, <1>9 DEF Symbol
<1>11. Is(line, end + 1, op) /\ ~ Is(line, end + 1, Space)
  <2>1. Space # op
    BY SpaceDiffers DEF Operators, Sums, Products
  <2>2. QED  BY <1>9, <1>10, <2>1 DEF Is
<1>12. SkipSpaces(line, end) = end + 1
  BY <1>8, <1>9, <1>10, <1>11, OneSpace
<1>13. QED
  BY <1>2, <1>4, <1>5, <1>7, <1>8, <1>9, <1>10, <1>11, <1>12 DEF end

\* What two operands and an operator mean.
Means(op, m, n) == IF m.is = "value" THEN Combine(op, m.n, n) ELSE m

LEMMA CombinedValue ==
    ASSUME NEW op, NEW a, NEW n, Combine(op, a, n).is = "value"
    PROVE  n.is = "value"
<1> DEFINE r == Operate(op, a, n.n)
<1>1. CASE n.is = "panic"
  BY <1>1 DEF Combine
<1>2. CASE n.is # "panic" /\ r.is = "value"
  <2>1. Combine(op, a, n) = [is |-> n.is, n |-> r.n]
    BY <1>2 DEF Combine
  <2>2. QED  BY <2>1
<1>3. CASE n.is # "panic" /\ r.is # "value"
  <2>1. Combine(op, a, n) = r
    BY <1>3 DEF Combine
  <2>2. QED  BY <1>3, <2>1
<1>4. QED  BY <1>1, <1>2, <1>3

LEMMA ReadsProduct ==
    ASSUME NEW line, Len(line) \in Nat, NEW expr, IsExpr(line, expr, 0),
           NEW l \in Seq(Tokens), NEW r \in Seq(Tokens), NEW op \in Products, NEW m, NEW n,
           ReadsTerm(line, expr, l, m), ReadsNumber(line, expr, r, n)
    PROVE  ReadsTerm(line, expr, Between(l, op, r), Means(op, m, n))
<1> DEFINE all == Means(op, m, n)
           size == Numbers(line, expr)
<1> SUFFICES ASSUME NEW at, Occurs(Between(l, op, r), line, at)
             PROVE  /\ ~ Is(line, at, Space)
                    /\ all.is # "value" => calc_term(line, expr, at).r = all
                    /\ all.is = "value" =>
                         calc_term(line, expr, at)
                         = Loop(line, Products, size, Parsed(all, at + Len(Between(l, op, r))))
  BY Zenon DEF ReadsTerm
<1> DEFINE end == at + Len(l)
           fin == at + Len(Between(l, op, r))
           q == calc_number(line, expr, end + 3)
<1>1. op \in Operators
  BY DEF Operators
<1>2. /\ Occurs(l, line, at) /\ Occurs(r, line, end + 3)
      /\ end \in Nat /\ end \in Positions(line) /\ end + 2 \in Positions(line)
      /\ end + 3 \in Positions(line) /\ fin = (end + 3) + Len(r) /\ (end + 2) + 1 = end + 3
      /\ SkipSpaces(line, end) = end + 1 /\ Is(line, end + 1, op) /\ line[end + 2].c = Space
  BY <1>1, BetweenOccurs
<1>3. /\ ~ Is(line, at, Space)
      /\ m.is # "value" => calc_term(line, expr, at).r = m
      /\ m.is = "value" => calc_term(line, expr, at) = Loop(line, Products, size, Parsed(m, end))
  BY <1>2, Zenon DEF ReadsTerm
<1> HIDE DEF end, fin
<1>4. /\ ~ Is(line, end + 3, Space)
      /\ q.r = n /\ (n.is = "value" => q = Parsed(n, (end + 3) + Len(r)))
  BY <1>2, Zenon DEF ReadsNumber
<1>5. size[end + 2] = q
  <2>1. size[end + 2] = calc_number(line, expr, end + 2)
    BY <1>2 DEF Numbers
  <2>2. QED  BY <1>2, <1>4, <2>1, SpaceBefore
<1> HIDE DEF q, size
<1>6. CASE m.is # "value"
  BY <1>3, <1>6 DEF Means
<1>7. CASE m.is = "value"
  <2>1. calc_term(line, expr, at) = Loop(line, Products, size, Apply(Parsed(m, end), op, q))
    <3>1. ParsesAfter(line, size, end)
      BY <1>2, ExprAfter DEF size
    <3>2. QED  BY <1>2, <1>3, <1>5, <1>7, <3>1, LoopTakes
  <2>2. Apply(Parsed(m, end), op, q) = Parsed(all, q.at)
    BY <1>4, <1>7 DEF Apply, Parsed, Means
  <2>3. all.is = "value" => q.at = fin
    BY <1>2, <1>4, <1>7, CombinedValue DEF Means, Parsed
  <2> HIDE DEF all
  <2>4. all.is # "value" => Loop(line, Products, size, Parsed(all, q.at)).r = all
    BY LoopFailed
  <2>5. QED  BY <1>3, <2>1, <2>2, <2>3, <2>4 DEF fin
<1>8. QED  BY <1>6, <1>7

LEMMA ReadsBinarySum ==
    ASSUME NEW line, Len(line) \in Nat, NEW expr, IsExpr(line, expr, 0),
           NEW l \in Seq(Tokens), NEW r \in Seq(Tokens), NEW op \in Sums, NEW m, NEW n,
           ReadsSum(line, expr, l, m), ReadsTerm(line, expr, r, n)
    PROVE  ReadsSum(line, expr, Between(l, op, r), Means(op, m, n))
<1> DEFINE all == Means(op, m, n)
           T == Terms(line, expr)
           size == Numbers(line, expr)
<1> SUFFICES ASSUME NEW at, Occurs(Between(l, op, r), line, at),
                    Ended(line, at + Len(Between(l, op, r)))
             PROVE  /\ ~ Is(line, at, Space)
                    /\ all.is # "value" => Sum(line, expr, at).r = all
                    /\ all.is = "value" =>
                         Sum(line, expr, at)
                         = Loop(line, Sums, T, Parsed(all, at + Len(Between(l, op, r))))
  BY Zenon DEF ReadsSum
<1> DEFINE end == at + Len(l)
           fin == at + Len(Between(l, op, r))
           q == calc_term(line, expr, end + 3)
<1>1. op \in Operators
  BY DEF Operators
<1>2. /\ Occurs(l, line, at) /\ Occurs(r, line, end + 3)
      /\ end \in Nat /\ end \in Positions(line) /\ end + 2 \in Positions(line)
      /\ end + 3 \in Positions(line) /\ fin = (end + 3) + Len(r) /\ (end + 2) + 1 = end + 3
      /\ SkipSpaces(line, end) = end + 1 /\ Is(line, end + 1, op) /\ line[end + 2].c = Space
  BY <1>1, BetweenOccurs
<1>3. Ended(line, end)
  <2> HIDE DEF end
  <2>1. line[end + 1].c \notin Products
    BY <1>2 DEF Is, Sums, Products
  <2>2. QED  BY <1>2, <2>1 DEF Ended, Is
<1>4. /\ ~ Is(line, at, Space)
      /\ m.is # "value" => Sum(line, expr, at).r = m
      /\ m.is = "value" => Sum(line, expr, at) = Loop(line, Sums, T, Parsed(m, end))
  BY <1>2, <1>3, Zenon DEF ReadsSum
<1>5. Ended(line, fin)
  OBVIOUS
<1> HIDE DEF end, fin
<1>6. /\ ~ Is(line, end + 3, Space) /\ (n.is # "value" => q.r = n)
      /\ n.is = "value" => q = Loop(line, Products, size, Parsed(n, (end + 3) + Len(r)))
  BY <1>2, Zenon DEF ReadsTerm
<1>7. T[end + 2] = q
  <2>1. T[end + 2] = calc_term(line, expr, end + 2)
    BY <1>2 DEF Terms
  <2>2. QED  BY <1>2, <1>6, <2>1, SpaceBefore
<1>8. fin \in Positions(line) /\ fin \in Nat
  BY <1>2 DEF Occurs, Positions
<1>9. ParsesAfter(line, size, fin) /\ ParsesAfter(line, T, fin) /\ ParsesAfter(line, T, end)
  BY <1>2, <1>8, ExprAfter
<1> HIDE DEF q, size, T
<1>10. q.r = n /\ (n.is = "value" => q.at = SkipSpaces(line, fin))
  <2>1. ASSUME n.is = "value" PROVE q = Parsed(n, SkipSpaces(line, fin))
    BY <1>2, <1>5, <1>6, <1>8, <1>9, <2>1, LoopEnds DEF Ended
  <2>2. QED  BY <1>6, <2>1 DEF Parsed
<1>11. CASE m.is # "value"
  BY <1>4, <1>11 DEF Means
<1>12. CASE m.is = "value"
  <2>1. Sum(line, expr, at) = Loop(line, Sums, T, Apply(Parsed(m, end), op, q))
    BY <1>2, <1>4, <1>7, <1>9, <1>12, LoopTakes
  <2>2. Apply(Parsed(m, end), op, q) = Parsed(all, q.at)
    BY <1>10, <1>12 DEF Apply, Parsed, Means
  <2>3. all.is = "value" => q.at = SkipSpaces(line, fin)
    BY <1>10, <1>12, CombinedValue DEF Means
  <2> HIDE DEF all
  <2>4. all.is # "value" => Loop(line, Sums, T, Parsed(all, q.at)).r = all
    BY LoopFailed
  <2>5. all.is = "value" => Loop(line, Sums, T, Parsed(all, SkipSpaces(line, fin)))
                               = Loop(line, Sums, T, Parsed(all, fin))
    BY <1>8, <1>9, LoopSkips
  <2>6. QED  BY <1>4, <2>1, <2>2, <2>3, <2>4, <2>5 DEF fin
<1>13. QED  BY <1>11, <1>12

-----------------------------------------------------------------------------
(* Every expression is read at the levels it needs no parentheses for.      *)

AllRead(line, expr, e) ==
    /\ ReadsSum(line, expr, e.tokens, e.means)
    /\ Precedence(e) >= 2 => ReadsTerm(line, expr, e.tokens, e.means)
    /\ Precedence(e) >= 3 => ReadsNumber(line, expr, e.tokens, e.means)
    /\ Precedence(e) = 4 => ReadsUnsigned(line, expr, e.tokens, e.means)

LEMMA UnsignedIsAll ==
    ASSUME NEW line, Len(line) \in Nat, NEW expr, IsExpr(line, expr, 0), NEW t, NEW m,
           ReadsUnsigned(line, expr, t, m)
    PROVE  ReadsNumber(line, expr, t, m) /\ ReadsTerm(line, expr, t, m) /\ ReadsSum(line, expr, t, m)
BY UnsignedIsNumber, NumberIsTerm, TermIsSum

LEMMA WithinTyped ==
    ASSUME NEW e, e.tokens \in Seq(Tokens), NEW k
    PROVE  Within(e, k) \in Seq(Tokens) /\ Len(Within(e, k)) >= Len(e.tokens)
<1> DEFINE t == e.tokens
           opens == <<Symbol("(")>>
           closes == <<Symbol(Space), Symbol(")")>>
           w == opens \o t \o closes
<1>1. /\ opens \in Seq(Tokens) /\ closes \in Seq(Tokens)
      /\ Len(opens) = 1 /\ Len(closes) = 2 /\ t \in Seq(Tokens) /\ Len(t) \in Nat
  <2>1. Symbol("(") \in Tokens /\ Symbol(Space) \in Tokens /\ Symbol(")") \in Tokens
    BY DEF Symbol, Tokens
  <2>2. QED  BY <2>1
<1>2. Within(e, k) = t \/ Within(e, k) = w
  BY DEF Within
<1> HIDE DEF t, opens, closes
<1>3. opens \o t \in Seq(Tokens) /\ Len(opens \o t) = Len(opens) + Len(t)
  BY <1>1, ConcatLength
<1>4. w \in Seq(Tokens) /\ Len(w) = Len(opens \o t) + Len(closes)
  BY <1>1, <1>3, ConcatLength
<1> HIDE DEF w
<1>5. QED  BY <1>1, <1>2, <1>3, <1>4 DEF t

LEMMA BetweenLength ==
    ASSUME NEW l \in Seq(Tokens), NEW r \in Seq(Tokens), NEW op \in Operators
    PROVE  Len(Between(l, op, r)) = (Len(l) + 3) + Len(r)
<1> DEFINE mid == <<Symbol(Space), Symbol(op), Symbol(Space)>>
<1>1. mid \in Seq(Tokens) /\ Len(mid) = 3
  <2>1. Symbol(Space) \in Tokens /\ Symbol(op) \in Tokens
    BY DEF Symbol, Tokens, Operators, Sums, Products
  <2>2. QED  BY <2>1
<1>2. Between(l, op, r) = l \o mid \o r
  BY DEF Between
<1> HIDE DEF mid
<1>3. l \o mid \in Seq(Tokens) /\ Len(l \o mid) = Len(l) + Len(mid)
  BY <1>1, ConcatLength
<1>4. Len(l \o mid \o r) = Len(l \o mid) + Len(r)
  BY <1>3, ConcatLength
<1>5. QED  BY <1>1, <1>2, <1>3, <1>4

LEMMA WithinReads ==
    ASSUME NEW line, Len(line) \in Nat, NEW expr, IsExpr(line, expr, 0),
           NEW e, e.tokens \in Seq(Tokens), Precedence(e) \in 1 .. 4, AllRead(line, expr, e)
    PROVE  /\ ReadsUnsigned(line, expr, Within(e, 4), e.means)
           /\ ReadsNumber(line, expr, Within(e, 3), e.means)
           /\ ReadsTerm(line, expr, Within(e, 2), e.means)
           /\ ReadsSum(line, expr, Within(e, 1), e.means)
<1> DEFINE t == e.tokens
           w == <<Symbol("(")>> \o t \o <<Symbol(Space), Symbol(")")>>
           Prec == Precedence(e)
<1>1. t \in Seq(Tokens) /\ Prec \in 1 .. 4 /\ ReadsSum(line, expr, t, e.means)
  BY DEF AllRead
<1>2. ReadsUnsigned(line, expr, w, e.means)
  <2> HIDE DEF t
  <2>1. QED  BY <1>1, ReadsParentheses
<1>3. ReadsNumber(line, expr, w, e.means) /\ ReadsTerm(line, expr, w, e.means)
  <2> HIDE DEF w
  <2>1. QED  BY <1>2, UnsignedIsAll
<1>5. \A k \in 1 .. 4 : Within(e, k) = IF Prec >= k THEN t ELSE w
  BY DEF Within
<1>6. /\ Prec >= 2 => ReadsTerm(line, expr, t, e.means)
      /\ Prec >= 3 => ReadsNumber(line, expr, t, e.means)
      /\ Prec = 4 => ReadsUnsigned(line, expr, t, e.means)
  BY DEF AllRead
<1> HIDE DEF t, w, Prec
<1>7. Prec >= 1 /\ (Prec >= 4 => Prec = 4)
  BY <1>1
<1>8. QED  BY <1>1, <1>2, <1>3, <1>5, <1>6, <1>7 DEF t

LEMMA NegationFields ==
    ASSUME NEW l
    PROVE  /\ Negation(l).tokens = <<Symbol("-")>> \o Within(l, 4)
           /\ Negation(l).means = Signed(TRUE, l.means)
BY DEF Negation

LEMMA BinaryFields ==
    ASSUME NEW e, e = Binary(e.op, e.l, e.r), NEW p, Precedence([op |-> e.op]) = p
    PROVE  /\ e.tokens = Between(Within(e.l, p), e.op, Within(e.r, p + 1))
           /\ e.means = Means(e.op, e.l.means, e.r.means)
<1> DEFINE op == e.op
           l == e.l
           r == e.r
<1>1. e = Binary(op, l, r) /\ Precedence([op |-> op]) = p
  OBVIOUS
<1> HIDE DEF op, l, r
<1>2. /\ e.tokens = Between(Within(l, p), op, Within(r, p + 1))
      /\ e.means = Means(op, l.means, r.means)
  <2>1. /\ Binary(op, l, r).tokens = Between(Within(l, p), op, Within(r, p + 1))
        /\ Binary(op, l, r).means = Means(op, l.means, r.means)
    BY <1>1 DEF Binary, Between, Means
  <2>2. QED  BY <1>1, <2>1
<1>3. QED  BY <1>2 DEF op, l, r

LEMMA PrecedenceOf ==
    ASSUME NEW e
    PROVE  /\ e.op \in Sums => Precedence(e) = 1
           /\ e.op \in Products => Precedence(e) = 2
           /\ e.op = "neg" => Precedence(e) = 3
           /\ e.op = "literal" => Precedence(e) = 4
BY DEF Precedence, Sums, Products

\* One expression, when the shorter ones are read.
LEMMA ExpressionRead ==
    ASSUME NEW line, Len(line) \in Nat, NEW expr, IsExpr(line, expr, 0),
           NEW E, Expressions(E), NEW e \in E,
           \A d \in E : Len(d.tokens) < Len(e.tokens) => AllRead(line, expr, d)
    PROVE  AllRead(line, expr, e)
<1>1. \A d \in E : /\ d.tokens \in Seq(Tokens) /\ Len(d.tokens) \in Nat
                   /\ Precedence(d) \in 1 .. 4
  <2>1. ASSUME NEW d \in E PROVE d.op \in {"literal", "neg"} \cup Operators
    BY DEF Expressions, Literal
  <2>2. ASSUME NEW d \in E PROVE d.tokens \in Seq(Tokens) /\ Len(d.tokens) \in Nat
    BY DEF Expressions
  <2>3. ASSUME NEW d \in E PROVE Precedence(d) \in 1 .. 4
    <3>1. d.op \in Sums \/ d.op \in Products \/ d.op = "neg" \/ d.op = "literal"
      BY <2>1 DEF Operators
    <3>2. QED  BY <3>1, PrecedenceOf
  <2>4. QED  BY <2>2, <2>3
<1>2. ASSUME NEW n \in LITERALS, e = Literal(n) PROVE AllRead(line, expr, e)
  <2>1. e.op = "literal" /\ e.tokens = <<Number(n)>> /\ e.means = Ok(n) /\ n \in Nat
    BY <1>2, CalcAssumption DEF Literal
  <2>2. ReadsUnsigned(line, expr, e.tokens, e.means)
    BY <2>1, ReadsLiteral
  <2>3. QED  BY <2>2, UnsignedIsAll DEF AllRead
<1>3. ASSUME e.op = "neg", e.l \in E, e = Negation(e.l) PROVE AllRead(line, expr, e)
  <2> DEFINE l == e.l
  <2>1. e.tokens = <<Symbol("-")>> \o Within(l, 4) /\ e.means = Signed(TRUE, l.means)
    BY <1>3, NegationFields, Zenon
  <2>2. /\ l \in E /\ l.tokens \in Seq(Tokens) /\ Len(l.tokens) \in Nat /\ Precedence(l) \in 1 .. 4
        /\ Precedence(e) = 3
    BY <1>1, <1>3, PrecedenceOf
  <2> HIDE DEF l
  <2>3. \A k \in 1 .. 4 : Within(l, k) \in Seq(Tokens) /\ Len(Within(l, k)) >= Len(l.tokens)
    BY <2>2, WithinTyped
  <2>4. Len(l.tokens) < Len(e.tokens)
    <3> DEFINE sign == <<Symbol("-")>>
               w == Within(l, 4)
    <3>1. sign \in Seq(Tokens) /\ Len(sign) = 1
      <4>1. Symbol("-") \in Tokens
        BY DEF Symbol, Tokens
      <4>2. QED  BY <4>1
    <3>2. w \in Seq(Tokens) /\ Len(w) >= Len(l.tokens) /\ e.tokens = sign \o w
      BY <2>1, <2>3
    <3> HIDE DEF sign, w
    <3>3. Len(e.tokens) = Len(sign) + Len(w)
      BY <3>1, <3>2, ConcatLength
    <3>4. QED  BY <2>2, <3>1, <3>2, <3>3
  <2>5. AllRead(line, expr, l)
    BY <2>2, <2>4
  <2>6. ReadsUnsigned(line, expr, Within(l, 4), l.means)
    BY <2>2, <2>5, WithinReads
  <2>7. ReadsNumber(line, expr, e.tokens, e.means)
    <3> DEFINE w == Within(l, 4)
    <3>1. w \in Seq(Tokens) /\ ReadsUnsigned(line, expr, w, l.means)
      BY <2>3, <2>6
    <3> HIDE DEF w
    <3>2. ReadsNumber(line, expr, <<Symbol("-")>> \o w, Signed(TRUE, l.means))
      BY <3>1, ReadsNegation
    <3>3. QED  BY <2>1, <3>2 DEF w
  <2>8. ReadsTerm(line, expr, e.tokens, e.means)
    BY <2>7, NumberIsTerm
  <2>9. QED  BY <2>2, <2>7, <2>8, TermIsSum DEF AllRead
<1>4. ASSUME e.op \in Operators, e.l \in E, e.r \in E, e = Binary(e.op, e.l, e.r)
      PROVE  AllRead(line, expr, e)
  <2> DEFINE l == e.l
             r == e.r
             p == Precedence(e)
  <2>1. Precedence([op |-> e.op]) = p
    BY DEF Precedence
  <2>2. /\ e.tokens = Between(Within(l, p), e.op, Within(r, p + 1))
        /\ e.means = Means(e.op, l.means, r.means)
    BY <1>4, <2>1, BinaryFields
  <2>3. /\ l \in E /\ l.tokens \in Seq(Tokens) /\ Len(l.tokens) \in Nat /\ Precedence(l) \in 1 .. 4
        /\ r \in E /\ r.tokens \in Seq(Tokens) /\ Len(r.tokens) \in Nat /\ Precedence(r) \in 1 .. 4
    BY <1>1, <1>4
  <2>4. (e.op \in Sums /\ p = 1) \/ (e.op \in Products /\ p = 2)
    BY <1>4, PrecedenceOf DEF Operators
  <2> HIDE DEF l, r, p
  <2> DEFINE wl == Within(l, p)
             wr == Within(r, p + 1)
  <2>5. /\ wl \in Seq(Tokens) /\ Len(wl) >= Len(l.tokens)
        /\ wr \in Seq(Tokens) /\ Len(wr) >= Len(r.tokens)
    BY <2>3, <2>4, WithinTyped
  <2>6. e.tokens = Between(wl, e.op, wr)
    BY <2>2
  <2> HIDE DEF wl, wr
  <2>7. Len(e.tokens) = (Len(wl) + 3) + Len(wr)
    BY <1>4, <2>5, <2>6, BetweenLength
  <2>8. Len(l.tokens) < Len(e.tokens) /\ Len(r.tokens) < Len(e.tokens)
    BY <2>3, <2>5, <2>7
  <2>9. AllRead(line, expr, l) /\ AllRead(line, expr, r)
    BY <2>3, <2>8
  <2>10. /\ ReadsSum(line, expr, Within(l, 1), l.means) /\ ReadsTerm(line, expr, Within(l, 2), l.means)
         /\ ReadsTerm(line, expr, Within(r, 2), r.means) /\ ReadsNumber(line, expr, Within(r, 3), r.means)
    BY <2>3, <2>9, WithinReads
  <2>11. CASE e.op \in Sums /\ p = 1
    <3>1. ReadsSum(line, expr, wl, l.means) /\ ReadsTerm(line, expr, wr, r.means)
      BY <2>10, <2>11 DEF wl, wr
    <3>2. ReadsSum(line, expr, e.tokens, e.means)
      BY <2>2, <2>5, <2>6, <2>11, <3>1, ReadsBinarySum
    <3>3. QED  BY <2>11, <3>2 DEF AllRead, p
  <2>12. CASE e.op \in Products /\ p = 2
    <3>1. ReadsTerm(line, expr, wl, l.means) /\ ReadsNumber(line, expr, wr, r.means)
      BY <2>10, <2>12 DEF wl, wr
    <3>2. ReadsTerm(line, expr, e.tokens, e.means)
      BY <2>2, <2>5, <2>6, <2>12, <3>1, ReadsProduct
    <3>3. QED  BY <2>12, <3>2, TermIsSum DEF AllRead, p
  <2>13. QED  BY <2>4, <2>11, <2>12
<1>5. QED  BY <1>2, <1>3, <1>4 DEF Expressions

(* calc prints what the expression means, however deep it is and however    *)
(* wide an int: the loops of calc_term and calc_expr apply the operators    *)
(* from left to right, at their precedence, and carry an error, with the    *)
(* numbers that go on being computed, or a panic to the end.                *)
THEOREM CalcRight ==
    ASSUME NEW E, Expressions(E), NEW e \in E
    PROVE  cmd_calc(e.tokens) = Outcome(e.means)
<1> DEFINE line == e.tokens
           expr == calc_expr(line)
<1>1. line \in Seq(Tokens) /\ Len(line) \in Nat
  BY DEF Expressions
<1>2. IsExpr(line, expr, 0)
  BY <1>1, ExprDefined
<1> HIDE DEF line, expr
<1> DEFINE S == {k \in Nat : \A d \in E : Len(d.tokens) < k => AllRead(line, expr, d)}
<1>3. 0 \in S
  <2>1. \A d \in E : Len(d.tokens) \in Nat
    BY DEF Expressions
  <2>2. QED  BY <2>1
<1>4. ASSUME NEW k \in Nat, k \in S PROVE k + 1 \in S
  <2>1. ASSUME NEW d \in E, Len(d.tokens) < k + 1 PROVE AllRead(line, expr, d)
    <3>1. \A f \in E : Len(f.tokens) \in Nat
      BY DEF Expressions
    <3>2. \A f \in E : Len(f.tokens) < Len(d.tokens) => AllRead(line, expr, f)
      BY <1>4, <2>1, <3>1
    <3>3. QED  BY <1>1, <1>2, <3>2, ExpressionRead
  <2>2. QED  BY <2>1
<1>5. Len(line) + 1 \in S
  <2> HIDE DEF S
  <2>1. QED  BY <1>1, <1>3, <1>4, Induction
<1>6. ReadsSum(line, expr, line, e.means)
  BY <1>1, <1>5 DEF AllRead, line
<1> DEFINE end == 1 + Len(line)
<1>7. /\ Occurs(line, line, 1) /\ end \in Nat /\ end \in Positions(line) /\ ~ Is(line, end, Space)
      /\ 1 \in Positions(line) /\ \A c : ~ Is(line, end, c)
  BY <1>1 DEF Occurs, Positions, Is
<1>8. SkipSpaces(line, end) = end
  BY <1>1, <1>7, NoSpace
<1> HIDE DEF end
<1>9. Ended(line, end) /\ ~ \E op \in Sums : Is(line, SkipSpaces(line, end), op)
  BY <1>7, <1>8 DEF Ended
<1> DEFINE m == e.means
<1> HIDE DEF m
<1>10. /\ m.is # "value" => Sum(line, expr, 1).r = m
       /\ m.is = "value" => Sum(line, expr, 1) = Loop(line, Sums, Terms(line, expr), Parsed(m, end))
  BY <1>6, <1>7, <1>9, Zenon DEF ReadsSum, end, m
<1>11. ASSUME m.is = "value" PROVE Sum(line, expr, 1).r = m
  <2>1. ParsesAfter(line, Terms(line, expr), end)
    BY <1>1, <1>2, <1>7, ExprAfter
  <2>2. Sum(line, expr, 1) = Parsed(m, SkipSpaces(line, end))
    BY <1>1, <1>7, <1>9, <1>10, <1>11, <2>1, LoopEnds
  <2>3. QED  BY <2>2 DEF Parsed
<1>12. expr[1] = Sum(line, expr, 1)
  BY <1>2, <1>7 DEF IsExpr
<1>13. expr[1].r = m
  BY <1>10, <1>11, <1>12
<1>14. QED  BY <1>13 DEF cmd_calc, expr, line, m

-----------------------------------------------------------------------------
(* A text and where its lines are.                                          *)

Follows(g, size, D, b, F) ==
    /\ g \in [0 .. size -> D] /\ g[0] = b
    /\ \A i \in 1 .. size : g[i] = F[<<g[i - 1], i>>]

LEMMA Recursion ==
    ASSUME NEW size \in Nat, NEW D, NEW b \in D, NEW F \in [D \X (1 .. size) -> D]
    PROVE  \E g : Follows(g, size, D, b, F)
<1> DEFINE Good(g, k) == g[0] = b /\ \A i \in 1 .. k : g[i] = F[<<g[i - 1], i>>]
           S == {k \in Nat : k <= size => \E g \in [0 .. k -> D] : Good(g, k)}
<1>1. 0 \in S
  <2> DEFINE g == [i \in 0 .. 0 |-> b]
  <2>1. g \in [0 .. 0 -> D] /\ Good(g, 0)
    OBVIOUS
  <2>2. QED  BY <2>1
<1>2. ASSUME NEW k \in Nat, k \in S PROVE k + 1 \in S
  <2> SUFFICES ASSUME k + 1 <= size PROVE \E h \in [0 .. k + 1 -> D] : Good(h, k + 1)
    OBVIOUS
  <2>1. PICK g \in [0 .. k -> D] : Good(g, k)
    BY <1>2
  <2> DEFINE v == F[<<g[k], k + 1>>]
             h == [i \in 0 .. k + 1 |-> IF i = k + 1 THEN v ELSE g[i]]
  <2>2. v \in D
    OBVIOUS
  <2> HIDE DEF v
  <2>3. h \in [0 .. k + 1 -> D]
    BY <2>2
  <2>4. h[0] = b /\ h[k + 1] = v /\ h[k] = g[k] /\ (k + 1) - 1 = k
    BY <2>1
  <2>5. ASSUME NEW i \in 1 .. k PROVE h[i] = F[<<h[i - 1], i>>]
    <3>1. h[i] = g[i] /\ h[i - 1] = g[i - 1]
      OBVIOUS
    <3>2. QED  BY <2>1, <3>1
  <2> HIDE DEF h
  <2>6. ASSUME NEW i \in 1 .. k + 1 PROVE h[i] = F[<<h[i - 1], i>>]
    <3>1. i \in 1 .. k \/ i = k + 1
      OBVIOUS
    <3>2. i = k + 1 => h[i] = F[<<h[i - 1], i>>]
      BY <2>4 DEF v
    <3>3. QED  BY <2>5, <3>1, <3>2
  <2>7. QED  BY <2>3, <2>4, <2>6
<1>3. size \in S
  <2> HIDE DEF S
  <2>1. QED  BY <1>1, <1>2, Induction
<1>4. QED  BY <1>3 DEF Follows

\* What holds of the first holds of all, when a step keeps it.
LEMMA StepByStep ==
    ASSUME NEW size \in Nat, NEW S, 0 \in S,
           \A k \in 0 .. size - 1 : k \in S => k + 1 \in S
    PROVE  \A k \in 0 .. size : k \in S
<1> DEFINE R == {k \in Nat : k <= size => k \in S}
<1>1. 0 \in R
  OBVIOUS
<1>2. ASSUME NEW k \in Nat, k \in R PROVE k + 1 \in R
  BY <1>2
<1>3. Nat \subseteq R
  <2> HIDE DEF R
  <2>1. QED  BY <1>1, <1>2, Induction
<1>4. QED  BY <1>3

Bytes == BYTES \cup {Newline}

\* Texts as sequences of lines.
Documents == Seq(Seq(BYTES))

LEMMA DocumentTyped ==
    ASSUME NEW lines \in Documents
    PROVE  /\ Len(lines) \in Nat /\ DOMAIN lines = 1 .. Len(lines)
           /\ \A k \in 1 .. Len(lines) : lines[k] \in Seq(BYTES) /\ Len(lines[k]) \in Nat
<1>1. \A k \in 1 .. Len(lines) : lines[k] \in Seq(BYTES)
  BY ElementOfSeq, Zenon DEF Documents
<1>2. Len(lines) \in Nat /\ DOMAIN lines = 1 .. Len(lines)
  BY DEF Documents
<1>3. QED  BY <1>1, <1>2

LEMMA TextDefined ==
    ASSUME NEW lines \in Documents
    PROVE  \E u : /\ u[0] = <<>> /\ Text(lines) = u[Len(lines)]
                  /\ \A k \in 1 .. Len(lines) : u[k] = u[k - 1] \o Append(lines[k], Newline)
<1> DEFINE n == Len(lines)
           F == [x \in Seq(Bytes) \X (1 .. n) |-> x[1] \o Append(lines[x[2]], Newline)]
<1>1. n \in Nat /\ \A k \in 1 .. n : lines[k] \in Seq(BYTES)
  BY DocumentTyped
<1>2. \A k \in 1 .. n : Append(lines[k], Newline) \in Seq(Bytes)
  <2>1. ASSUME NEW s \in Seq(BYTES) PROVE Append(s, Newline) \in Seq(Bytes)
    <3>1. s \in Seq(Bytes) /\ Newline \in Bytes
      BY SeqMonotonic DEF Bytes
    <3>2. QED  BY <3>1, AppendProperties
  <2>2. QED  BY <1>1, <2>1
<1>3. F \in [Seq(Bytes) \X (1 .. n) -> Seq(Bytes)]
  <2>1. ASSUME NEW x \in Seq(Bytes) \X (1 .. n)
        PROVE  x[1] \o Append(lines[x[2]], Newline) \in Seq(Bytes)
    BY <1>2, ConcatProperties
  <2>2. QED  BY <2>1
<1>4. <<>> \in Seq(Bytes)
  BY EmptySeq
<1> HIDE DEF n
<1>5. PICK g : Follows(g, n, Seq(Bytes), <<>>, F)
  <2> HIDE DEF F
  <2>1. QED  BY <1>1, <1>3, <1>4, Recursion
<1>6. ASSUME NEW k \in 1 .. n PROVE g[k] = g[k - 1] \o Append(lines[k], Newline)
  <2>1. g[k - 1] \in Seq(Bytes) /\ g[k] = F[<<g[k - 1], k>>]
    <3> HIDE DEF F
    <3>1. k - 1 \in 0 .. n
      BY <1>1
    <3>2. QED  BY <1>5, <3>1 DEF Follows
  <2>2. QED  BY <2>1
<1>7. g = [k \in 0 .. n |-> IF k = 0 THEN <<>> ELSE g[k - 1] \o Append(lines[k], Newline)]
  <2> HIDE DEF F
  <2>1. g = [k \in 0 .. n |-> g[k]]
    BY <1>5 DEF Follows
  <2>2. ASSUME NEW k \in 0 .. n
        PROVE  g[k] = IF k = 0 THEN <<>> ELSE g[k - 1] \o Append(lines[k], Newline)
    <3>1. k = 0 \/ k \in 1 .. n
      BY <1>1
    <3>2. QED  BY <1>1, <1>5, <1>6, <3>1 DEF Follows
  <2>3. QED  BY <2>1, <2>2, Zenon
<1> DEFINE upto[k \in 0 .. Len(lines)] ==
              IF k = 0 THEN <<>> ELSE upto[k - 1] \o Append(lines[k], Newline)
<1>8. upto = [k \in 0 .. Len(lines) |->
                IF k = 0 THEN <<>> ELSE upto[k - 1] \o Append(lines[k], Newline)]
  BY <1>7, Zenon DEF n
<1>9. Text(lines) = upto[n]
  BY Zenon DEF Text, n
<1> HIDE DEF upto
<1>10. upto[0] = <<>> /\ \A k \in 1 .. n : upto[k] = upto[k - 1] \o Append(lines[k], Newline)
  <2>1. upto[0] = <<>>
    BY <1>1, <1>8 DEF n
  <2>2. ASSUME NEW k \in 1 .. n PROVE upto[k] = upto[k - 1] \o Append(lines[k], Newline)
    <3>1. k \in 0 .. Len(lines) /\ k # 0
      BY <1>1 DEF n
    <3>2. QED  BY <1>8, <3>1, Zenon
  <2>3. QED  BY <2>1, <2>2
<1>11. QED  BY <1>9, <1>10 DEF n

\* A line behind a place of a text, with its newline.
HasLine(text, at, l) ==
    /\ \A j \in 1 .. Len(l) : text[at + j] = l[j]
    /\ text[at + (Len(l) + 1)] = Newline

LEMMA LineAppended ==
    ASSUME NEW s \in Seq(Bytes), NEW l \in Seq(BYTES)
    PROVE  /\ s \o Append(l, Newline) \in Seq(Bytes)
           /\ Len(s \o Append(l, Newline)) = Len(s) + (Len(l) + 1)
           /\ \A i \in 1 .. Len(s) : (s \o Append(l, Newline))[i] = s[i]
           /\ HasLine(s \o Append(l, Newline), Len(s), l)
<1> DEFINE a == Append(l, Newline)
           t == s \o a
<1>1. /\ a \in Seq(Bytes) /\ Len(a) = Len(l) + 1 /\ Len(l) \in Nat /\ Len(s) \in Nat
      /\ \A j \in 1 .. Len(l) : a[j] = l[j]
      /\ a[Len(l) + 1] = Newline
  <2>1. l \in Seq(Bytes) /\ Newline \in Bytes
    BY SeqMonotonic DEF Bytes
  <2>2. QED  BY <2>1, AppendProperties
<1> HIDE DEF a
<1>2. /\ t \in Seq(Bytes) /\ Len(t) = Len(s) + (Len(l) + 1)
      /\ \A i \in 1 .. Len(s) + Len(a) : t[i] = IF i <= Len(s) THEN s[i] ELSE a[i - Len(s)]
  <2>1. a \in Seq(Bytes)
    BY <1>1
  <2>2. \A i \in 1 .. Len(s) + Len(a) : t[i] = IF i <= Len(s) THEN s[i] ELSE a[i - Len(s)]
    BY <2>1, ConcatProperties, Zenon
  <2>3. t \in Seq(Bytes) /\ Len(t) = Len(s) + Len(a)
    BY <2>1, ConcatProperties
  <2>4. QED  BY <1>1, <2>2, <2>3
<1> HIDE DEF t
<1>3. \A i \in 1 .. Len(s) : t[i] = s[i]
  BY <1>1, <1>2
<1>4. ASSUME NEW j \in 1 .. Len(l) + 1 PROVE t[Len(s) + j] = a[j]
  <2>1. /\ Len(s) + j \in 1 .. Len(s) + Len(a) /\ ~ Len(s) + j <= Len(s)
        /\ (Len(s) + j) - Len(s) = j
    BY <1>1
  <2>2. t[Len(s) + j] = IF Len(s) + j <= Len(s) THEN s[Len(s) + j] ELSE a[(Len(s) + j) - Len(s)]
    BY <1>2, <2>1
  <2>3. QED  BY <2>1, <2>2
<1>5. \A j \in 1 .. Len(l) + 1 : t[Len(s) + j] = a[j]
  BY <1>4
<1>6. HasLine(t, Len(s), l)
  <2>1. Len(l) + 1 \in 1 .. Len(l) + 1 /\ \A j \in 1 .. Len(l) : j \in 1 .. Len(l) + 1
    BY <1>1
  <2>2. t[Len(s) + (Len(l) + 1)] = Newline
    BY <1>1, <1>5, <2>1
  <2>3. \A j \in 1 .. Len(l) : t[Len(s) + j] = l[j]
    BY <1>1, <1>5, <2>1
  <2>4. QED  BY <2>2, <2>3 DEF HasLine
<1>7. QED  BY <1>2, <1>3, <1>6 DEF t, a

LEMMA HasLineKept ==
    ASSUME NEW s, NEW t, NEW l \in Seq(BYTES), NEW e \in Nat, NEW n \in Nat,
           e + (Len(l) + 1) <= n, HasLine(s, e, l),
           \A i \in 1 .. n : t[i] = s[i]
    PROVE  HasLine(t, e, l)
<1>1. Len(l) \in Nat
  BY LenProperties
<1> DEFINE L == Len(l)
<1>2. L \in Nat /\ e + (L + 1) <= n
  BY <1>1
<1> HIDE DEF L
<1>3. \A j \in 1 .. L : e + j \in 1 .. n
  BY <1>2
<1>4. e + (L + 1) \in 1 .. n
  BY <1>2
<1>5. QED  BY <1>3, <1>4 DEF HasLine, L

\* The lines are in a text one after the other, each with its newline; ends[k] is
\* where the first k of them end.
Layout(lines, text, ends) ==
    /\ ends \in [0 .. Len(lines) -> Nat]
    /\ ends[0] = 0 /\ Len(text) = ends[Len(lines)]
    /\ \A k \in 0 .. Len(lines) - 1 :
          /\ ends[k + 1] = ends[k] + (Len(lines[k + 1]) + 1)
          /\ HasLine(text, ends[k], lines[k + 1])

LEMMA EndsGrow ==
    ASSUME NEW lines \in Documents, NEW text, NEW ends, Layout(lines, text, ends),
           NEW a \in 0 .. Len(lines), NEW b \in a .. Len(lines)
    PROVE  ends[a] + (b - a) <= ends[b]
<1> DEFINE n == Len(lines)
           S == {k \in Nat : a <= k => ends[a] + (k - a) <= ends[k]}
<1>1. n \in Nat /\ \A k \in 0 .. n - 1 : ends[k + 1] = ends[k] + (Len(lines[k + 1]) + 1)
                                         /\ Len(lines[k + 1]) \in Nat
  <2>1. \A k \in 0 .. n - 1 : k + 1 \in 1 .. n
    OBVIOUS
  <2>2. QED  BY <2>1 DEF Layout
<1>2. \A k \in 0 .. n : ends[k] \in Nat
  BY DEF Layout
<1> HIDE DEF n
<1>3. a \in Nat /\ b \in Nat /\ a <= b /\ b <= n
  BY DEF n
<1>4. 0 \in S
  BY <1>1, <1>2, <1>3
<1>5. ASSUME NEW k \in 0 .. n - 1, k \in S PROVE k + 1 \in S
  <2>1. ends[k + 1] = ends[k] + (Len(lines[k + 1]) + 1) /\ Len(lines[k + 1]) \in Nat
    BY <1>1
  <2>2. ends[k] \in Nat /\ ends[k + 1] \in Nat /\ ends[a] \in Nat
    BY <1>1, <1>2, <1>3
  <2>3. k \in Nat /\ k + 1 \in Nat /\ (a <= k + 1 => a <= k \/ a = k + 1)
    BY <1>1, <1>3
  <2>4. a <= k => ends[a] + (k - a) <= ends[k]
    BY <1>5
  <2>5. a <= k + 1 => ends[a] + ((k + 1) - a) <= ends[k + 1]
    <3>1. CASE a = k + 1
      BY <1>3, <2>2, <3>1
    <3>2. CASE a <= k
      <4>1. \A p, q, r, l \in Nat : p + (k - a) <= q /\ r = q + (l + 1) => p + ((k + 1) - a) <= r
        BY <1>3, <2>3
      <4>2. QED  BY <2>1, <2>2, <2>4, <3>2, <4>1
    <3>3. QED  BY <2>3, <3>1, <3>2
  <2>6. QED  BY <2>3, <2>5
<1>6. b \in S
  <2> HIDE DEF S
  <2>1. b \in 0 .. n /\ n \in Nat
    BY <1>1, <1>3
  <2>2. QED  BY <2>1, <1>4, <1>5, StepByStep
<1>7. QED  BY <1>3, <1>6

LEMMA TextLayout ==
    ASSUME NEW lines \in Documents
    PROVE  Text(lines) \in Seq(Bytes) /\ \E ends : Layout(lines, Text(lines), ends)
<1> DEFINE n == Len(lines)
<1>1. n \in Nat
  BY DocumentTyped
<1>2. PICK u : /\ u[0] = <<>> /\ Text(lines) = u[n]
               /\ \A k \in 1 .. n : u[k] = u[k - 1] \o Append(lines[k], Newline)
  BY TextDefined
<1>3. \A k \in 1 .. n : lines[k] \in Seq(BYTES) /\ Len(lines[k]) \in Nat
  BY DocumentTyped
<1> HIDE DEF n
<1>4. ASSUME NEW m \in 0 .. n - 1
      PROVE  /\ m \in Nat /\ m \in 0 .. n /\ m + 1 \in 0 .. n /\ m + 1 \in 1 .. n
             /\ lines[m + 1] \in Seq(BYTES) /\ Len(lines[m + 1]) \in Nat
             /\ u[m + 1] = u[m] \o Append(lines[m + 1], Newline)
  <2>1. m \in Nat /\ m \in 0 .. n /\ m + 1 \in 0 .. n /\ m + 1 \in 1 .. n /\ (m + 1) - 1 = m
    BY <1>1
  <2>2. u[m + 1] = u[(m + 1) - 1] \o Append(lines[m + 1], Newline)
    BY <1>2, <2>1
  <2>3. QED  BY <1>3, <2>1, <2>2
<1> DEFINE ends == [k \in 0 .. n |-> Len(u[k])]
           S == {m \in Nat : /\ u[m] \in Seq(Bytes)
                             /\ \A k \in 0 .. m - 1 :
                                   /\ ends[k + 1] = ends[k] + (Len(lines[k + 1]) + 1)
                                   /\ ends[k] \in Nat /\ ends[k + 1] <= ends[m]
                                   /\ HasLine(u[m], ends[k], lines[k + 1])}
<1>5. \A k \in 0 .. n : ends[k] = Len(u[k])
  OBVIOUS
<1>6. ends[0] = 0
  <2>1. 0 \in 0 .. n
    BY <1>1
  <2>2. QED  BY <1>2, <2>1
<1>7. ends = [k \in 0 .. n |-> ends[k]]
  OBVIOUS
<1> HIDE DEF ends
<1>8. 0 \in S
  <2>1. \A k \in 0 .. 0 - 1 : FALSE
    OBVIOUS
  <2>2. u[0] \in Seq(Bytes)
    BY <1>2, EmptySeq
  <2>3. QED  BY <2>1, <2>2
<1>9. ASSUME NEW m \in 0 .. n - 1, m \in S PROVE m + 1 \in S
  <2>1. u[m] \in Seq(Bytes) /\ lines[m + 1] \in Seq(BYTES) /\ u[m + 1] = u[m] \o Append(lines[m + 1], Newline)
    BY <1>4, <1>9
  <2>2. \A k \in 0 .. m - 1 : /\ ends[k + 1] = ends[k] + (Len(lines[k + 1]) + 1)
                              /\ ends[k] \in Nat /\ ends[k + 1] <= ends[m]
                              /\ HasLine(u[m], ends[k], lines[k + 1])
    BY <1>9
  <2> DEFINE s == u[m]
             l == lines[m + 1]
             t == s \o Append(l, Newline)
             x == Len(s)
             L == Len(l)
  <2>3. t \in Seq(Bytes) /\ Len(t) = x + (L + 1) /\ x \in Nat /\ L \in Nat
    BY <2>1, LineAppended
  <2>4. (\A i \in 1 .. x : t[i] = s[i]) /\ HasLine(t, x, l)
    BY <2>1, LineAppended
  <2>5. ends[m] = x /\ ends[m + 1] = Len(t) /\ u[m + 1] = t /\ m \in Nat /\ m + 1 \in Nat
    <3>1. m \in Nat /\ m \in 0 .. n /\ m + 1 \in 0 .. n
      BY <1>4
    <3>2. u[m + 1] = t
      BY <2>1, Zenon
    <3>5. m + 1 \in Nat
      BY <3>1
    <3> HIDE DEF t
    <3>3. ends[m] = x /\ ends[m + 1] = Len(t)
      BY <1>5, <3>1, <3>2
    <3>4. QED  BY <3>1, <3>2, <3>3, <3>5, Zenon
  <2>6. \A k \in 0 .. (m + 1) - 1 : k = m \/ (k \in 0 .. m - 1 /\ k \in 0 .. n - 1)
    BY <1>1, <1>4
  <2> HIDE DEF x, L, t, s, l, S
  <2>7. ends[m + 1] = ends[m] + (L + 1) /\ ends[m] <= ends[m + 1] /\ ends[m] \in Nat
        /\ ends[m + 1] \in Nat
    BY <2>3, <2>5
  <2>8. ASSUME NEW k \in 0 .. (m + 1) - 1
        PROVE  /\ ends[k + 1] = ends[k] + (Len(lines[k + 1]) + 1)
               /\ ends[k] \in Nat /\ ends[k + 1] <= ends[m + 1]
               /\ HasLine(u[m + 1], ends[k], lines[k + 1])
    <3>1. CASE k = m
      <4>1. HasLine(u[m + 1], ends[m], lines[m + 1])
        BY <2>4, <2>5 DEF l
      <4>2. ends[m + 1] = ends[m] + (Len(lines[m + 1]) + 1)
        BY <2>7 DEF L, l
      <4>3. ends[m + 1] <= ends[m + 1]
        BY <2>7
      <4>4. QED  BY <2>7, <3>1, <4>1, <4>2, <4>3, Zenon
    <3>2. CASE k # m
      <4>1. k \in 0 .. m - 1 /\ k \in 0 .. n - 1
        BY <2>6, <3>2
      <4>2. /\ ends[k + 1] = ends[k] + (Len(lines[k + 1]) + 1)
            /\ ends[k] \in Nat /\ ends[k + 1] <= ends[m]
            /\ HasLine(s, ends[k], lines[k + 1])
        BY <2>2, <4>1, Zenon DEF s
      <4>3. lines[k + 1] \in Seq(BYTES) /\ Len(lines[k + 1]) \in Nat
        BY <1>4, <4>1
      <4> DEFINE a == ends[k]
                 b == Len(lines[k + 1])
                 c == ends[k + 1]
                 d == ends[m]
                 f == ends[m + 1]
      <4>4. a \in Nat /\ b \in Nat /\ c = a + (b + 1) /\ c <= d /\ d <= f /\ d \in Nat /\ f \in Nat
        BY <2>7, <4>2, <4>3
      <4>5. c <= f /\ a + (b + 1) <= d
        <5> HIDE DEF a, b, c, d, f
        <5>1. QED  BY <4>4
      <4>6. HasLine(t, ends[k], lines[k + 1])
        <5>1. d = x
          BY <2>5
        <5>2. a + (Len(lines[k + 1]) + 1) <= x /\ a \in Nat /\ HasLine(s, a, lines[k + 1])
          BY <4>2, <4>5, <5>1
        <5> HIDE DEF a
        <5>3. HasLine(t, a, lines[k + 1])
          BY <2>3, <2>4, <4>3, <5>2, HasLineKept
        <5>4. QED  BY <5>3 DEF a
      <4>7. QED  BY <2>5, <4>2, <4>5, <4>6
    <3>3. QED  BY <3>1, <3>2
  <2>9. QED  BY <2>3, <2>5, <2>8 DEF S
<1>10. \A m \in 0 .. n : m \in S
  <2> HIDE DEF S
  <2>1. QED  BY <1>1, <1>8, <1>9, StepByStep
<1>11. n \in S /\ n \in 0 .. n
  BY <1>1, <1>10
<1>12. ends \in [0 .. n -> Nat]
  <2>1. \A k \in 0 .. n : u[k] \in Seq(Bytes)
    BY <1>10
  <2>2. \A k \in 0 .. n : ends[k] \in Nat
    BY <1>5, <2>1, LenProperties
  <2>3. QED  BY <1>7, <2>2
<1>13. Layout(lines, u[n], ends)
  <2>1. Len(u[n]) = ends[n]
    BY <1>5, <1>11
  <2>2. \A k \in 0 .. n - 1 : /\ ends[k + 1] = ends[k] + (Len(lines[k + 1]) + 1)
                              /\ HasLine(u[n], ends[k], lines[k + 1])
    BY <1>11
  <2>3. QED  BY <1>6, <1>12, <2>1, <2>2 DEF Layout, n
<1>14. QED  BY <1>2, <1>11, <1>13

\* What the layout says of one line, and of its bytes.
LEMMA LineTyped ==
    ASSUME NEW lines \in Documents, NEW text, NEW ends, Layout(lines, text, ends),
           NEW k \in 0 .. Len(lines) - 1
    PROVE  /\ k + 1 \in 1 .. Len(lines) /\ k \in 0 .. Len(lines) /\ k + 1 \in 0 .. Len(lines)
           /\ lines[k + 1] \in Seq(BYTES) /\ Len(lines[k + 1]) \in Nat
           /\ ends[k] \in Nat /\ ends[k + 1] \in Nat /\ ends[k + 1] <= Len(text)
           /\ ends[k + 1] = ends[k] + (Len(lines[k + 1]) + 1)
<1>1. Len(lines) \in Nat
  BY DocumentTyped
<1>2. /\ k + 1 \in 1 .. Len(lines) /\ k \in 0 .. Len(lines)
      /\ k + 1 \in 0 .. Len(lines) /\ Len(lines) \in k + 1 .. Len(lines)
      /\ Len(lines) \in 0 .. Len(lines)
  BY <1>1
<1>3. lines[k + 1] \in Seq(BYTES) /\ Len(lines[k + 1]) \in Nat
  BY <1>2, DocumentTyped
<1>4. ends[k] \in Nat /\ ends[k + 1] \in Nat /\ ends[Len(lines)] \in Nat
  <2>1. ends \in [0 .. Len(lines) -> Nat]
    BY DEF Layout
  <2>2. QED  BY <1>2, <2>1
<1>5. ends[k + 1] + (Len(lines) - (k + 1)) <= ends[Len(lines)]
  BY <1>2, EndsGrow
<1>6. ends[k + 1] <= Len(text)
  <2>1. Len(text) = ends[Len(lines)]
    BY DEF Layout
  <2>2. QED  BY <1>1, <1>2, <1>4, <1>5, <2>1
<1>7. ends[k + 1] = ends[k] + (Len(lines[k + 1]) + 1)
  BY DEF Layout
<1>8. QED  BY <1>2, <1>3, <1>4, <1>6, <1>7

Spelled(lines, text, ends, k) ==
    /\ \A j \in 1 .. Len(lines[k + 1]) :
         text[ends[k] + j] = lines[k + 1][j] /\ lines[k + 1][j] \in BYTES
    /\ text[ends[k + 1]] = Newline

LEMMA LineBytes ==
    ASSUME NEW lines \in Documents, NEW text, NEW ends, Layout(lines, text, ends),
           NEW k \in 0 .. Len(lines) - 1
    PROVE  Spelled(lines, text, ends, k)
<1>1. lines[k + 1] \in Seq(BYTES)
  BY LineTyped
<1>2. \A j \in 1 .. Len(lines[k + 1]) : lines[k + 1][j] \in BYTES
  BY <1>1, ElementOfSeq
<1>3. HasLine(text, ends[k], lines[k + 1]) /\ ends[k + 1] = ends[k] + (Len(lines[k + 1]) + 1)
  BY DEF Layout
<1>4. QED  BY <1>2, <1>3 DEF HasLine, Spelled

\* Every byte is in a line.
LEMMA LineOf ==
    ASSUME NEW lines \in Documents, NEW text, NEW ends, Layout(lines, text, ends),
           NEW i \in 1 .. Len(text)
    PROVE  \E k \in 0 .. Len(lines) - 1 : ends[k] < i /\ i <= ends[k + 1]
<1> DEFINE n == Len(lines)
           S == {m \in Nat : i <= ends[m] => \E k \in 0 .. m - 1 : ends[k] < i /\ i <= ends[k + 1]}
<1>1. n \in Nat /\ i \in Nat /\ i >= 1 /\ ends[0] = 0 /\ Len(text) = ends[n] /\ i <= ends[n]
      /\ \A k \in 0 .. n : ends[k] \in Nat
  <2>1. n \in Nat /\ ends \in [0 .. n -> Nat] /\ ends[0] = 0 /\ Len(text) = ends[n]
    BY DocumentTyped DEF Layout
  <2> HIDE DEF n
  <2>2. QED  BY <2>1
<1> HIDE DEF n
<1>2. 0 \in S
  BY <1>1
<1>3. ASSUME NEW m \in 0 .. n - 1, m \in S PROVE m + 1 \in S
  <2>1. m \in Nat /\ m + 1 \in Nat /\ m \in 0 .. (m + 1) - 1 /\ m \in 0 .. n
    BY <1>1
  <2>2. ends[m] \in Nat
    BY <1>1, <2>1
  <2>3. CASE i <= ends[m]
    <3>1. PICK k \in 0 .. m - 1 : ends[k] < i /\ i <= ends[k + 1]
      BY <1>3, <2>3
    <3>2. k \in 0 .. (m + 1) - 1
      BY <2>1
    <3>3. QED  BY <2>1, <3>1, <3>2
  <2>4. CASE ends[m] < i
    BY <2>1, <2>4
  <2>5. QED  BY <1>1, <2>2, <2>3, <2>4
<1>4. n \in S
  <2> HIDE DEF S
  <2>1. n \in 0 .. n
    BY <1>1
  <2>2. QED  BY <1>1, <1>2, <1>3, <2>1, StepByStep
<1>5. QED  BY <1>1, <1>4 DEF n

\* Only one text has the lines.
LEMMA LayoutUnique ==
    ASSUME NEW lines \in Documents, NEW s \in Seq(Bytes), NEW t \in Seq(Bytes),
           NEW e, Layout(lines, s, e), NEW f, Layout(lines, t, f)
    PROVE  s = t
<1> DEFINE n == Len(lines)
           S == {k \in Nat : e[k] = f[k]}
<1>1. n \in Nat
  BY DocumentTyped
<1>2. 0 \in S
  BY DEF Layout
<1>3. ASSUME NEW k \in 0 .. n - 1, k \in S PROVE k + 1 \in S
  BY <1>3 DEF Layout
<1>4. \A k \in 0 .. n : k \in S
  <2> HIDE DEF S, n
  <2>1. QED  BY <1>1, <1>2, <1>3, StepByStep
<1>5. \A k \in 0 .. n : e[k] = f[k]
  BY <1>4
<1>6. Len(s) = Len(t)
  BY <1>1, <1>5 DEF Layout
<1>7. ASSUME NEW i \in 1 .. Len(s) PROVE s[i] = t[i]
  <2>1. PICK k \in 0 .. n - 1 : e[k] < i /\ i <= e[k + 1]
    BY LineOf
  <2>2. e[k] \in Nat /\ e[k + 1] = e[k] + (Len(lines[k + 1]) + 1) /\ Len(lines[k + 1]) \in Nat
    BY LineTyped
  <2>3. HasLine(s, e[k], lines[k + 1]) /\ HasLine(t, f[k], lines[k + 1])
    BY DEF Layout
  <2>4. e[k] = f[k]
    BY <1>1, <1>5
  <2> DEFINE j == i - e[k]
             L == Len(lines[k + 1])
  <2>5. (j \in 1 .. L \/ j = L + 1) /\ e[k] + j = i
    <3>1. \A a, b \in Nat : a < i /\ i <= a + (b + 1)
                             => (i - a \in 1 .. b \/ i - a = b + 1) /\ a + (i - a) = i
      OBVIOUS
    <3>2. e[k] < i /\ i <= e[k] + (L + 1) /\ e[k] \in Nat /\ L \in Nat
      BY <2>1, <2>2
    <3>3. QED  BY <3>1, <3>2, Zenon
  <2>6. s[e[k] + j] = t[f[k] + j]
    <3> HIDE DEF j
    <3>1. QED  BY <2>3, <2>5, <2>4 DEF HasLine
  <2>7. QED  BY <2>4, <2>5, <2>6
<1>8. QED  BY <1>6, <1>7, SeqEqual

\* The line a pass over the bytes is in behind the i-th of them.
At(lines, ends, k, i) ==
    /\ k \in 0 .. Len(lines) /\ ends[k] <= i
    /\ k < Len(lines) => i < ends[k + 1]

LEMMA EndsTyped ==
    ASSUME NEW lines \in Documents, NEW text, NEW ends, Layout(lines, text, ends)
    PROVE  /\ Len(lines) \in Nat /\ ends[0] = 0 /\ ends[Len(lines)] = Len(text) /\ Len(text) \in Nat
           /\ \A k \in 0 .. Len(lines) : ends[k] \in Nat
<1> DEFINE n == Len(lines)
<1>1. n \in Nat
  BY DocumentTyped
<1>2. ends \in [0 .. n -> Nat] /\ ends[0] = 0 /\ Len(text) = ends[n]
  BY DEF Layout
<1> HIDE DEF n
<1>3. n \in 0 .. n
  BY <1>1
<1>4. ends[n] \in Nat /\ \A k \in 0 .. n : ends[k] \in Nat
  BY <1>2, <1>3
<1>5. QED  BY <1>1, <1>2, <1>4 DEF n

LEMMA WhichLine ==
    ASSUME NEW lines \in Documents, NEW text, NEW ends, Layout(lines, text, ends),
           NEW i \in 0 .. Len(text), NEW k, At(lines, ends, k, i), NEW a \in 0 .. Len(lines)
    PROVE  a <= k <=> ends[a] <= i
<1> DEFINE n == Len(lines)
<1>1. /\ n \in Nat /\ i \in Nat /\ k \in 0 .. n /\ a \in 0 .. n
      /\ \A m \in 0 .. n : ends[m] \in Nat
  BY EndsTyped DEF At
<1>2. ends[k] <= i /\ (k < n => i < ends[k + 1])
  BY DEF At
<1>3. a <= k => ends[a] + (k - a) <= ends[k]
  <2>1. a <= k => k \in a .. Len(lines)
    BY <1>1
  <2>2. QED  BY <1>1, <2>1, EndsGrow
<1>4. k < a => k + 1 \in 0 .. n /\ ends[k + 1] + (a - (k + 1)) <= ends[a]
  <2>1. k < a => k + 1 \in 0 .. Len(lines) /\ a \in k + 1 .. Len(lines)
    BY <1>1
  <2>2. QED  BY <1>1, <2>1, EndsGrow
<1> HIDE DEF n
<1>5. a <= k => ends[a] <= i
  <2>1. ends[a] \in Nat /\ ends[k] \in Nat /\ a \in Nat /\ k \in Nat
    BY <1>1
  <2>2. QED  BY <1>1, <1>2, <1>3, <2>1
<1>6. k < a => i < ends[a]
  <2> SUFFICES ASSUME k < a PROVE i < ends[a]
    OBVIOUS
  <2>1. k + 1 \in 0 .. n /\ k < n
    BY <1>1, <1>4
  <2>2. ends[k + 1] \in Nat /\ ends[a] \in Nat /\ a \in Nat /\ k \in Nat
    BY <1>1, <2>1
  <2>3. i < ends[k + 1] /\ ends[k + 1] + (a - (k + 1)) <= ends[a]
    BY <1>2, <1>4, <2>1
  <2> DEFINE x == ends[k + 1]
             y == ends[a]
  <2>4. x \in Nat /\ y \in Nat /\ i < x /\ x + (a - (k + 1)) <= y
    BY <2>2, <2>3
  <2> HIDE DEF x, y
  <2>5. i < y
    BY <1>1, <2>2, <2>4
  <2>6. QED  BY <2>5 DEF y
<1>7. k \in Int /\ a \in Int /\ ends[a] \in Int
  BY <1>1
<1>8. QED  BY <1>1, <1>5, <1>6, <1>7

LEMMA NewlineAt ==
    ASSUME NEW lines \in Documents, NEW text, NEW ends, Layout(lines, text, ends),
           NEW i \in 0 .. Len(text), i < Len(text), NEW k, At(lines, ends, k, i)
    PROVE  /\ k \in 0 .. Len(lines) - 1
           /\ IF text[i + 1] = Newline THEN i + 1 = ends[k + 1] /\ At(lines, ends, k + 1, i + 1)
                                       ELSE At(lines, ends, k, i + 1)
<1> DEFINE n == Len(lines)
           x == ends[k]
           y == ends[k + 1]
           L == Len(lines[k + 1])
<1>1. n \in Nat /\ i \in Nat /\ k \in 0 .. n /\ x <= i /\ (k < n => i < y) /\ ends[n] = Len(text)
      /\ Len(text) \in Nat
  BY EndsTyped DEF At
<1>2. k \in 0 .. n - 1
  <2>1. k = n => ends[n] <= i
    BY <1>1
  <2> HIDE DEF n
  <2>2. QED  BY <1>1, <2>1
<1>3. /\ k + 1 \in 1 .. n /\ k \in 0 .. n /\ k + 1 \in 0 .. n
      /\ L \in Nat /\ x \in Nat /\ y \in Nat /\ y <= Len(text) /\ y = x + (L + 1)
  BY <1>2, LineTyped
<1>4. /\ \A j \in 1 .. L : text[x + j] = lines[k + 1][j] /\ lines[k + 1][j] \in BYTES
      /\ text[y] = Newline
  <2>1. Spelled(lines, text, ends, k)
    BY <1>2, LineBytes
  <2>2. QED  BY <2>1 DEF Spelled
<1>5. i < y /\ k < n
  <2> HIDE DEF n, x, y, L
  <2>1. QED  BY <1>1, <1>2
<1>6. CASE i + 1 = y
  <2>1. text[i + 1] = Newline
    BY <1>4, <1>6
  <2>2. k + 1 < n => k + 1 \in 0 .. n - 1 /\ (k + 1) + 1 \in 0 .. n
    BY <1>1, <1>2
  <2>3. k + 1 < n => ends[(k + 1) + 1] = ends[k + 1] + (Len(lines[(k + 1) + 1]) + 1)
                     /\ Len(lines[(k + 1) + 1]) \in Nat
    BY <2>2, LineTyped
  <2> DEFINE M == Len(lines[(k + 1) + 1])
             z == ends[(k + 1) + 1]
  <2>4. k + 1 < n => M \in Nat /\ z = y + (M + 1)
    BY <2>3
  <2> HIDE DEF M, z, x, y, L
  <2>5. k + 1 < n => i + 1 < z
    BY <1>3, <1>6, <2>4
  <2>6. y <= i + 1
    BY <1>3, <1>6
  <2>7. At(lines, ends, k + 1, i + 1)
    BY <1>3, <2>5, <2>6 DEF At, y, z
  <2>8. QED  BY <1>2, <1>6, <2>1, <2>7 DEF y
<1>7. CASE i + 1 # y
  <2>1. i + 1 < y /\ i + 1 - x \in 1 .. L /\ x + (i + 1 - x) = i + 1
    <3> HIDE DEF n, x, y, L
    <3>1. QED  BY <1>1, <1>3, <1>5, <1>7
  <2>2. text[i + 1] \in BYTES
    <3> DEFINE j == i + 1 - x
    <3>1. j \in 1 .. L /\ x + j = i + 1
      BY <2>1
    <3> HIDE DEF j, x, L
    <3>2. text[x + j] = lines[k + 1][j] /\ lines[k + 1][j] \in BYTES
      BY <1>4, <3>1
    <3>3. QED  BY <3>1, <3>2
  <2>3. text[i + 1] # Newline
    BY <2>2, TextAssumption
  <2>4. x <= i + 1
    <3> HIDE DEF n, x, y, L
    <3>1. QED  BY <1>1, <1>3
  <2>5. At(lines, ends, k, i + 1)
    <3> HIDE DEF n
    <3>1. QED  BY <1>1, <2>1, <2>4 DEF At, n
  <2>6. QED  BY <1>2, <2>3, <2>5
<1>8. QED  BY <1>6, <1>7

\* A pass that counts the newlines knows the line it is in.
LEMMA NewlinesCounted ==
    ASSUME NEW lines \in Documents, NEW text, NEW ends, Layout(lines, text, ends),
           NEW c, c[0] = 0,
           \A i \in 1 .. Len(text) : c[i] = IF text[i] = Newline THEN c[i - 1] + 1 ELSE c[i - 1]
    PROVE  \A i \in 0 .. Len(text) : At(lines, ends, c[i], i)
<1> DEFINE size == Len(text)
           S == {i \in Nat : At(lines, ends, c[i], i)}
<1>1. size \in Nat /\ Len(lines) \in Nat /\ ends[0] = 0
  BY EndsTyped
<1>2. 0 \in S
  <2>1. 0 < Len(lines) => ends[0 + 1] = ends[0] + (Len(lines[0 + 1]) + 1) /\ Len(lines[0 + 1]) \in Nat
    <3>1. 0 < Len(lines) => 0 \in 0 .. Len(lines) - 1
      BY <1>1
    <3>2. QED  BY <3>1, LineTyped
  <2>2. 0 < Len(lines) => 0 < ends[0 + 1]
    BY <1>1, <2>1
  <2>3. 0 \in 0 .. Len(lines) /\ ends[0] <= 0
    BY <1>1
  <2>4. At(lines, ends, 0, 0)
    BY <2>2, <2>3 DEF At
  <2>5. QED  BY <2>4
<1>3. ASSUME NEW i \in 0 .. size - 1, i \in S PROVE i + 1 \in S
  <2>1. At(lines, ends, c[i], i) /\ i \in 0 .. Len(text) /\ i < Len(text) /\ i + 1 \in 1 .. size
        /\ (i + 1) - 1 = i /\ i \in Nat
    BY <1>1, <1>3
  <2>2. c[i + 1] = IF text[i + 1] = Newline THEN c[i] + 1 ELSE c[i]
    BY <2>1
  <2>3. IF text[i + 1] = Newline THEN At(lines, ends, c[i] + 1, i + 1)
                                 ELSE At(lines, ends, c[i], i + 1)
    BY <2>1, NewlineAt
  <2>4. At(lines, ends, c[i + 1], i + 1)
    BY <2>2, <2>3
  <2>5. QED  BY <2>1, <2>4
<1>4. \A i \in 0 .. size : i \in S
  <2> HIDE DEF S, size
  <2>1. QED  BY <1>1, <1>2, <1>3, StepByStep
<1>5. QED  BY <1>4

LEMMA LastLine ==
    ASSUME NEW lines \in Documents, NEW text, NEW ends, Layout(lines, text, ends),
           NEW k, At(lines, ends, k, Len(text))
    PROVE  k = Len(lines)
<1>1. Len(lines) \in 0 .. Len(lines) /\ Len(text) \in 0 .. Len(text) /\ k \in 0 .. Len(lines)
      /\ ends[Len(lines)] = Len(text) /\ Len(text) \in Nat /\ Len(lines) \in Nat
  BY EndsTyped DEF At
<1>2. Len(lines) <= k <=> ends[Len(lines)] <= Len(text)
  BY <1>1, WhichLine
<1>3. QED  BY <1>1, <1>2

\* A text without the newline of its last line.
Cut(text) == SubSeq(text, 1, Len(text) - 1)

Unended(lines, text, cut) ==
    /\ Len(lines) # 0 /\ Len(lines[Len(lines)]) # 0
    /\ Len(text) = Len(cut) + 1 /\ Len(lines) <= Len(cut)
    /\ \A i \in 1 .. Len(cut) : cut[i] = text[i]
    /\ text[Len(text)] = Newline /\ cut[Len(cut)] # Newline

\* A pass over it that counts the newlines ends one line early.
LEMMA CutCounted ==
    ASSUME NEW lines \in Documents, NEW text \in Seq(Bytes), NEW ends, Layout(lines, text, ends),
           NEW cut \in Seq(Bytes), Unended(lines, text, cut),
           NEW c, c[0] = 0,
           \A i \in 1 .. Len(cut) : c[i] = IF cut[i] = Newline THEN c[i - 1] + 1 ELSE c[i - 1]
    PROVE  c[Len(cut)] = Len(lines) - 1
<1> DEFINE size == Len(cut)
           e == [i \in 0 .. size + 1 |-> IF i = size + 1 THEN c[size] + 1 ELSE c[i]]
<1>1. /\ size \in Nat /\ Len(text) = size + 1 /\ text[size + 1] = Newline
      /\ \A i \in 1 .. size : cut[i] = text[i]
  BY LenProperties DEF Unended
<1>2. e[0] = 0
  BY <1>1
<1>3. ASSUME NEW i \in 1 .. size + 1
      PROVE  e[i] = IF text[i] = Newline THEN e[i - 1] + 1 ELSE e[i - 1]
  <2>1. CASE i = size + 1
    <3>1. e[i] = c[size] + 1 /\ e[i - 1] = c[size]
      BY <1>1, <2>1
    <3>2. QED  BY <1>1, <2>1, <3>1
  <2>2. CASE i # size + 1
    <3>1. i \in 1 .. size /\ e[i] = c[i] /\ e[i - 1] = c[i - 1]
      BY <1>1, <2>2
    <3>2. QED  BY <1>1, <3>1
  <2>3. QED  BY <2>1, <2>2
<1>4. e[size] = c[size] /\ e[size + 1] = c[size] + 1
  BY <1>1
<1> HIDE DEF e
<1>5. \A i \in 0 .. Len(text) : At(lines, ends, e[i], i)
  BY <1>1, <1>2, <1>3, NewlinesCounted
<1>6. size \in 0 .. Len(text) /\ Len(text) \in 0 .. Len(text)
  BY <1>1
<1>7. e[Len(text)] = Len(lines)
  BY <1>5, <1>6, LastLine
<1>8. e[size] \in 0 .. Len(lines) /\ Len(lines) \in Nat
  BY <1>5, <1>6, DocumentTyped DEF At
<1>9. c[size] \in Nat /\ c[size] + 1 = Len(lines)
  BY <1>1, <1>4, <1>7, <1>8
<1>10. QED  BY <1>9

-----------------------------------------------------------------------------
(* wc.                                                                      *)

LEMMA WcDefined ==
    ASSUME NEW buf \in Seq(Bytes)
    PROVE  \E g : /\ g[0] = [lines |-> 0, words |-> 0, in_word |-> FALSE]
                  /\ \A i \in 1 .. Len(buf) : g[i] = Count(g[i - 1], buf[i])
                  /\ cmd_wc(buf) = [lines |-> g[Len(buf)].lines, words |-> g[Len(buf)].words,
                                    bytes |-> Len(buf)]
<1> DEFINE n == Len(buf)
           D == [lines : Nat, words : Nat, in_word : BOOLEAN]
           b == [lines |-> 0, words |-> 0, in_word |-> FALSE]
           F == [x \in D \X (1 .. n) |-> Count(x[1], buf[x[2]])]
<1>1. n \in Nat
  BY LenProperties
<1>2. F \in [D \X (1 .. n) -> D]
  <2>1. ASSUME NEW d \in D, NEW byte PROVE Count(d, byte) \in D
    <3>1. d.lines \in Nat /\ d.words \in Nat
      OBVIOUS
    <3> DEFINE y == d.lines
               z == d.words
    <3>2. d.lines + 1 \in Nat /\ d.words + 1 \in Nat
      BY <3>1
    <3>3. (IF byte = Newline THEN d.lines + 1 ELSE d.lines) \in Nat
      BY <3>1, <3>2
    <3>4. (IF byte \in Blanks \/ d.in_word THEN d.words ELSE d.words + 1) \in Nat
      BY <3>1, <3>2, Zenon
    <3>5. (byte \notin Blanks) \in BOOLEAN
      OBVIOUS
    <3>6. QED  BY <3>3, <3>4, <3>5, Zenon DEF Count
  <2> HIDE DEF D
  <2>2. QED  BY <2>1
<1>3. b \in D
  OBVIOUS
<1> HIDE DEF n, D, b
<1>4. PICK g : Follows(g, n, D, b, F)
  <2> HIDE DEF F
  <2>1. QED  BY <1>1, <1>2, <1>3, Recursion
<1>5. ASSUME NEW i \in 1 .. n PROVE g[i] = Count(g[i - 1], buf[i])
  <2>1. g[i - 1] \in D /\ g[i] = F[<<g[i - 1], i>>]
    <3> HIDE DEF F
    <3>1. i - 1 \in 0 .. n
      BY <1>1
    <3>2. QED  BY <1>4, <3>1 DEF Follows
  <2>2. QED  BY <2>1
<1>6. g = [i \in 0 .. n |-> IF i = 0 THEN b ELSE Count(g[i - 1], buf[i])]
  <2> HIDE DEF F
  <2>1. g = [i \in 0 .. n |-> g[i]]
    BY <1>4 DEF Follows
  <2>2. ASSUME NEW i \in 0 .. n
        PROVE  g[i] = IF i = 0 THEN b ELSE Count(g[i - 1], buf[i])
    <3>1. i = 0 \/ i \in 1 .. n
      BY <1>1
    <3>2. QED  BY <1>1, <1>4, <1>5, <3>1 DEF Follows
  <2>3. QED  BY <2>1, <2>2, Zenon
<1> DEFINE after[i \in 0 .. Len(buf)] ==
              IF i = 0 THEN [lines |-> 0, words |-> 0, in_word |-> FALSE]
              ELSE Count(after[i - 1], buf[i])
<1>7. after = [i \in 0 .. Len(buf) |->
                IF i = 0 THEN [lines |-> 0, words |-> 0, in_word |-> FALSE]
                ELSE Count(after[i - 1], buf[i])]
  BY <1>6, Zenon DEF n, b
<1>8. cmd_wc(buf) = [lines |-> after[Len(buf)].lines, words |-> after[Len(buf)].words,
                     bytes |-> Len(buf)]
  BY Zenon DEF cmd_wc
<1> HIDE DEF after
<1>9. after[0] = b /\ \A i \in 1 .. n : after[i] = Count(after[i - 1], buf[i])
  <2>1. after[0] = b
    <3>1. 0 \in 0 .. Len(buf)
      BY <1>1 DEF n
    <3>2. QED  BY <1>7, <3>1, Zenon DEF b
  <2>2. ASSUME NEW i \in 1 .. n PROVE after[i] = Count(after[i - 1], buf[i])
    <3>1. i \in 0 .. Len(buf) /\ i # 0
      BY <1>1 DEF n
    <3>2. QED  BY <1>7, <3>1, Zenon
  <2>3. QED  BY <2>1, <2>2
<1>10. QED  BY <1>8, <1>9 DEF n, b

LEMMA Counted ==
    ASSUME NEW c, NEW byte
    PROVE  /\ Count(c, byte).lines = IF byte = Newline THEN c.lines + 1 ELSE c.lines
           /\ Count(c, byte).words = IF byte \in Blanks \/ c.in_word THEN c.words ELSE c.words + 1
           /\ Count(c, byte).in_word <=> byte \notin Blanks
<1> DEFINE a == IF byte = Newline THEN c.lines + 1 ELSE c.lines
           b == IF byte \in Blanks \/ c.in_word THEN c.words ELSE c.words + 1
           d == byte \notin Blanks
<1>1. Count(c, byte) = [lines |-> a, words |-> b, in_word |-> d]
  BY Zenon DEF Count
<1> HIDE DEF a, b, d
<1>2. Count(c, byte).lines = a /\ Count(c, byte).words = b /\ Count(c, byte).in_word = d
  BY <1>1
<1>3. QED  BY <1>2, Zenon DEF a, b, d

LEMMA WordsCounted ==
    ASSUME NEW buf \in Seq(Bytes), NEW g,
           g[0] = [lines |-> 0, words |-> 0, in_word |-> FALSE],
           \A i \in 1 .. Len(buf) : g[i] = Count(g[i - 1], buf[i])
    PROVE  g[Len(buf)].words = Cardinality(WordStarts(buf))
<1> DEFINE n == Len(buf)
           W(i) == {j \in WordStarts(buf) : j <= i}
           S == {i \in Nat : /\ g[i].words = Cardinality(W(i)) /\ IsFiniteSet(W(i))
                             /\ g[i].in_word <=> i > 0 /\ buf[i] \notin Blanks}
<1>1. n \in Nat /\ DOMAIN buf = 1 .. n
  BY LenProperties
<1>2. \A j : j \in WordStarts(buf) <=>
              j \in 1 .. n /\ buf[j] \notin Blanks /\ (j = 1 \/ buf[j - 1] \in Blanks)
  BY <1>1 DEF WordStarts
<1> HIDE DEF n
<1>3. 0 \in S
  <2>1. W(0) = {}
    BY <1>1, <1>2
  <2>2. g[0].words = 0 /\ g[0].in_word = FALSE
    OBVIOUS
  <2>3. IsFiniteSet({}) /\ Cardinality({}) = 0
    BY FS_EmptySet
  <2>4. g[0].in_word <=> 0 > 0 /\ buf[0] \notin Blanks
    BY <2>2
  <2>5. QED  BY <2>1, <2>2, <2>3, <2>4
<1>4. ASSUME NEW i \in 0 .. n - 1, i \in S PROVE i + 1 \in S
  <2>1. i \in Nat /\ i + 1 \in Nat /\ i + 1 \in 1 .. n /\ (i + 1) - 1 = i /\ i + 1 > 0
    BY <1>1
  <2>2. g[i + 1] = Count(g[i], buf[i + 1])
    BY <2>1 DEF n
  <2>3. /\ g[i + 1].words = IF buf[i + 1] \in Blanks \/ g[i].in_word THEN g[i].words ELSE g[i].words + 1
        /\ g[i + 1].in_word <=> buf[i + 1] \notin Blanks
    <3> DEFINE byte == buf[i + 1]
    <3>1. /\ Count(g[i], byte).words = IF byte \in Blanks \/ g[i].in_word THEN g[i].words ELSE g[i].words + 1
          /\ Count(g[i], byte).in_word <=> byte \notin Blanks
      BY Counted
    <3>2. g[i + 1] = Count(g[i], byte)
      BY <2>2
    <3> HIDE DEF byte
    <3>3. QED  BY <3>1, <3>2, Zenon DEF byte
  <2>4. /\ g[i].words = Cardinality(W(i)) /\ IsFiniteSet(W(i))
        /\ g[i].in_word <=> i > 0 /\ buf[i] \notin Blanks
    BY <1>4
  <2>5. i + 1 \in WordStarts(buf) <=> ~(buf[i + 1] \in Blanks \/ g[i].in_word)
    <3>1. i + 1 \in WordStarts(buf) <=> buf[i + 1] \notin Blanks /\ (i + 1 = 1 \/ buf[i] \in Blanks)
      BY <1>2, <2>1
    <3>2. i + 1 = 1 <=> ~(i > 0)
      BY <2>1
    <3>3. QED  BY <2>4, <3>1, <3>2
  <2>6. CASE i + 1 \in WordStarts(buf)
    <3>1. W(i + 1) = W(i) \cup {i + 1} /\ i + 1 \notin W(i)
      BY <1>2, <2>1, <2>6
    <3>2. IsFiniteSet(W(i + 1)) /\ Cardinality(W(i + 1)) = Cardinality(W(i)) + 1
      <4> DEFINE A == W(i)
                 B == W(i + 1)
      <4>1. IsFiniteSet(A) /\ B = A \cup {i + 1} /\ i + 1 \notin A
        BY <2>4, <3>1
      <4> HIDE DEF A, B
      <4>2. IsFiniteSet(B) /\ Cardinality(B) = Cardinality(A) + 1
        BY <4>1, FS_AddElement
      <4>3. QED  BY <4>2 DEF A, B
    <3>3. g[i + 1].words = g[i].words + 1
      BY <2>3, <2>5, <2>6
    <3>4. QED  BY <2>1, <2>3, <2>4, <3>2, <3>3
  <2>7. CASE i + 1 \notin WordStarts(buf)
    <3>1. W(i + 1) = W(i)
      BY <1>2, <2>1, <2>7
    <3>2. g[i + 1].words = g[i].words
      BY <2>3, <2>5, <2>7
    <3>3. QED  BY <2>1, <2>3, <2>4, <3>1, <3>2
  <2>8. QED  BY <2>6, <2>7
<1>5. n \in S
  <2> HIDE DEF S
  <2>1. n \in 0 .. n
    BY <1>1
  <2>2. QED  BY <1>1, <1>3, <1>4, <2>1, StepByStep
<1>6. W(n) = WordStarts(buf)
  BY <1>1, <1>2
<1>7. QED  BY <1>5, <1>6 DEF n

LEMMA TextCounted ==
    ASSUME NEW lines \in Documents, NEW text \in Seq(Bytes), NEW ends, Layout(lines, text, ends)
    PROVE  cmd_wc(text) = [lines |-> Len(lines), words |-> Cardinality(WordStarts(text)),
                           bytes |-> Len(text)]
<1>1. PICK g : /\ g[0] = [lines |-> 0, words |-> 0, in_word |-> FALSE]
               /\ \A i \in 1 .. Len(text) : g[i] = Count(g[i - 1], text[i])
               /\ cmd_wc(text) = [lines |-> g[Len(text)].lines, words |-> g[Len(text)].words,
                                  bytes |-> Len(text)]
  BY WcDefined
<1>2. g[Len(text)].words = Cardinality(WordStarts(text))
  BY <1>1, WordsCounted
<1> DEFINE c == [i \in 0 .. Len(text) |-> g[i].lines]
<1>3. Len(text) \in Nat
  BY LenProperties
<1>4. c[0] = 0
  <2>1. 0 \in 0 .. Len(text) /\ g[0].lines = 0
    BY <1>1, <1>3
  <2>2. QED  BY <2>1
<1>5. ASSUME NEW i \in 1 .. Len(text)
      PROVE  c[i] = IF text[i] = Newline THEN c[i - 1] + 1 ELSE c[i - 1]
  <2>1. i \in 0 .. Len(text) /\ i - 1 \in 0 .. Len(text)
    BY <1>3
  <2>2. g[i].lines = IF text[i] = Newline THEN g[i - 1].lines + 1 ELSE g[i - 1].lines
    <3>1. Count(g[i - 1], text[i]).lines = IF text[i] = Newline THEN g[i - 1].lines + 1 ELSE g[i - 1].lines
      BY Counted
    <3>2. g[i] = Count(g[i - 1], text[i])
      BY <1>1
    <3>3. QED  BY <3>1, <3>2, Zenon
  <2>3. QED  BY <2>1, <2>2
<1>6. Len(text) \in 0 .. Len(text) /\ c[Len(text)] = g[Len(text)].lines
  BY <1>3
<1> HIDE DEF c
<1>7. At(lines, ends, c[Len(text)], Len(text))
  BY <1>4, <1>5, <1>6, NewlinesCounted
<1>8. c[Len(text)] = Len(lines)
  BY <1>7, LastLine
<1>9. QED  BY <1>1, <1>2, <1>6, <1>8, Zenon

LEMMA CutWords ==
    ASSUME NEW lines \in Documents, NEW text \in Seq(Bytes), NEW ends, Layout(lines, text, ends),
           NEW cut \in Seq(Bytes), Unended(lines, text, cut)
    PROVE  cmd_wc(cut) = [lines |-> Len(lines) - 1, words |-> Cardinality(WordStarts(cut)),
                          bytes |-> Len(cut)]
<1>1. PICK g : /\ g[0] = [lines |-> 0, words |-> 0, in_word |-> FALSE]
               /\ \A i \in 1 .. Len(cut) : g[i] = Count(g[i - 1], cut[i])
               /\ cmd_wc(cut) = [lines |-> g[Len(cut)].lines, words |-> g[Len(cut)].words,
                                 bytes |-> Len(cut)]
  BY WcDefined
<1>2. g[Len(cut)].words = Cardinality(WordStarts(cut))
  BY <1>1, WordsCounted
<1> DEFINE c == [i \in 0 .. Len(cut) |-> g[i].lines]
<1>3. Len(cut) \in Nat
  BY LenProperties
<1>4. c[0] = 0
  <2>1. 0 \in 0 .. Len(cut) /\ g[0].lines = 0
    BY <1>1, <1>3
  <2>2. QED  BY <2>1
<1>5. ASSUME NEW i \in 1 .. Len(cut)
      PROVE  c[i] = IF cut[i] = Newline THEN c[i - 1] + 1 ELSE c[i - 1]
  <2>1. i \in 0 .. Len(cut) /\ i - 1 \in 0 .. Len(cut)
    BY <1>3
  <2>2. g[i].lines = IF cut[i] = Newline THEN g[i - 1].lines + 1 ELSE g[i - 1].lines
    <3>1. Count(g[i - 1], cut[i]).lines = IF cut[i] = Newline THEN g[i - 1].lines + 1 ELSE g[i - 1].lines
      BY Counted
    <3>2. g[i] = Count(g[i - 1], cut[i])
      BY <1>1
    <3>3. QED  BY <3>1, <3>2, Zenon
  <2>3. QED  BY <2>1, <2>2
<1>6. c[Len(cut)] = g[Len(cut)].lines
  BY <1>3
<1> HIDE DEF c
<1>7. c[Len(cut)] = Len(lines) - 1
  BY <1>4, <1>5, CutCounted
<1>8. QED  BY <1>1, <1>2, <1>6, <1>7, Zenon

-----------------------------------------------------------------------------
(* head and tail.                                                           *)

\* What is printed and counted after each byte.
Passes(buf, from, to, g) ==
    /\ g[0] = [out |-> <<>>, lines |-> 0]
    /\ \A i \in 1 .. Len(buf) : g[i] = Print1(g[i - 1], buf[i], from, to)
    /\ Show(buf, from, to) = g[Len(buf)].out

LEMMA ShowDefined ==
    ASSUME NEW buf \in Seq(Bytes), NEW from, NEW to
    PROVE  (\E g : Passes(buf, from, to, g)) /\ Show(buf, from, to) \in Seq(Bytes)
<1> DEFINE n == Len(buf)
           D == [out : Seq(Bytes), lines : Nat]
           b == [out |-> <<>>, lines |-> 0]
           F == [x \in D \X (1 .. n) |-> Print1(x[1], buf[x[2]], from, to)]
<1>0. ASSUME NEW d \in D, NEW byte \in Bytes PROVE Print1(d, byte, from, to) \in D
  <2>1. d.lines \in Nat /\ d.out \in Seq(Bytes)
    BY Zenon
  <2>2. d.lines + 1 \in Nat
    BY <2>1
  <2>3. (IF byte = Newline THEN d.lines + 1 ELSE d.lines) \in Nat
    BY <2>1, <2>2, Zenon
  <2>4. Append(d.out, byte) \in Seq(Bytes)
    BY <2>1, AppendProperties
  <2>5. (IF from <= d.lines /\ d.lines < to THEN Append(d.out, byte) ELSE d.out) \in Seq(Bytes)
    BY <2>1, <2>4, Zenon
  <2>6. QED  BY <2>3, <2>5, Zenon DEF Print1
<1>1. n \in Nat
  BY LenProperties
<1>2. F \in [D \X (1 .. n) -> D]
  <2>1. \A i \in 1 .. n : buf[i] \in Bytes
    BY ElementOfSeq
  <2> HIDE DEF D
  <2>2. QED  BY <1>0, <2>1
<1>3. b \in D
  <2>1. <<>> \in Seq(Bytes) /\ 0 \in Nat
    BY EmptySeq
  <2>2. QED  BY <2>1, Zenon
<1> HIDE DEF n, D, b
<1>4. PICK g : Follows(g, n, D, b, F)
  <2> HIDE DEF F
  <2>1. QED  BY <1>1, <1>2, <1>3, Recursion
<1>5. ASSUME NEW i \in 1 .. n PROVE g[i] = Print1(g[i - 1], buf[i], from, to)
  <2>1. g[i - 1] \in D /\ g[i] = F[<<g[i - 1], i>>]
    <3> HIDE DEF F
    <3>1. i - 1 \in 0 .. n
      BY <1>1
    <3>2. QED  BY <1>4, <3>1 DEF Follows
  <2>2. QED  BY <2>1
<1>6. g = [i \in 0 .. n |-> IF i = 0 THEN b ELSE Print1(g[i - 1], buf[i], from, to)]
  <2> HIDE DEF F
  <2>1. g = [i \in 0 .. n |-> g[i]]
    BY <1>4 DEF Follows
  <2>2. ASSUME NEW i \in 0 .. n
        PROVE  g[i] = IF i = 0 THEN b ELSE Print1(g[i - 1], buf[i], from, to)
    <3>1. i = 0 \/ i \in 1 .. n
      BY <1>1
    <3>2. QED  BY <1>1, <1>4, <1>5, <3>1 DEF Follows
  <2>3. QED  BY <2>1, <2>2, Zenon
<1> DEFINE after[i \in 0 .. Len(buf)] ==
              IF i = 0 THEN [out |-> <<>>, lines |-> 0]
              ELSE Print1(after[i - 1], buf[i], from, to)
<1>7. after = [i \in 0 .. Len(buf) |->
                IF i = 0 THEN [out |-> <<>>, lines |-> 0]
                ELSE Print1(after[i - 1], buf[i], from, to)]
  BY <1>6, Zenon DEF n, b
<1>8. Show(buf, from, to) = after[Len(buf)].out
  BY Zenon DEF Show
<1> HIDE DEF after
<1>9. after[0] = b /\ \A i \in 1 .. n : after[i] = Print1(after[i - 1], buf[i], from, to)
  <2>1. after[0] = b
    <3>1. 0 \in 0 .. Len(buf)
      BY <1>1 DEF n
    <3>2. QED  BY <1>7, <3>1, Zenon DEF b
  <2>2. ASSUME NEW i \in 1 .. n PROVE after[i] = Print1(after[i - 1], buf[i], from, to)
    <3>1. i \in 0 .. Len(buf) /\ i # 0
      BY <1>1 DEF n
    <3>2. QED  BY <1>7, <3>1, Zenon
  <2>3. QED  BY <2>1, <2>2
<1>10. Passes(buf, from, to, after)
  BY <1>8, <1>9 DEF Passes, n, b
<1>11. after[n] \in D
  <2> DEFINE S == {k \in Nat : after[k] \in D}
  <2>1. 0 \in S
    BY <1>3, <1>9
  <2>2. ASSUME NEW k \in 0 .. n - 1, k \in S PROVE k + 1 \in S
    <3>1. k \in Nat /\ k + 1 \in Nat /\ k + 1 \in 1 .. n /\ (k + 1) - 1 = k /\ after[k] \in D
      BY <1>1, <2>2
    <3>2. after[k + 1] = Print1(after[k], buf[k + 1], from, to) /\ buf[k + 1] \in Bytes
      BY <1>9, <3>1, ElementOfSeq DEF n
    <3>3. after[k + 1] \in D
      BY <1>0, <3>1, <3>2
    <3>4. QED  BY <3>1, <3>3
  <2>3. \A k \in 0 .. n : k \in S
    <3> HIDE DEF S
    <3>1. QED  BY <1>1, <2>1, <2>2, StepByStep
  <2>4. QED  BY <1>1, <2>3
<1>12. after[n].out \in Seq(Bytes)
  BY <1>11, Zenon DEF D
<1>13. QED  BY <1>8, <1>10, <1>12 DEF n

LEMMA Printed ==
    ASSUME NEW c, NEW byte, NEW from, NEW to
    PROVE  /\ Print1(c, byte, from, to).lines = IF byte = Newline THEN c.lines + 1 ELSE c.lines
           /\ Print1(c, byte, from, to).out =
                 IF from <= c.lines /\ c.lines < to THEN Append(c.out, byte) ELSE c.out
<1> DEFINE a == IF byte = Newline THEN c.lines + 1 ELSE c.lines
           b == IF from <= c.lines /\ c.lines < to THEN Append(c.out, byte) ELSE c.out
<1>1. Print1(c, byte, from, to) = [out |-> b, lines |-> a]
  BY Zenon DEF Print1
<1> HIDE DEF a, b
<1>2. Print1(c, byte, from, to).lines = a /\ Print1(c, byte, from, to).out = b
  BY <1>1
<1>3. QED  BY <1>2, Zenon DEF a, b

\* The bytes of a text behind a place of it.
Slice(out, text, lo, m) ==
    /\ out \in Seq(Bytes) /\ Len(out) = m
    /\ \A j \in 1 .. m : out[j] = text[lo + j]

LEMMA SliceAppended ==
    ASSUME NEW text, NEW lo \in Nat, NEW m \in Nat, NEW out, Slice(out, text, lo, m),
           text[lo + (m + 1)] \in Bytes
    PROVE  Slice(Append(out, text[lo + (m + 1)]), text, lo, m + 1)
<1> DEFINE x == text[lo + (m + 1)]
           t == Append(out, x)
<1>1. out \in Seq(Bytes) /\ Len(out) = m /\ x \in Bytes
  BY DEF Slice
<1> HIDE DEF x
<1>2. t \in Seq(Bytes) /\ Len(t) = Len(out) + 1 /\ t[Len(out) + 1] = x
  BY <1>1, AppendProperties
<1>3. \A j \in 1 .. Len(out) : t[j] = out[j]
  BY <1>1, AppendProperties
<1> HIDE DEF t
<1>4. ASSUME NEW j \in 1 .. m + 1 PROVE t[j] = text[lo + j]
  <2>1. CASE j = m + 1
    BY <1>1, <1>2, <2>1 DEF x
  <2>2. CASE j # m + 1
    <3>1. j \in 1 .. m
      BY <2>2
    <3>2. out[j] = text[lo + j]
      BY <3>1 DEF Slice
    <3>3. QED  BY <1>1, <1>3, <3>1, <3>2
  <2>3. QED  BY <2>1, <2>2
<1>5. Slice(t, text, lo, m + 1)
  BY <1>1, <1>2, <1>4 DEF Slice
<1>6. QED  BY <1>5 DEF t, x

\* What is printed of a text is from the line `from' to the line `to'.
LEMMA Sliced ==
    ASSUME NEW lines \in Documents, NEW text \in Seq(Bytes), NEW ends, Layout(lines, text, ends),
           NEW from \in 0 .. Len(lines), NEW to \in Nat, NEW last \in from .. Len(lines),
           last = IF to <= Len(lines) THEN to ELSE Len(lines)
    PROVE  Slice(Show(text, from, to), text, ends[from], ends[last] - ends[from])
<1> DEFINE size == Len(text)
           n == Len(lines)
           lo == ends[from]
           hi == ends[last]
           M(i) == IF i <= lo THEN 0 ELSE IF i <= hi THEN i - lo ELSE hi - lo
<1>0. PICK g : Passes(text, from, to, g)
  BY ShowDefined
<1>1. /\ g[0] = [out |-> <<>>, lines |-> 0]
      /\ \A i \in 1 .. size : g[i] = Print1(g[i - 1], text[i], from, to)
      /\ Show(text, from, to) = g[size].out
  BY <1>0, Zenon DEF Passes
<1>2. size \in Nat /\ n \in Nat /\ ends[n] = size /\ \A k \in 0 .. n : ends[k] \in Nat
  BY EndsTyped
<1>3. /\ from \in 0 .. n /\ last \in 0 .. n /\ from <= last
      /\ lo \in Nat /\ hi \in Nat /\ lo <= hi /\ hi <= size
  <2>1. from \in 0 .. Len(lines) /\ last \in 0 .. Len(lines) /\ last \in from .. Len(lines) /\ Len(lines) \in last .. Len(lines)
        /\ Len(lines) \in Nat /\ from \in Nat /\ last \in Nat /\ from <= last
    BY <1>2
  <2>2. ends[from] + (last - from) <= ends[last]
    BY <2>1, EndsGrow
  <2>3. Len(lines) \in 0 .. Len(lines) /\ ends[last] + (Len(lines) - last) <= ends[Len(lines)]
    BY <2>1, EndsGrow
  <2>4. lo \in Nat /\ hi \in Nat
    BY <1>2, <2>1
  <2>5. lo + (last - from) <= hi /\ hi + (n - last) <= size
    BY <1>2, <2>2, <2>3
  <2> HIDE DEF lo, hi, size
  <2>6. lo <= hi /\ hi <= size
    BY <1>2, <2>1, <2>4, <2>5
  <2>7. QED  BY <2>1, <2>4, <2>6
<1> DEFINE c == [i \in 0 .. size |-> g[i].lines]
<1>4. \A i \in 0 .. size : At(lines, ends, g[i].lines, i)
  <2>1. c[0] = 0
    <3>1. 0 \in 0 .. size /\ g[0].lines = 0
      BY <1>1, <1>2
    <3>2. QED  BY <3>1
  <2>2. ASSUME NEW i \in 1 .. size
        PROVE  c[i] = IF text[i] = Newline THEN c[i - 1] + 1 ELSE c[i - 1]
    <3>1. i \in 0 .. size /\ i - 1 \in 0 .. size
      BY <1>2
    <3>2. g[i].lines = IF text[i] = Newline THEN g[i - 1].lines + 1 ELSE g[i - 1].lines
      <4>1. Print1(g[i - 1], text[i], from, to).lines =
               IF text[i] = Newline THEN g[i - 1].lines + 1 ELSE g[i - 1].lines
        BY Printed
      <4>2. g[i] = Print1(g[i - 1], text[i], from, to)
        BY <1>1
      <4>3. QED  BY <4>1, <4>2, Zenon
    <3>3. QED  BY <3>1, <3>2
  <2>3. \A i \in 0 .. size : c[i] = g[i].lines
    OBVIOUS
  <2> HIDE DEF c
  <2>4. \A i \in 0 .. size : At(lines, ends, c[i], i)
    BY <2>1, <2>2, NewlinesCounted
  <2>5. QED  BY <2>3, <2>4
<1> DEFINE S == {i \in Nat : Slice(g[i].out, text, lo, M(i))}
<1>5. 0 \in S
  <2>1. g[0].out = <<>> /\ <<>> \in Seq(Bytes) /\ Len(<<>>) = 0
    BY <1>1, EmptySeq
  <2>2. M(0) = 0
    BY <1>3
  <2>3. Slice(<<>>, text, lo, 0)
    BY <2>1 DEF Slice
  <2>4. QED  BY <2>1, <2>2, <2>3
<1>6. ASSUME NEW i \in 0 .. size - 1, i \in S PROVE i + 1 \in S
  <2>1. /\ i \in Nat /\ i \in 0 .. size /\ i < size /\ i + 1 \in 1 .. size /\ (i + 1) - 1 = i /\ i + 1 \in Nat
    BY <1>2
  <2> DEFINE k == g[i].lines
  <2>2. At(lines, ends, k, i)
    BY <1>4, <2>1
  <2>3. from <= k <=> lo <= i
    BY <1>3, <2>1, <2>2, WhichLine
  <2>4. last <= k <=> hi <= i
    BY <1>3, <2>1, <2>2, WhichLine
  <2>5. k \in Nat /\ k < n
    <3>1. k \in 0 .. Len(lines) - 1
      BY <2>1, <2>2, NewlineAt
    <3>2. QED  BY <1>2, <3>1
  <2>6. k < to <=> i < hi
    <3>1. k < to <=> k < last
      <4> HIDE DEF k
      <4>1. QED  BY <1>2, <1>3, <2>5
    <3>2. i < hi <=> ~ hi <= i
      <4> HIDE DEF hi
      <4>1. QED  BY <1>3, <2>1
    <3>3. k < last <=> ~ last <= k
      <4> HIDE DEF k
      <4>1. QED  BY <1>2, <1>3, <2>5
    <3>4. QED  BY <2>4, <3>1, <3>2, <3>3, Zenon
  <2>7. g[i + 1].out = IF from <= k /\ k < to THEN Append(g[i].out, text[i + 1]) ELSE g[i].out
    <3>1. Print1(g[i], text[i + 1], from, to).out =
             IF from <= k /\ k < to THEN Append(g[i].out, text[i + 1]) ELSE g[i].out
      BY Printed
    <3>2. g[i + 1] = Print1(g[i], text[i + 1], from, to)
      BY <1>1, <2>1
    <3>3. QED  BY <3>1, <3>2, Zenon
  <2>8. Slice(g[i].out, text, lo, M(i))
    BY <1>6
  <2>9. CASE lo <= i /\ i < hi
    <3>1. g[i + 1].out = Append(g[i].out, text[i + 1])
      BY <2>3, <2>6, <2>7, <2>9
    <3>2. M(i) = i - lo /\ M(i + 1) = (i - lo) + 1 /\ i - lo \in Nat /\ lo + ((i - lo) + 1) = i + 1
      <4> HIDE DEF lo, hi
      <4>1. QED  BY <1>3, <2>1, <2>9
    <3>3. text[i + 1] \in Bytes
      BY <2>1, ElementOfSeq
    <3> DEFINE m == i - lo
               o == g[i].out
    <3>4. m \in Nat /\ lo \in Nat /\ Slice(o, text, lo, m) /\ text[lo + (m + 1)] \in Bytes
          /\ lo + (m + 1) = i + 1
      BY <1>3, <2>8, <3>2, <3>3
    <3> HIDE DEF m, o, lo
    <3>5. Slice(Append(o, text[lo + (m + 1)]), text, lo, m + 1)
      BY <3>4, SliceAppended
    <3>6. Slice(g[i + 1].out, text, lo, m + 1)
      BY <3>1, <3>4, <3>5 DEF o
    <3>7. QED  BY <2>1, <3>2, <3>6 DEF m
  <2>10. CASE ~(lo <= i /\ i < hi)
    <3>1. g[i + 1].out = g[i].out
      BY <2>3, <2>6, <2>7, <2>10
    <3>2. M(i + 1) = M(i)
      <4> HIDE DEF lo, hi
      <4>1. QED  BY <1>3, <2>1, <2>10
    <3>3. QED  BY <2>1, <2>8, <3>1, <3>2
  <2>11. QED  BY <2>9, <2>10
<1>7. size \in S
  <2> HIDE DEF S
  <2>1. size \in 0 .. size
    BY <1>2
  <2>2. QED  BY <1>2, <1>5, <1>6, <2>1, StepByStep
<1>8. M(size) = hi - lo
  <2> HIDE DEF lo, hi, size
  <2>1. QED  BY <1>2, <1>3
<1>9. QED  BY <1>1, <1>7, <1>8

LEMMA SubDocument ==
    ASSUME NEW lines \in Documents, NEW a \in 0 .. Len(lines), NEW b \in a .. Len(lines)
    PROVE  /\ SubSeq(lines, a + 1, b) \in Documents
           /\ Len(SubSeq(lines, a + 1, b)) = b - a
           /\ \A j \in 1 .. b - a : SubSeq(lines, a + 1, b)[j] = lines[a + j]
<1> DEFINE d == SubSeq(lines, a + 1, b)
           n == Len(lines)
           T == Seq(BYTES)
<1>1. n \in Nat /\ a \in Nat /\ b \in Nat /\ a <= b /\ b <= n
  <2>1. n \in Nat
    BY DocumentTyped
  <2>2. QED  BY <2>1
<1>2. \A k \in 1 .. n : lines[k] \in T
  BY DocumentTyped
<1> HIDE DEF T, n
<1>3. \A i \in a + 1 .. b : lines[i] \in T
  BY <1>1, <1>2
<1>4. a + 1 \in Int /\ b \in Int
  BY <1>1
<1>5. d \in Seq(T)
  BY <1>3, <1>4, SubSeqProperties
<1>6. Len(d) = IF a + 1 <= b THEN b - (a + 1) + 1 ELSE 0
  BY <1>3, <1>4, SubSeqProperties
<1>7. \A i \in 1 .. b - (a + 1) + 1 : d[i] = lines[(a + 1) + i - 1]
  BY <1>3, <1>4, SubSeqProperties
<1> HIDE DEF d
<1>8. Len(d) = b - a
  BY <1>1, <1>6
<1>9. \A j \in 1 .. b - a : d[j] = lines[a + j]
  <2>1. \A j \in 1 .. b - a : j \in 1 .. b - (a + 1) + 1 /\ (a + 1) + j - 1 = a + j
    BY <1>1
  <2>2. QED  BY <1>7, <2>1
<1>10. d \in Documents
  BY <1>5, Zenon DEF Documents, T
<1>11. QED  BY <1>8, <1>9, <1>10 DEF d

LEMMA SliceLayout ==
    ASSUME NEW lines \in Documents, NEW text, NEW ends, Layout(lines, text, ends),
           NEW a \in 0 .. Len(lines), NEW b \in a .. Len(lines),
           NEW out, Slice(out, text, ends[a], ends[b] - ends[a])
    PROVE  \E e : Layout(SubSeq(lines, a + 1, b), out, e)
<1> DEFINE d == SubSeq(lines, a + 1, b)
           n == Len(lines)
           lo == ends[a]
           e == [k \in 0 .. Len(d) |-> ends[a + k] - lo]
<1>1. /\ n \in Nat /\ a \in Nat /\ b \in Nat /\ a <= b /\ b <= n /\ a \in 0 .. n /\ b \in 0 .. n
      /\ \A k \in 0 .. n : ends[k] \in Nat
  <2>1. n \in Nat /\ \A k \in 0 .. n : ends[k] \in Nat
    BY EndsTyped
  <2>2. QED  BY <2>1
<1>2. d \in Documents /\ Len(d) = b - a /\ \A j \in 1 .. b - a : d[j] = lines[a + j]
  BY SubDocument
<1> HIDE DEF d
<1>3. ASSUME NEW k \in 0 .. b - a PROVE e[k] \in Nat /\ e[k] = ends[a + k] - lo /\ ends[a + k] \in Nat
  <2>1. k \in 0 .. Len(d) /\ a + k \in a .. Len(lines) /\ a + k \in 0 .. n /\ k \in Nat /\ (a + k) - a = k
    BY <1>1, <1>2
  <2>2. e[k] = ends[a + k] - lo
    BY <2>1
  <2>3. ends[a] + ((a + k) - a) <= ends[a + k]
    BY <2>1, EndsGrow
  <2> DEFINE x == ends[a + k]
  <2>4. x \in Nat /\ lo \in Nat /\ lo + ((a + k) - a) <= x
    BY <1>1, <2>1, <2>3
  <2> HIDE DEF x, lo
  <2>5. x - lo \in Nat
    BY <1>1, <2>1, <2>4
  <2>6. QED  BY <2>2, <2>4, <2>5 DEF x
<1>4. e \in [0 .. Len(d) -> Nat]
  <2>1. e = [k \in 0 .. Len(d) |-> e[k]]
    OBVIOUS
  <2>2. \A k \in 0 .. Len(d) : e[k] \in Nat
    BY <1>2, <1>3
  <2> HIDE DEF e
  <2>3. QED  BY <2>1, <2>2
<1> HIDE DEF e, lo
<1>5. e[0] = 0
  <2>1. 0 \in 0 .. b - a /\ a + 0 = a
    BY <1>1
  <2>2. e[0] = ends[a + 0] - lo /\ ends[a + 0] \in Nat
    BY <1>3, <2>1
  <2>3. QED  BY <2>1, <2>2 DEF lo
<1>6. Len(out) = e[Len(d)]
  <2>1. b - a \in 0 .. b - a /\ a + (b - a) = b
    BY <1>1
  <2>2. e[b - a] = ends[a + (b - a)] - lo
    BY <1>3, <2>1
  <2>3. QED  BY <1>2, <2>1, <2>2 DEF Slice, lo
<1>7. ASSUME NEW k \in 0 .. Len(d) - 1
      PROVE  e[k + 1] = e[k] + (Len(d[k + 1]) + 1) /\ HasLine(out, e[k], d[k + 1])
  <2> DEFINE m == a + k
  <2>1. /\ k \in Nat /\ k \in 0 .. b - a /\ k + 1 \in 0 .. b - a /\ k + 1 \in 1 .. b - a
        /\ m \in 0 .. n - 1 /\ a + (k + 1) = m + 1 /\ m + 1 \in 0 .. n /\ b \in m + 1 .. n
        /\ m \in Nat
    BY <1>1, <1>2
  <2>2. d[k + 1] = lines[m + 1]
    <3>1. d[k + 1] = lines[a + (k + 1)]
      BY <1>2, <2>1
    <3>2. QED  BY <2>1, <3>1
  <2>3. e[k] = ends[m] - lo /\ e[k + 1] = ends[m + 1] - lo /\ e[k] \in Nat
    <3>1. e[k + 1] = ends[a + (k + 1)] - lo
      BY <1>3, <2>1
    <3>2. e[k] = ends[a + k] - lo /\ e[k] \in Nat
      BY <1>3, <2>1
    <3>3. QED  BY <2>1, <3>1, <3>2
  <2> HIDE DEF m
  <2>4. /\ ends[m] \in Nat /\ ends[m + 1] \in Nat /\ Len(lines[m + 1]) \in Nat
        /\ ends[m + 1] = ends[m] + (Len(lines[m + 1]) + 1)
    BY <2>1, LineTyped
  <2>5. ends[m + 1] + (b - (m + 1)) <= ends[b]
    BY <2>1, EndsGrow
  <2>6. HasLine(text, ends[m], lines[m + 1])
    BY <2>1 DEF Layout
  <2> DEFINE x == ends[m]
             y == ends[m + 1]
             L == Len(lines[m + 1])
             hi == ends[b]
             f == e[k]
  <2>7. /\ x \in Nat /\ y \in Nat /\ L \in Nat /\ y = x + (L + 1) /\ f = x - lo /\ f \in Nat
        /\ hi \in Nat /\ lo \in Nat /\ y + (b - (m + 1)) <= hi /\ e[k + 1] = y - lo
    BY <1>1, <2>1, <2>3, <2>4, <2>5 DEF lo
  <2>8. /\ e[k + 1] = f + (L + 1)
        /\ \A j \in 1 .. L + 1 : f + j \in 1 .. hi - lo /\ lo + (f + j) = x + j
    <3> HIDE DEF x, y, L, f, hi, n
    <3>1. y <= hi
      BY <1>1, <2>1, <2>7
    <3>2. QED  BY <2>7, <3>1
  <2>9. \A j \in 1 .. hi - lo : out[j] = text[lo + j]
    BY DEF Slice, lo
  <2>10. \A j \in 1 .. L + 1 : out[f + j] = text[x + j]
    <3> HIDE DEF x, y, L, f, hi
    <3>1. ASSUME NEW j \in 1 .. L + 1 PROVE out[f + j] = text[x + j]
      <4>1. out[f + j] = text[lo + (f + j)]
        BY <2>8, <2>9
      <4>2. QED  BY <2>8, <4>1
    <3>2. QED  BY <3>1
  <2>11. HasLine(out, f, lines[m + 1])
    <3>1. L + 1 \in 1 .. L + 1 /\ \A j \in 1 .. L : j \in 1 .. L + 1
      <4> HIDE DEF x, y, L, f, hi
      <4>1. QED  BY <2>7
    <3> HIDE DEF f
    <3>2. QED  BY <2>6, <2>10, <3>1 DEF HasLine
  <2>12. QED  BY <2>2, <2>8, <2>11
<1>8. Layout(d, out, e)
  BY <1>4, <1>5, <1>6, <1>7 DEF Layout
<1>9. QED  BY <1>8 DEF d

\* What is printed from a line to another is the text of those lines.
LEMMA ShowRight ==
    ASSUME NEW lines \in Documents, NEW from \in 0 .. Len(lines), NEW to \in Nat,
           NEW last \in from .. Len(lines),
           last = IF to <= Len(lines) THEN to ELSE Len(lines)
    PROVE  Show(Text(lines), from, to) = Text(SubSeq(lines, from + 1, last))
<1> DEFINE d == SubSeq(lines, from + 1, last)
           out == Show(Text(lines), from, to)
<1>1. Text(lines) \in Seq(Bytes)
  BY TextLayout
<1>2. PICK ends : Layout(lines, Text(lines), ends)
  BY TextLayout
<1>3. Slice(out, Text(lines), ends[from], ends[last] - ends[from])
  BY <1>1, <1>2, Sliced
<1>4. PICK e : Layout(d, out, e)
  <2> HIDE DEF out
  <2>1. QED  BY <1>2, <1>3, SliceLayout
<1>5. d \in Documents
  BY SubDocument
<1>6. out \in Seq(Bytes)
  <2> HIDE DEF out
  <2>1. QED  BY <1>3 DEF Slice
<1> HIDE DEF d, out
<1>7. Text(d) \in Seq(Bytes)
  BY <1>5, TextLayout
<1>8. PICK f : Layout(d, Text(d), f)
  BY <1>5, TextLayout
<1>9. out = Text(d)
  BY <1>4, <1>5, <1>6, <1>7, <1>8, LayoutUnique
<1>10. QED  BY <1>9, Zenon DEF d, out

LEMMA EndsInNewline ==
    ASSUME NEW lines \in Documents, NEW text, NEW ends, Layout(lines, text, ends),
           Len(lines) # 0
    PROVE  text[Len(text)] = Newline
<1>1. PICK k \in 0 .. Len(lines) - 1 : k + 1 = Len(lines)
  <2>1. Len(lines) \in Nat
    BY EndsTyped
  <2>2. Len(lines) - 1 \in 0 .. Len(lines) - 1 /\ (Len(lines) - 1) + 1 = Len(lines)
    BY <2>1
  <2>3. QED  BY <2>2, Zenon
<1>2. /\ \A j \in 1 .. Len(lines[k + 1]) :
            text[ends[k] + j] = lines[k + 1][j] /\ lines[k + 1][j] \in BYTES
      /\ text[ends[k + 1]] = Newline
  <2>1. Spelled(lines, text, ends, k)
    BY LineBytes
  <2>2. QED  BY <2>1 DEF Spelled
<1>3. ends[Len(lines)] = Len(text)
  BY EndsTyped
<1>4. QED  BY <1>1, <1>2, <1>3

\* A text is empty when it has no lines, and ends in a newline when it has.
LEMMA TextEnds ==
    ASSUME NEW lines \in Documents
    PROVE  /\ Text(lines) = <<>> <=> Len(lines) = 0
           /\ Len(lines) # 0 => EndLine(Text(lines)) = <<>>
           /\ Len(lines) <= Len(Text(lines))
           /\ Text(lines) \in Seq(Bytes) /\ Len(Text(lines)) \in Nat /\ Len(lines) \in Nat
<1> DEFINE text == Text(lines)
           n == Len(lines)
<1>1. text \in Seq(Bytes)
  BY TextLayout
<1>2. PICK ends : Layout(lines, text, ends)
  BY TextLayout
<1> HIDE DEF text
<1>3. n \in Nat /\ ends[0] = 0 /\ ends[n] = Len(text) /\ Len(text) \in Nat
  BY <1>2, EndsTyped
<1>4. n <= Len(text)
  <2>1. 0 \in 0 .. Len(lines) /\ Len(lines) \in 0 .. Len(lines)
    BY <1>3
  <2>2. ends[0] + (n - 0) <= ends[n]
    BY <1>2, <2>1, EndsGrow
  <2> HIDE DEF n
  <2>3. QED  BY <1>3, <2>2
<1>5. n = 0 => text = <<>>
  <2>1. n = 0 => Len(text) = 0
    BY <1>3
  <2>2. QED  BY <1>1, <2>1, EmptySeq
<1>6. text = <<>> => n = 0
  <2>1. text = <<>> => Len(text) = 0
    BY EmptySeq
  <2> HIDE DEF n
  <2>2. QED  BY <1>3, <1>4, <2>1
<1>7. n # 0 => text[Len(text)] = Newline
  BY <1>2, EndsInNewline
<1>8. n # 0 => EndLine(text) = <<>>
  BY <1>7, Zenon DEF EndLine
<1>9. QED  BY <1>1, <1>3, <1>4, <1>5, <1>6, <1>8 DEF text

\* The newline that is cut off is the last byte shown, or is not shown.
LEMMA ShowCut ==
    ASSUME NEW lines \in Documents, NEW text \in Seq(Bytes), NEW ends, Layout(lines, text, ends),
           NEW cut \in Seq(Bytes), Unended(lines, text, cut), NEW from \in Nat, NEW to \in Nat
    PROVE  Show(text, from, to) =
              IF from <= Len(lines) - 1 /\ Len(lines) - 1 < to
              THEN Append(Show(cut, from, to), Newline) ELSE Show(cut, from, to)
<1> DEFINE size == Len(cut)
           m == Len(lines) - 1
<1>1. PICK g : Passes(text, from, to, g)
  BY ShowDefined
<1>2. PICK h : Passes(cut, from, to, h)
  BY ShowDefined
<1>3. /\ g[0] = [out |-> <<>>, lines |-> 0]
      /\ \A i \in 1 .. Len(text) : g[i] = Print1(g[i - 1], text[i], from, to)
      /\ Show(text, from, to) = g[Len(text)].out
  BY <1>1, Zenon DEF Passes
<1>4. /\ h[0] = [out |-> <<>>, lines |-> 0]
      /\ \A i \in 1 .. size : h[i] = Print1(h[i - 1], cut[i], from, to)
      /\ Show(cut, from, to) = h[size].out
  BY <1>2, Zenon DEF Passes
<1>5. /\ size \in Nat /\ Len(text) = size + 1 /\ text[size + 1] = Newline
      /\ \A i \in 1 .. size : cut[i] = text[i]
  BY LenProperties DEF Unended
<1> DEFINE S == {i \in Nat : g[i] = h[i]}
<1>6. 0 \in S
  BY <1>3, <1>4
<1>7. ASSUME NEW i \in 0 .. size - 1, i \in S PROVE i + 1 \in S
  <2>1. /\ i \in Nat /\ i + 1 \in Nat /\ i + 1 \in 1 .. size /\ i + 1 \in 1 .. Len(text)
        /\ (i + 1) - 1 = i /\ g[i] = h[i]
    BY <1>5, <1>7
  <2>2. g[i + 1] = Print1(g[i], text[i + 1], from, to)
    BY <1>3, <2>1
  <2>3. h[i + 1] = Print1(h[i], cut[i + 1], from, to) /\ cut[i + 1] = text[i + 1]
    BY <1>4, <1>5, <2>1
  <2>4. g[i + 1] = h[i + 1]
    BY <2>1, <2>2, <2>3, Zenon
  <2>5. QED  BY <2>1, <2>4
<1>8. g[size] = h[size]
  <2>1. \A i \in 0 .. size : i \in S
    <3> HIDE DEF S, size
    <3>1. QED  BY <1>5, <1>6, <1>7, StepByStep
  <2>2. size \in 0 .. size
    BY <1>5
  <2>3. QED  BY <2>1, <2>2
<1> DEFINE c == [i \in 0 .. size |-> h[i].lines]
<1>9. c[0] = 0 /\ c[size] = h[size].lines
  BY <1>4, <1>5
<1>10. ASSUME NEW i \in 1 .. size
       PROVE  c[i] = IF cut[i] = Newline THEN c[i - 1] + 1 ELSE c[i - 1]
  <2>1. i \in 0 .. size /\ i - 1 \in 0 .. size
    BY <1>5
  <2>2. h[i].lines = IF cut[i] = Newline THEN h[i - 1].lines + 1 ELSE h[i - 1].lines
    <3>1. Print1(h[i - 1], cut[i], from, to).lines =
             IF cut[i] = Newline THEN h[i - 1].lines + 1 ELSE h[i - 1].lines
      BY Printed
    <3>2. h[i] = Print1(h[i - 1], cut[i], from, to)
      BY <1>4
    <3>3. QED  BY <3>1, <3>2, Zenon
  <2>3. QED  BY <2>1, <2>2
<1> HIDE DEF c
<1>11. c[size] = m
  BY <1>9, <1>10, CutCounted
<1>12. size + 1 \in 1 .. Len(text) /\ (size + 1) - 1 = size
  BY <1>5
<1>13. g[size + 1] = Print1(h[size], Newline, from, to)
  BY <1>3, <1>5, <1>8, <1>12
<1>14. h[size].lines = m
  BY <1>9, <1>11
<1> HIDE DEF size, m
<1>15. Print1(h[size], Newline, from, to).out =
          IF from <= m /\ m < to THEN Append(h[size].out, Newline) ELSE h[size].out
  BY <1>14, Printed
<1>16. QED  BY <1>3, <1>4, <1>5, <1>13, <1>15 DEF m

LEMMA EndsInOne ==
    ASSUME NEW s \in Seq(Bytes) PROVE s \o <<Newline>> = Append(s, Newline)
<1>1. Newline \in Bytes
  BY DEF Bytes
<1>2. <<Newline>> \in Seq(Bytes) /\ Len(<<Newline>>) = 1 /\ <<Newline>>[1] = Newline
  BY <1>1
<1> DEFINE t == s \o <<Newline>>
           u == Append(s, Newline)
           n == Len(s)
<1>3. n \in Nat /\ t \in Seq(Bytes) /\ Len(t) = n + 1
  BY <1>2, ConcatProperties, LenProperties
<1>4. u \in Seq(Bytes) /\ Len(u) = n + 1 /\ u[n + 1] = Newline
      /\ \A i \in 1 .. n : u[i] = s[i]
  BY <1>1, AppendProperties
<1>5. \A i \in 1 .. n + 1 : t[i] = IF i <= n THEN s[i] ELSE <<Newline>>[i - n]
  BY <1>2, <1>3, ConcatProperties
<1> HIDE DEF t, u, n
<1>6. ASSUME NEW i \in 1 .. n + 1 PROVE t[i] = u[i]
  <2>1. CASE i <= n
    BY <1>3, <1>4, <1>5, <2>1
  <2>2. CASE ~ i <= n
    <3>1. i = n + 1 /\ i - n = 1
      BY <1>3, <2>2
    <3>2. QED  BY <1>2, <1>4, <1>5, <2>2, <3>1
  <2>3. QED  BY <2>1, <2>2
<1>7. t = u
  BY <1>3, <1>4, <1>6, SeqEqual
<1>8. QED  BY <1>7 DEF t, u

LEMMA HeadShows ==
    ASSUME NEW lines \in Documents
    PROVE  Show(Text(lines), 0, LINES) = Text(FirstLines(lines)) /\ FirstLines(lines) \in Documents
<1> DEFINE n == Len(lines)
           last == IF n < LINES THEN n ELSE LINES
<1>1. n \in Nat /\ LINES \in Nat
  BY TextEnds, TextAssumption
<1>2. /\ 0 \in 0 .. n /\ last \in 0 .. n /\ LINES \in Nat
      /\ last = IF LINES <= n THEN LINES ELSE n
      /\ 0 + 1 = 1
  <2> HIDE DEF n
  <2>1. QED  BY <1>1
<1>3. FirstLines(lines) = SubSeq(lines, 1, last)
  BY Zenon DEF FirstLines
<1> HIDE DEF last
<1>4. Show(Text(lines), 0, LINES) = Text(SubSeq(lines, 0 + 1, last))
  BY <1>2, ShowRight
<1>5. SubSeq(lines, 0 + 1, last) \in Documents
  BY <1>2, SubDocument
<1>6. QED  BY <1>2, <1>3, <1>4, <1>5

LEMMA HeadOfText ==
    ASSUME NEW lines \in Documents
    PROVE  cmd_head(Text(lines)) = Text(FirstLines(lines))
<1> DEFINE n == Len(lines)
           text == Text(lines)
<1>1. /\ text = <<>> <=> n = 0
      /\ n # 0 => EndLine(text) = <<>>
      /\ n \in Nat /\ LINES \in Nat /\ text \in Seq(Bytes)
  BY TextEnds, TextAssumption
<1>2. Show(text, 0, LINES) = Text(FirstLines(lines)) /\ Show(text, 0, LINES) \in Seq(Bytes)
  BY <1>1, HeadShows, ShowDefined
<1>3. CASE n = 0
  <2>1. text = <<>> /\ cmd_head(text) = <<>>
    BY <1>1, <1>3, Zenon DEF cmd_head
  <2>2. FirstLines(lines) \in Documents /\ Len(FirstLines(lines)) = 0
    <3>1. FirstLines(lines) = SubSeq(lines, 1, IF n < LINES THEN n ELSE LINES)
      BY Zenon DEF FirstLines
    <3>2. (IF n < LINES THEN n ELSE LINES) = 0
      BY <1>1, <1>3
    <3>3. SubSeq(lines, 0 + 1, 0) \in Documents /\ Len(SubSeq(lines, 0 + 1, 0)) = 0 - 0
      <4>1. 0 \in 0 .. Len(lines) /\ 0 \in 0 .. Len(lines)
        BY <1>1
      <4>2. QED  BY <4>1, SubDocument
    <3>4. 0 + 1 = 1 /\ 0 - 0 = 0
      OBVIOUS
    <3>5. QED  BY <3>1, <3>2, <3>3, <3>4
  <2>3. Text(FirstLines(lines)) = <<>>
    BY <2>2, TextEnds
  <2>4. QED  BY <2>1, <2>3
<1>4. CASE n # 0
  <2>1. cmd_head(text) = Show(text, 0, LINES) \o <<>>
    BY <1>1, <1>4, Zenon DEF cmd_head
  <2>2. cmd_head(text) = Show(text, 0, LINES)
    BY <1>2, <2>1, ConcatEmptySeq
  <2>3. QED  BY <1>2, <2>2
<1>5. QED  BY <1>3, <1>4

LEMMA HeadOfCut ==
    ASSUME NEW lines \in Documents, NEW cut \in Seq(Bytes), Unended(lines, Text(lines), cut)
    PROVE  cmd_head(cut) = IF Len(lines) <= LINES THEN Text(FirstLines(lines))
                           ELSE Append(Text(FirstLines(lines)), Newline)
<1> DEFINE n == Len(lines)
           text == Text(lines)
           shown == Show(cut, 0, LINES)
<1>1. text \in Seq(Bytes) /\ n \in Nat /\ LINES \in Nat
  BY TextEnds, TextAssumption
<1>2. PICK ends : Layout(lines, text, ends)
  BY TextLayout
<1>3. Show(text, 0, LINES) = Text(FirstLines(lines))
  BY HeadShows
<1>4. shown \in Seq(Bytes)
  BY ShowDefined
<1>5. cut # <<>> /\ EndLine(cut) = <<Newline>> /\ n # 0
  <2>1. n # 0 /\ n <= Len(cut) /\ Len(cut) \in Nat /\ cut[Len(cut)] # Newline
    BY LenProperties DEF Unended
  <2>2. Len(cut) # 0
    <3> HIDE DEF n
    <3>1. QED  BY <1>1, <2>1
  <2>3. cut # <<>>
    BY <2>2, EmptySeq
  <2>4. QED  BY <2>1, <2>3, Zenon DEF EndLine
<1>6. cmd_head(cut) = Append(shown, Newline)
  <2>1. cmd_head(cut) = shown \o <<Newline>>
    BY <1>5, Zenon DEF cmd_head
  <2>2. QED  BY <1>4, <2>1, EndsInOne
<1>7. Show(text, 0, LINES) = IF 0 <= n - 1 /\ n - 1 < LINES THEN Append(shown, Newline) ELSE shown
  <2>1. 0 \in Nat
    OBVIOUS
  <2>2. QED  BY <1>1, <1>2, <2>1, ShowCut
<1> HIDE DEF n, shown
<1>8. 0 <= n - 1 /\ (n - 1 < LINES <=> n <= LINES)
  BY <1>1, <1>5
<1>9. QED  BY <1>3, <1>6, <1>7, <1>8 DEF n

LEMMA TailOfText ==
    ASSUME NEW lines \in Documents
    PROVE  cmd_tail(Text(lines)) = Text(LastLines(lines, LINES))
<1> DEFINE n == Len(lines)
           from == IF n > LINES THEN n - LINES ELSE 0
           text == Text(lines)
           to == Len(text) + 1
<1>1. /\ text = <<>> <=> n = 0
      /\ n # 0 => EndLine(text) = <<>>
      /\ n \in Nat /\ LINES \in Nat /\ LINES # 0 /\ n <= Len(text) /\ Len(text) \in Nat
      /\ text \in Seq(Bytes)
  BY TextEnds, TextAssumption
<1>2. /\ from \in 0 .. n /\ n \in from .. n /\ to \in Nat
      /\ n = IF to <= n THEN to ELSE n
      /\ from + 1 = IF n < LINES THEN 1 ELSE n - LINES + 1
  <2> HIDE DEF n, text
  <2>1. QED  BY <1>1
<1>3. Show(text, from, to) = Text(SubSeq(lines, from + 1, n))
  <2> HIDE DEF from, to
  <2>1. QED  BY <1>2, ShowRight
<1>4. LastLines(lines, LINES) = SubSeq(lines, from + 1, n)
  BY <1>2, Zenon DEF LastLines
<1>5. Skip(cmd_wc(text).lines) = from
  <2>1. PICK ends : Layout(lines, text, ends)
    BY TextLayout
  <2>2. cmd_wc(text) = [lines |-> n, words |-> Cardinality(WordStarts(text)), bytes |-> Len(text)]
    BY <1>1, <2>1, TextCounted
  <2>3. cmd_wc(text).lines = n
    BY <2>2
  <2>4. QED  BY <2>3, Zenon DEF Skip
<1> HIDE DEF from
<1>6. SubSeq(lines, from + 1, n) \in Documents /\ Len(SubSeq(lines, from + 1, n)) = n - from
  BY <1>2, SubDocument
<1>7. CASE n = 0
  <2>1. text = <<>> /\ cmd_tail(text) = <<>>
    BY <1>1, <1>7, Zenon DEF cmd_tail
  <2>2. Len(SubSeq(lines, from + 1, n)) = 0
    BY <1>2, <1>6, <1>7
  <2>3. Text(SubSeq(lines, from + 1, n)) = <<>>
    BY <1>6, <2>2, TextEnds
  <2>4. QED  BY <1>4, <2>1, <2>3
<1>8. CASE n # 0
  <2>1. cmd_tail(text) = Show(text, from, to) \o <<>>
    BY <1>1, <1>5, <1>8, Zenon DEF cmd_tail
  <2>2. Show(text, from, to) \in Seq(Bytes)
    BY <1>3, <1>6, TextEnds
  <2>3. cmd_tail(text) = Show(text, from, to)
    BY <2>1, <2>2, ConcatEmptySeq
  <2>4. QED  BY <1>3, <1>4, <2>3
<1>9. QED  BY <1>7, <1>8

LEMMA TailOfCut ==
    ASSUME NEW lines \in Documents, NEW cut \in Seq(Bytes), Unended(lines, Text(lines), cut)
    PROVE  cmd_tail(cut) = Text(LastLines(lines, LINES + 1))
<1> DEFINE n == Len(lines)
           text == Text(lines)
           from == IF n - 1 > LINES THEN (n - 1) - LINES ELSE 0
           to == Len(cut) + 1
           shown == Show(cut, from, to)
<1>1. text \in Seq(Bytes) /\ n \in Nat /\ LINES \in Nat
  BY TextEnds, TextAssumption
<1>2. PICK ends : Layout(lines, text, ends)
  BY TextLayout
<1>3. n # 0 /\ n <= Len(cut) /\ Len(cut) \in Nat /\ cut[Len(cut)] # Newline
  BY LenProperties DEF Unended
<1>4. cut # <<>> /\ EndLine(cut) = <<Newline>>
  <2>1. Len(cut) # 0
    <3> HIDE DEF n
    <3>1. QED  BY <1>1, <1>3
  <2>2. cut # <<>>
    BY <2>1, EmptySeq
  <2>3. QED  BY <1>3, <2>2, Zenon DEF EndLine
<1>5. /\ from \in 0 .. n /\ from \in Nat /\ n \in from .. n /\ to \in Nat
      /\ n = (IF to <= n THEN to ELSE n) /\ from <= n - 1 /\ n - 1 < to
      /\ from + 1 = IF n < LINES + 1 THEN 1 ELSE n - (LINES + 1) + 1
  <2> HIDE DEF n
  <2>1. QED  BY <1>1, <1>3
<1>6. shown \in Seq(Bytes)
  BY ShowDefined
<1>7. Skip(cmd_wc(cut).lines) = from
  <2>1. cmd_wc(cut) = [lines |-> n - 1, words |-> Cardinality(WordStarts(cut)), bytes |-> Len(cut)]
    BY <1>1, <1>2, CutWords
  <2>2. cmd_wc(cut).lines = n - 1
    BY <2>1
  <2>3. QED  BY <2>2, Zenon DEF Skip
<1>8. LastLines(lines, LINES + 1) = SubSeq(lines, from + 1, n)
  BY <1>5, Zenon DEF LastLines
<1> HIDE DEF from, to
<1>9. Show(text, from, to) = Text(SubSeq(lines, from + 1, n))
  BY <1>5, ShowRight
<1>10. Show(text, from, to) = Append(shown, Newline)
  BY <1>1, <1>2, <1>5, ShowCut
<1>11. cmd_tail(cut) = Append(shown, Newline)
  <2>1. cmd_tail(cut) = shown \o <<Newline>>
    BY <1>4, <1>7, Zenon DEF cmd_tail, to
  <2>2. QED  BY <1>6, <2>1, EndsInOne
<1>12. QED  BY <1>8, <1>9, <1>10, <1>11

-----------------------------------------------------------------------------
(* grep.                                                                    *)

\* The pattern is in s behind the place i.
Found(s, p, i) ==
    /\ i \in Nat /\ i + Len(p) <= Len(s)
    /\ \A j \in 1 .. Len(p) : s[i + j] = p[j]

LEMMA FoundIs ==
    ASSUME NEW s \in Seq(Bytes), NEW p \in Seq(Bytes), NEW i \in Nat, i + Len(p) <= Len(s)
    PROVE  Found(s, p, i) <=> SubSeq(s, i + 1, i + Len(p)) = p
<1> DEFINE L == Len(p)
           size == Len(s)
           t == SubSeq(s, i + 1, i + L)
<1>1. L \in Nat /\ size \in Nat /\ i + L <= size
  BY LenProperties
<1>2. \A j \in 1 .. size : s[j] \in Bytes
  BY ElementOfSeq
<1> HIDE DEF L, size
<1>3. \A j \in i + 1 .. i + L : s[j] \in Bytes
  BY <1>1, <1>2
<1>4. i + 1 \in Int /\ i + L \in Int
  BY <1>1
<1>5. t \in Seq(Bytes) /\ Len(t) = IF i + 1 <= i + L THEN (i + L) - (i + 1) + 1 ELSE 0
  BY <1>3, <1>4, SubSeqProperties
<1>6. \A j \in 1 .. (i + L) - (i + 1) + 1 : t[j] = s[(i + 1) + j - 1]
  <2> DEFINE from == i + 1
             to == i + L
  <2>1. \A j \in from .. to : s[j] \in Bytes
    BY <1>3
  <2>2. from \in Int /\ to \in Int
    BY <1>4
  <2> HIDE DEF from, to
  <2>3. \A j \in 1 .. to - from + 1 : SubSeq(s, from, to)[j] = s[from + j - 1]
    BY <2>1, <2>2, SubSeqProperties
  <2>4. QED  BY <2>3 DEF from, to
<1> HIDE DEF t
<1>7. Len(t) = L
  BY <1>1, <1>5
<1>8. \A j \in 1 .. L : t[j] = s[i + j]
  <2>1. \A j \in 1 .. L : j \in 1 .. (i + L) - (i + 1) + 1 /\ (i + 1) + j - 1 = i + j
    BY <1>1
  <2>2. QED  BY <1>6, <2>1
<1>9. Found(s, p, i) <=> \A j \in 1 .. L : s[i + j] = p[j]
  BY <1>1 DEF Found, L, size
<1>10. Found(s, p, i) => t = p
  <2>1. Found(s, p, i) => \A j \in 1 .. Len(t) : t[j] = p[j]
    BY <1>7, <1>8, <1>9
  <2>2. QED  BY <1>5, <1>7, <2>1, SeqEqual DEF L
<1>11. t = p => Found(s, p, i)
  BY <1>8, <1>9
<1>12. QED  BY <1>10, <1>11 DEF t, L

LEMMA PlacesAre ==
    ASSUME NEW s \in Seq(Bytes), NEW p \in Seq(Bytes)
    PROVE  Places(s, p) \in SUBSET Nat /\ \A i : i \in Places(s, p) <=> Found(s, p, i)
<1> DEFINE L == Len(p)
           size == Len(s)
<1>1. L \in Nat /\ size \in Nat
  BY LenProperties
<1>2. \A i : i \in Places(s, p) <=> i \in 0 .. size - L /\ \A j \in 1 .. L : s[i + j] = p[j]
  BY DEF Places
<1>3. \A i : i \in 0 .. size - L <=> i \in Nat /\ i + L <= size
  <2> HIDE DEF L, size
  <2>1. QED  BY <1>1
<1>4. \A i : i \in Places(s, p) <=> Found(s, p, i)
  BY <1>2, <1>3, Zenon DEF Found
<1>5. QED  BY <1>4, Zenon DEF Found

LEMMA Strstr ==
    ASSUME NEW s \in Seq(Bytes), NEW p \in Seq(Bytes), p # <<>>
    PROVE  /\ strstr_pos(s, p) \in Int
           /\ strstr_pos(s, p) >= 0 => Found(s, p, strstr_pos(s, p))
           /\ strstr_pos(s, p) < 0 <=> \A i \in Nat : ~ Found(s, p, i)
<1> DEFINE P == Places(s, p)
<1>1. P \in SUBSET Nat /\ \A i : i \in P <=> Found(s, p, i)
  BY PlacesAre
<1>2. CASE P = {}
  <2>1. strstr_pos(s, p) = -1
    BY <1>2, Zenon DEF strstr_pos
  <2>2. \A i \in Nat : ~ Found(s, p, i)
    BY <1>1, <1>2, Zenon
  <2>3. QED  BY <2>1, <2>2
<1>3. CASE P # {}
  <2>1. strstr_pos(s, p) = Least(P)
    BY <1>3, Zenon DEF strstr_pos
  <2>2. Least(P) \in P
    <3> HIDE DEF P
    <3>1. \E i \in P : \A j \in P : i <= j
      BY <1>1, <1>3, LeastOf
    <3>2. QED  BY <3>1, Zenon DEF Least
  <2> HIDE DEF P
  <2>3. strstr_pos(s, p) \in Nat /\ Found(s, p, strstr_pos(s, p))
    BY <1>1, <2>1, <2>2
  <2>4. QED  BY <2>3
<1>4. QED  BY <1>2, <1>3

LEMMA BytesAssociative == \A a, b, c \in Seq(Bytes) : (a \o b) \o c = a \o (b \o c)
<1> SUFFICES ASSUME NEW a \in Seq(Bytes), NEW b \in Seq(Bytes), NEW c \in Seq(Bytes)
             PROVE  (a \o b) \o c = a \o (b \o c)
  OBVIOUS
<1> QED  BY ConcatAssociative

\* The line so far and what is left of it are the line.
LEMMA PieceKeeps ==
    ASSUME NEW pattern \in Seq(Bytes), pattern # <<>>,
           NEW d \in [out : Seq(Bytes), left : Seq(Bytes)]
    PROVE  /\ Piece(d, pattern) \in [out : Seq(Bytes), left : Seq(Bytes)]
           /\ Piece(d, pattern).out \o Piece(d, pattern).left = d.out \o d.left
           /\ Len(Piece(d, pattern).left) < Len(d.left) \/ Len(Piece(d, pattern).left) = 0
<1> DEFINE o == d.out
           l == d.left
           pos == strstr_pos(l, pattern)
           L == Len(pattern)
           size == Len(l)
           e == Piece(d, pattern)
<1>1. o \in Seq(Bytes) /\ l \in Seq(Bytes)
  BY Zenon
<1>2. pos \in Int /\ (pos >= 0 => Found(l, pattern, pos))
  BY <1>1, Strstr
<1>3. L \in Nat \ {0} /\ size \in Nat
  BY <1>1, EmptySeq, LenProperties
<1>4. e = IF pos >= 0
          THEN [out |-> o \o SubSeq(l, 1, pos) \o pattern, left |-> SubSeq(l, pos + L + 1, size)]
          ELSE [out |-> o \o l, left |-> <<>>]
  BY Zenon DEF Piece
<1> HIDE DEF o, l, pos, e
<1>5. CASE pos >= 0
  <2> DEFINE A == SubSeq(l, 1, pos)
             C == SubSeq(l, (pos + L) + 1, size)
             B == SubSeq(l, pos + 1, pos + L)
  <2>1. Found(l, pattern, pos) /\ pos \in Nat /\ pos + L <= size
    BY <1>2, <1>5 DEF Found
  <2>2. B = pattern
    <3>1. pos \in Nat /\ pos + Len(pattern) <= Len(l)
      BY <2>1
    <3>2. QED  BY <1>1, <2>1, <3>1, FoundIs
  <2>3. /\ 1 \in 1 .. size + 1 /\ pos \in 1 - 1 .. size /\ pos + L \in pos .. size
        /\ pos + L \in 1 - 1 .. size /\ size \in pos + L .. size
    <3> HIDE DEF L, size
    <3>1. QED  BY <1>3, <2>1
  <2>4. A \o B = SubSeq(l, 1, pos + L)
    <3> HIDE DEF L
    <3>1. QED  BY <1>1, <2>3, ConcatAdjacentSubSeq
  <2>5. SubSeq(l, 1, pos + L) \o C = SubSeq(l, 1, size)
    <3> DEFINE k == pos + L
    <3>1. k \in 1 - 1 .. size /\ size \in k .. size
      BY <2>3
    <3> HIDE DEF k
    <3>2. SubSeq(l, 1, k) \o SubSeq(l, k + 1, size) = SubSeq(l, 1, size)
      BY <1>1, <2>3, <3>1, ConcatAdjacentSubSeq
    <3>3. QED  BY <3>2 DEF k
  <2>6. SubSeq(l, 1, size) = l
    BY <1>1, SubSeqFull
  <2>7. \A j \in 1 .. size : l[j] \in Bytes
    BY <1>1, ElementOfSeq
  <2>8. A \in Seq(Bytes)
    <3> HIDE DEF size
    <3>1. \A j \in 1 .. pos : l[j] \in Bytes
      BY <1>3, <2>3, <2>7
    <3>2. 1 \in Int /\ pos \in Int
      BY <2>1
    <3>3. QED  BY <3>1, <3>2, SubSeqProperties
  <2>9. C \in Seq(Bytes) /\ Len(C) = IF (pos + L) + 1 <= size THEN size - ((pos + L) + 1) + 1 ELSE 0
    <3> DEFINE m == (pos + L) + 1
    <3>1. m \in Int /\ size \in Int /\ m > 0
      BY <1>3, <2>1
    <3> HIDE DEF m, size
    <3>2. \A j \in m .. size : l[j] \in Bytes
      BY <2>7, <3>1
    <3>3. SubSeq(l, m, size) \in Seq(Bytes) /\ Len(SubSeq(l, m, size)) = IF m <= size THEN size - m + 1 ELSE 0
      BY <3>1, <3>2, SubSeqProperties
    <3>4. QED  BY <3>3, Zenon DEF m, C
  <2> HIDE DEF A, B, C
  <2>10. Len(C) < size
    <3> HIDE DEF size, L
    <3>1. QED  BY <1>3, <2>1, <2>9
  <2>11. e = [out |-> (o \o A) \o pattern, left |-> C]
    BY <1>4, <1>5, Zenon DEF A, C
  <2>12. e.out = (o \o A) \o pattern /\ e.left = C
    BY <2>11
  <2>13. o \o A \in Seq(Bytes) /\ (o \o A) \o pattern \in Seq(Bytes)
    <3>1. o \o A \in Seq(Bytes)
      BY <1>1, <2>8, ConcatProperties
    <3> DEFINE T == o \o A
    <3>2. T \in Seq(Bytes)
      BY <3>1
    <3> HIDE DEF T
    <3>3. T \o pattern \in Seq(Bytes)
      BY <3>2, ConcatProperties
    <3>4. QED  BY <3>1, <3>3, Zenon DEF T
  <2>14. ((o \o A) \o pattern) \o C = o \o l
    <3>1. ((o \o A) \o pattern) \o C = (o \o (A \o pattern)) \o C
      <4>1. (o \o A) \o pattern = o \o (A \o pattern)
        <5>1. o \in Seq(Bytes) /\ A \in Seq(Bytes) /\ pattern \in Seq(Bytes)
          BY <1>1, <2>8
        <5>2. QED  BY <5>1, BytesAssociative, SMTT(30)
      <4>2. QED  BY <4>1, Zenon
    <3>2. A \o pattern \in Seq(Bytes)
      BY <2>8, ConcatProperties
    <3>3. (o \o (A \o pattern)) \o C = o \o ((A \o pattern) \o C)
      <4> DEFINE T == A \o pattern
      <4>1. o \in Seq(Bytes) /\ T \in Seq(Bytes) /\ C \in Seq(Bytes)
        BY <1>1, <2>9, <3>2
      <4> HIDE DEF T
      <4>2. (o \o T) \o C = o \o (T \o C)
        BY <4>1, BytesAssociative, SMTT(30)
      <4>3. QED  BY <4>2, Zenon DEF T
    <3>4. (A \o pattern) \o C = l
      <4>1. (A \o B) \o C = l
        BY <2>4, <2>5, <2>6
      <4>2. QED  BY <2>2, <4>1
    <3>5. QED  BY <3>1, <3>3, <3>4, Zenon
  <2>15. e \in [out : Seq(Bytes), left : Seq(Bytes)]
    BY <2>9, <2>11, <2>13, Zenon
  <2>16. QED  BY <2>10, <2>12, <2>14, <2>15 DEF e, o, l
<1>6. CASE ~ pos >= 0
  <2>1. e = [out |-> o \o l, left |-> <<>>]
    BY <1>4, <1>6, Zenon
  <2>2. e.out = o \o l /\ e.left = <<>>
    BY <2>1
  <2>3. o \o l \in Seq(Bytes) /\ <<>> \in Seq(Bytes) /\ Len(<<>>) = 0
    BY <1>1, ConcatProperties, EmptySeq
  <2>4. (o \o l) \o <<>> = o \o l
    BY <2>3, ConcatEmptySeq
  <2>5. e \in [out : Seq(Bytes), left : Seq(Bytes)]
    BY <2>1, <2>3, Zenon
  <2>6. QED  BY <2>2, <2>3, <2>4, <2>5 DEF e, o, l
<1>7. QED  BY <1>5, <1>6

Pieces(text, pattern, g) ==
    /\ g[0] = [out |-> <<>>, left |-> text]
    /\ \A i \in 1 .. Len(text) : g[i] = Piece(g[i - 1], pattern)
    /\ Highlighted(text, pattern) = g[Len(text)].out

LEMMA HighlightedDefined ==
    ASSUME NEW text \in Seq(Bytes), NEW pattern \in Seq(Bytes), pattern # <<>>
    PROVE  \E g : Pieces(text, pattern, g)
<1> DEFINE n == Len(text)
           D == [out : Seq(Bytes), left : Seq(Bytes)]
           b == [out |-> <<>>, left |-> text]
           F == [x \in D \X (1 .. n) |-> Piece(x[1], pattern)]
<1>1. n \in Nat
  BY LenProperties
<1>2. F \in [D \X (1 .. n) -> D]
  <2>1. ASSUME NEW d \in D PROVE Piece(d, pattern) \in D
    BY PieceKeeps
  <2> HIDE DEF D
  <2>2. QED  BY <2>1
<1>3. b \in D
  <2>1. <<>> \in Seq(Bytes)
    BY EmptySeq
  <2>2. QED  BY <2>1, Zenon
<1> HIDE DEF n, D, b
<1>4. PICK g : Follows(g, n, D, b, F)
  <2> HIDE DEF F
  <2>1. QED  BY <1>1, <1>2, <1>3, Recursion
<1>5. ASSUME NEW i \in 1 .. n PROVE g[i] = Piece(g[i - 1], pattern)
  <2>1. g[i - 1] \in D /\ g[i] = F[<<g[i - 1], i>>]
    <3> HIDE DEF F
    <3>1. i - 1 \in 0 .. n
      BY <1>1
    <3>2. QED  BY <1>4, <3>1 DEF Follows
  <2>2. QED  BY <2>1
<1>6. g = [k \in 0 .. n |-> IF k = 0 THEN b ELSE Piece(g[k - 1], pattern)]
  <2> HIDE DEF F
  <2>1. g = [k \in 0 .. n |-> g[k]]
    BY <1>4 DEF Follows
  <2>2. ASSUME NEW k \in 0 .. n
        PROVE  g[k] = IF k = 0 THEN b ELSE Piece(g[k - 1], pattern)
    <3>1. k = 0 \/ k \in 1 .. n
      BY <1>1
    <3>2. QED  BY <1>1, <1>4, <1>5, <3>1 DEF Follows
  <2>3. QED  BY <2>1, <2>2, Zenon
<1> DEFINE after[k \in 0 .. Len(text)] ==
              IF k = 0 THEN [out |-> <<>>, left |-> text]
              ELSE Piece(after[k - 1], pattern)
<1>7. after = [k \in 0 .. Len(text) |->
                IF k = 0 THEN [out |-> <<>>, left |-> text]
                ELSE Piece(after[k - 1], pattern)]
  BY <1>6, Zenon DEF n, b
<1>8. Highlighted(text, pattern) = after[Len(text)].out
  BY Zenon DEF Highlighted
<1> HIDE DEF after
<1>9. after[0] = b /\ \A i \in 1 .. n : after[i] = Piece(after[i - 1], pattern)
  <2>1. after[0] = b
    <3>1. 0 \in 0 .. Len(text)
      BY <1>1 DEF n
    <3>2. QED  BY <1>7, <3>1, Zenon DEF b
  <2>2. ASSUME NEW i \in 1 .. n PROVE after[i] = Piece(after[i - 1], pattern)
    <3>1. i \in 0 .. Len(text) /\ i # 0
      BY <1>1 DEF n
    <3>2. QED  BY <1>7, <3>1, Zenon
  <2>3. QED  BY <2>1, <2>2
<1>10. Pieces(text, pattern, after)
  BY <1>8, <1>9 DEF Pieces, n, b
<1>11. QED  BY <1>10

\* A line is printed whole.
LEMMA HighlightedRight ==
    ASSUME NEW text \in Seq(Bytes), NEW pattern \in Seq(Bytes), pattern # <<>>
    PROVE  Highlighted(text, pattern) = text
<1> DEFINE n == Len(text)
           D == [out : Seq(Bytes), left : Seq(Bytes)]
<1>1. PICK g : Pieces(text, pattern, g)
  BY HighlightedDefined
<1>2. /\ g[0] = [out |-> <<>>, left |-> text]
      /\ \A i \in 1 .. n : g[i] = Piece(g[i - 1], pattern)
      /\ Highlighted(text, pattern) = g[n].out
  BY <1>1, Zenon DEF Pieces
<1>3. n \in Nat /\ <<>> \in Seq(Bytes) /\ <<>> \o text = text
  BY LenProperties, EmptySeq, ConcatEmptySeq
<1> DEFINE S == {k \in Nat : /\ g[k] \in D /\ g[k].out \o g[k].left = text
                             /\ Len(g[k].left) + k <= n}
<1>4. 0 \in S
  <2>1. g[0] \in D
    <3>1. [out |-> <<>>, left |-> text] \in D
      BY <1>3, Zenon
    <3>2. QED  BY <1>2, <3>1
  <2>2. g[0].out = <<>> /\ g[0].left = text
    BY <1>2
  <2>3. Len(g[0].left) + 0 <= n
    BY <1>3, <2>2
  <2>4. QED  BY <1>3, <2>1, <2>2, <2>3
<1>5. ASSUME NEW k \in 0 .. n - 1, k \in S PROVE k + 1 \in S
  <2>1. k \in Nat /\ k + 1 \in Nat /\ k + 1 \in 1 .. n /\ (k + 1) - 1 = k /\ k + 1 <= n
    BY <1>3
  <2>2. g[k + 1] = Piece(g[k], pattern)
    BY <1>2, <2>1
  <2>3. g[k] \in D /\ g[k].out \o g[k].left = text /\ Len(g[k].left) + k <= n
    BY <1>5
  <2>4. /\ g[k + 1] \in D /\ g[k + 1].out \o g[k + 1].left = text
        /\ Len(g[k + 1].left) < Len(g[k].left) \/ Len(g[k + 1].left) = 0
    <3> DEFINE d == g[k]
    <3>1. d \in [out : Seq(Bytes), left : Seq(Bytes)] /\ d.out \o d.left = text
      BY <2>3
    <3> HIDE DEF d
    <3>2. /\ Piece(d, pattern) \in [out : Seq(Bytes), left : Seq(Bytes)]
          /\ Piece(d, pattern).out \o Piece(d, pattern).left = d.out \o d.left
          /\ Len(Piece(d, pattern).left) < Len(d.left) \/ Len(Piece(d, pattern).left) = 0
      BY <3>1, PieceKeeps
    <3>3. g[k + 1] = Piece(d, pattern)
      BY <2>2 DEF d
    <3>4. QED  BY <3>1, <3>2, <3>3, Zenon DEF d
  <2> DEFINE x == Len(g[k].left)
             y == Len(g[k + 1].left)
  <2>5. x \in Nat /\ y \in Nat
    <3>1. g[k].left \in Seq(Bytes) /\ g[k + 1].left \in Seq(Bytes)
      BY <2>3, <2>4, Zenon
    <3>2. QED  BY <3>1, LenProperties
  <2>6. (y < x \/ y = 0) /\ x + k <= n
    BY <2>3, <2>4
  <2>7. y + (k + 1) <= n
    <3> HIDE DEF x, y, n
    <3>1. QED  BY <1>3, <2>1, <2>5, <2>6
  <2>8. QED  BY <2>1, <2>4, <2>7
<1>6. n \in S
  <2> HIDE DEF S
  <2>1. n \in 0 .. n
    BY <1>3
  <2>2. QED  BY <1>3, <1>4, <1>5, <2>1, StepByStep
<1>7. g[n].out \in Seq(Bytes) /\ g[n].left \in Seq(Bytes)
  <2>1. g[n] \in D
    BY <1>6
  <2>2. QED  BY <2>1, Zenon
<1>8. g[n].left = <<>>
  <2>1. Len(g[n].left) + n <= n
    BY <1>6
  <2> DEFINE x == Len(g[n].left)
  <2>2. x \in Nat /\ x + n <= n
    BY <1>7, <2>1, LenProperties
  <2>3. x = 0
    <3> HIDE DEF x, n
    <3>1. QED  BY <1>3, <2>2
  <2>4. QED  BY <1>7, <2>3, EmptySeq
<1>9. g[n].out \o <<>> = text
  BY <1>6, <1>8
<1>10. QED  BY <1>2, <1>7, <1>9, ConcatEmptySeq

-----------------------------------------------------------------------------
(* The loop over the lines.                                                 *)

Hit == [number : Nat, text : Seq(Bytes)]
Search == [out : Seq(Hit), line : Nat \ {0}, line_num : Nat]

LEMMA LineEndIs ==
    ASSUME NEW buf \in Seq(Bytes), NEW line \in Nat \ {0}, line <= Len(buf)
    PROVE  /\ LineEnd(buf, line) \in line .. Len(buf) + 1
           /\ \A e \in line .. Len(buf) :
                 buf[e] = Newline /\ (\A i \in line .. e - 1 : buf[i] # Newline)
                    => LineEnd(buf, line) = e
           /\ LineEnd(buf, line) <= Len(buf) => buf[LineEnd(buf, line)] = Newline
<1> DEFINE size == Len(buf)
           T == {i \in line .. size : buf[i] = Newline} \cup {size + 1}
           e0 == LineEnd(buf, line)
<1>1. size \in Nat /\ line \in Nat /\ line > 0 /\ line <= size
  BY LenProperties
<1> HIDE DEF size
<1>2. T \in SUBSET Nat /\ size + 1 \in T /\ T \subseteq line .. size + 1
  BY <1>1
<1>3. e0 = Least(T)
  BY Zenon DEF LineEnd, size
<1> HIDE DEF T, e0
<1>4. e0 \in T /\ \A j \in T : e0 <= j
  <2>1. \E i \in T : \A j \in T : i <= j
    BY <1>2, LeastOf
  <2>2. QED  BY <1>3, <2>1, Zenon DEF Least
<1>5. ASSUME NEW e \in line .. size, buf[e] = Newline, \A i \in line .. e - 1 : buf[i] # Newline
      PROVE  e0 = e
  <2>1. e \in T /\ e \in Nat /\ e < size + 1
    BY <1>1, <1>5 DEF T
  <2>2. e0 <= e /\ e0 \in Nat
    BY <1>2, <1>4, <2>1
  <2>3. e0 \in line .. size /\ buf[e0] = Newline
    BY <1>1, <1>4, <2>1, <2>2 DEF T
  <2>4. QED  BY <1>1, <1>5, <2>1, <2>2, <2>3
<1>6. e0 \in line .. size + 1
  BY <1>2, <1>4
<1>7. e0 <= size => buf[e0] = Newline
  <2>1. e0 <= size => e0 # size + 1
    BY <1>1, <1>6
  <2>2. QED  BY <1>4, <2>1 DEF T
<1>8. QED  BY <1>5, <1>6, <1>7 DEF size, e0

LEMMA GrepLineTyped ==
    ASSUME NEW buf \in Seq(Bytes), NEW pattern \in Seq(Bytes), pattern # <<>>, NEW g \in Search
    PROVE  GrepLine(buf, pattern, g) \in Search
<1> DEFINE eol == LineEnd(buf, g.line)
           text == SubSeq(buf, g.line, eol - 1)
           size == Len(buf)
<1>1. g.out \in Seq(Hit) /\ g.line \in Nat \ {0} /\ g.line_num \in Nat /\ size \in Nat
  <2>1. g.out \in Seq(Hit) /\ g.line \in Nat \ {0} /\ g.line_num \in Nat
    BY Zenon DEF Search
  <2>2. QED  BY <2>1, LenProperties
<1>2. CASE g.line > Len(buf)
  <2>1. GrepLine(buf, pattern, g) = g
    BY <1>2, Zenon DEF GrepLine
  <2>2. QED  BY <2>1
<1>3. CASE ~ g.line > Len(buf)
  <2> DEFINE l == g.line
             o == IF strstr_pos(text, pattern) < 0 THEN g.out
                  ELSE Append(g.out, [number |-> g.line_num, text |-> Highlighted(text, pattern)])
  <2>1. GrepLine(buf, pattern, g) = [out |-> o, line |-> eol + 1, line_num |-> g.line_num + 1]
    BY <1>3, Zenon DEF GrepLine
  <2>2. l \in Nat \ {0} /\ l <= Len(buf)
    BY <1>1, <1>3
  <2>3. eol \in l .. size + 1
    <3> HIDE DEF l
    <3>1. LineEnd(buf, l) \in l .. Len(buf) + 1
      BY <2>2, LineEndIs
    <3>2. QED  BY <3>1 DEF l
  <2>4. \A i \in 1 .. size : buf[i] \in Bytes
    BY ElementOfSeq
  <2> HIDE DEF l, eol, size
  <2>5. text \in Seq(Bytes)
    <3>1. l \in Int /\ eol - 1 \in Int /\ \A i \in l .. eol - 1 : buf[i] \in Bytes
      BY <1>1, <2>2, <2>3, <2>4
    <3>2. SubSeq(buf, l, eol - 1) \in Seq(Bytes)
      BY <3>1, SubSeqProperties
    <3>3. QED  BY <3>2 DEF l
  <2> HIDE DEF text
  <2>6. [number |-> g.line_num, text |-> Highlighted(text, pattern)] \in Hit
    <3>1. Highlighted(text, pattern) \in Seq(Bytes)
      BY <2>5, HighlightedRight
    <3>2. QED  BY <1>1, <3>1, Zenon DEF Hit
  <2>7. o \in Seq(Hit)
    <3>1. Append(g.out, [number |-> g.line_num, text |-> Highlighted(text, pattern)]) \in Seq(Hit)
      BY <1>1, <2>6, AppendProperties
    <3>2. QED  BY <1>1, <3>1, Zenon
  <2> HIDE DEF o
  <2>8. eol + 1 \in Nat \ {0} /\ g.line_num + 1 \in Nat
    BY <1>1, <2>2, <2>3
  <2> DEFINE x == eol + 1
             y == g.line_num + 1
  <2>9. x \in Nat \ {0} /\ y \in Nat /\ GrepLine(buf, pattern, g) = [out |-> o, line |-> x, line_num |-> y]
    BY <2>1, <2>8
  <2> HIDE DEF x, y
  <2>10. [out |-> o, line |-> x, line_num |-> y] \in Search
    BY <2>7, <2>9 DEF Search
  <2>11. QED  BY <2>9, <2>10, Zenon
<1>4. QED  BY <1>2, <1>3

Searches(pattern, buf, g) ==
    /\ g[0] = [out |-> <<>>, line |-> 1, line_num |-> 1]
    /\ \A i \in 1 .. Len(buf) : g[i] = GrepLine(buf, pattern, g[i - 1])
    /\ \A i \in 0 .. Len(buf) : g[i] \in Search
    /\ cmd_grep(pattern, buf) = g[Len(buf)].out

LEMMA GrepDefined ==
    ASSUME NEW buf \in Seq(Bytes), NEW pattern \in Seq(Bytes), pattern # <<>>
    PROVE  \E g : Searches(pattern, buf, g)
<1> DEFINE n == Len(buf)
           b == [out |-> <<>>, line |-> 1, line_num |-> 1]
           F == [x \in Search \X (1 .. n) |-> GrepLine(buf, pattern, x[1])]
<1>1. n \in Nat
  BY LenProperties
<1>2. F \in [Search \X (1 .. n) -> Search]
  <2>1. ASSUME NEW d \in Search PROVE GrepLine(buf, pattern, d) \in Search
    BY GrepLineTyped
  <2>2. QED  BY <2>1
<1>3. b \in Search
  <2>1. <<>> \in Seq(Hit) /\ 1 \in Nat \ {0} /\ 1 \in Nat
    BY EmptySeq
  <2>2. QED  BY <2>1, Zenon DEF Search
<1> HIDE DEF n, b
<1>4. PICK g : Follows(g, n, Search, b, F)
  <2> HIDE DEF F
  <2>1. QED  BY <1>1, <1>2, <1>3, Recursion
<1>5. ASSUME NEW i \in 1 .. n PROVE g[i] = GrepLine(buf, pattern, g[i - 1])
  <2>1. g[i - 1] \in Search /\ g[i] = F[<<g[i - 1], i>>]
    <3> HIDE DEF F
    <3>1. i - 1 \in 0 .. n
      BY <1>1
    <3>2. QED  BY <1>4, <3>1 DEF Follows
  <2>2. QED  BY <2>1
<1>6. g = [k \in 0 .. n |-> IF k = 0 THEN b ELSE GrepLine(buf, pattern, g[k - 1])]
  <2> HIDE DEF F
  <2>1. g = [k \in 0 .. n |-> g[k]]
    BY <1>4 DEF Follows
  <2>2. ASSUME NEW k \in 0 .. n
        PROVE  g[k] = IF k = 0 THEN b ELSE GrepLine(buf, pattern, g[k - 1])
    <3>1. k = 0 \/ k \in 1 .. n
      BY <1>1
    <3>2. QED  BY <1>1, <1>4, <1>5, <3>1 DEF Follows
  <2>3. QED  BY <2>1, <2>2, Zenon
<1> DEFINE after[k \in 0 .. Len(buf)] ==
              IF k = 0 THEN [out |-> <<>>, line |-> 1, line_num |-> 1]
              ELSE GrepLine(buf, pattern, after[k - 1])
<1>7. after = [k \in 0 .. Len(buf) |->
                IF k = 0 THEN [out |-> <<>>, line |-> 1, line_num |-> 1]
                ELSE GrepLine(buf, pattern, after[k - 1])]
  BY <1>6, Zenon DEF n, b
<1>8. cmd_grep(pattern, buf) = after[Len(buf)].out
  BY Zenon DEF cmd_grep
<1> HIDE DEF after
<1>9. after[0] = b /\ \A i \in 1 .. n : after[i] = GrepLine(buf, pattern, after[i - 1])
  <2>1. after[0] = b
    <3>1. 0 \in 0 .. Len(buf)
      BY <1>1 DEF n
    <3>2. QED  BY <1>7, <3>1, Zenon DEF b
  <2>2. ASSUME NEW i \in 1 .. n PROVE after[i] = GrepLine(buf, pattern, after[i - 1])
    <3>1. i \in 0 .. Len(buf) /\ i # 0
      BY <1>1 DEF n
    <3>2. QED  BY <1>7, <3>1, Zenon
  <2>3. QED  BY <2>1, <2>2
<1>10. \A i \in 0 .. n : after[i] \in Search
  <2> DEFINE S == {k \in Nat : after[k] \in Search}
  <2>1. 0 \in S
    BY <1>3, <1>9
  <2>2. ASSUME NEW k \in 0 .. n - 1, k \in S PROVE k + 1 \in S
    <3>1. k \in Nat /\ k + 1 \in Nat /\ k + 1 \in 1 .. n /\ (k + 1) - 1 = k /\ after[k] \in Search
      BY <1>1, <2>2
    <3>2. after[k + 1] = GrepLine(buf, pattern, after[k])
      BY <1>9, <3>1
    <3>3. after[k + 1] \in Search
      BY <3>1, <3>2, GrepLineTyped
    <3>4. QED  BY <3>1, <3>3
  <2>3. \A k \in 0 .. n : k \in S
    <3> HIDE DEF S
    <3>1. QED  BY <1>1, <2>1, <2>2, StepByStep
  <2>4. QED  BY <2>3
<1>11. Searches(pattern, buf, after)
  BY <1>8, <1>9, <1>10 DEF Searches, n, b
<1>12. QED  BY <1>11

LEMMA MatchingIs ==
    ASSUME NEW lines \in Documents, NEW pattern \in Seq(Bytes), pattern # <<>>,
           NEW m \in 1 .. Len(lines)
    PROVE  strstr_pos(lines[m], pattern) < 0 <=> m \notin Matching(lines, pattern)
<1> DEFINE s == lines[m]
           size == Len(s)
           L == Len(pattern)
<1>1. s \in Seq(Bytes) /\ DOMAIN lines = 1 .. Len(lines)
  <2>1. s \in Seq(BYTES) /\ DOMAIN lines = 1 .. Len(lines)
    BY DocumentTyped
  <2>2. QED  BY <2>1, SeqMonotonic DEF Bytes
<1>2. m \in Matching(lines, pattern) <=>
         \E i \in 0 .. size - L : SubSeq(s, i + 1, i + L) = pattern
  BY <1>1 DEF Matching
<1> HIDE DEF s
<1>3. L \in Nat /\ size \in Nat
  BY <1>1, LenProperties
<1>4. \A i : i \in 0 .. size - L <=> i \in Nat /\ i + L <= size
  <2> HIDE DEF L, size
  <2>1. QED  BY <1>3
<1>5. ASSUME NEW i \in Nat
      PROVE  Found(s, pattern, i) <=> i \in 0 .. size - L /\ SubSeq(s, i + 1, i + L) = pattern
  <2>1. CASE i + L <= size
    <3>1. Found(s, pattern, i) <=> SubSeq(s, i + 1, i + Len(pattern)) = pattern
      BY <1>1, <2>1, FoundIs
    <3>2. QED  BY <1>4, <2>1, <3>1
  <2>2. CASE ~ i + L <= size
    BY <1>4, <2>2, Zenon DEF Found
  <2>3. QED  BY <2>1, <2>2
<1>6. strstr_pos(s, pattern) < 0 <=> \A i \in Nat : ~ Found(s, pattern, i)
  BY <1>1, Strstr
<1>7. m \in Matching(lines, pattern) <=> \E i \in Nat : Found(s, pattern, i)
  BY <1>2, <1>4, <1>5
<1>8. QED  BY <1>6, <1>7 DEF s

\* What is shown of the first m lines.
Hits(out, lines, pattern, m) ==
    /\ out \in Seq(Hit)
    /\ {out[i].number : i \in 1 .. Len(out)} = {k \in Matching(lines, pattern) : k <= m}
    /\ \A i \in 1 .. Len(out) : out[i].text = lines[out[i].number] /\ out[i].number <= m
    /\ \A i, j \in 1 .. Len(out) : i < j => out[i].number < out[j].number

LEMMA HitAppended ==
    ASSUME NEW lines, NEW pattern, NEW m \in Nat, NEW out, Hits(out, lines, pattern, m),
           NEW r \in Hit, r.number = m + 1, r.text = lines[m + 1],
           m + 1 \in Matching(lines, pattern), Matching(lines, pattern) \subseteq Nat
    PROVE  Hits(Append(out, r), lines, pattern, m + 1)
<1> DEFINE t == Append(out, r)
           n == Len(out)
<1>1. out \in Seq(Hit) /\ n \in Nat
  <2>1. out \in Seq(Hit)
    BY DEF Hits
  <2>2. QED  BY <2>1, LenProperties
<1>2. t \in Seq(Hit) /\ Len(t) = n + 1 /\ t[n + 1] = r
  BY <1>1, AppendProperties
<1>3. \A i \in 1 .. n : t[i] = out[i]
  BY <1>1, AppendProperties
<1>4. /\ {out[i].number : i \in 1 .. n} = {k \in Matching(lines, pattern) : k <= m}
      /\ \A i \in 1 .. n : out[i].text = lines[out[i].number] /\ out[i].number <= m
      /\ \A i, j \in 1 .. n : i < j => out[i].number < out[j].number
  BY DEF Hits
<1>5. \A i \in 1 .. n : out[i].number \in Nat
  <2>1. ASSUME NEW i \in 1 .. n PROVE out[i].number \in Nat
    <3>1. out[i] \in Hit
      BY <1>1, ElementOfSeq
    <3>2. QED  BY <3>1, Zenon DEF Hit
  <2>2. QED  BY <2>1
<1> HIDE DEF t, n
<1>6. \A i \in 1 .. n + 1 : i \in 1 .. n \/ i = n + 1
  BY <1>1
<1>7. {t[i].number : i \in 1 .. n + 1} = {k \in Matching(lines, pattern) : k <= m + 1}
  <2>1. ASSUME NEW i \in 1 .. n + 1
        PROVE  t[i].number \in Matching(lines, pattern) /\ t[i].number <= m + 1
    <3>1. CASE i \in 1 .. n
      <4>1. t[i].number = out[i].number
        BY <1>3, <3>1
      <4>2. out[i].number \in {out[j].number : j \in 1 .. n}
        BY <3>1
      <4>3. out[i].number \in Matching(lines, pattern) /\ out[i].number <= m /\ out[i].number \in Nat
        BY <1>4, <1>5, <3>1, <4>2
      <4> DEFINE x == out[i].number
      <4>4. x <= m + 1
        <5>1. x \in Nat /\ x <= m
          BY <4>3
        <5> HIDE DEF x
        <5>2. QED  BY <5>1
      <4>5. QED  BY <4>1, <4>3, <4>4
    <3>2. CASE i = n + 1
      BY <1>2, <3>2
    <3>3. QED  BY <1>6, <3>1, <3>2
  <2>2. ASSUME NEW k \in Matching(lines, pattern), k <= m + 1
        PROVE  \E i \in 1 .. n + 1 : t[i].number = k
    <3>1. k \in Nat /\ (k <= m \/ k = m + 1)
      BY <2>2
    <3>2. CASE k <= m
      <4>1. k \in {out[i].number : i \in 1 .. n}
        BY <1>4, <3>2
      <4>2. PICK i \in 1 .. n : out[i].number = k
        BY <4>1
      <4>3. i \in 1 .. n + 1 /\ t[i].number = k
        BY <1>1, <1>3, <4>2
      <4>4. QED  BY <4>3
    <3>3. CASE k = m + 1
      <4>1. n + 1 \in 1 .. n + 1 /\ t[n + 1].number = k
        BY <1>1, <1>2, <3>3
      <4>2. QED  BY <4>1
    <3>4. QED  BY <3>1, <3>2, <3>3
  <2>3. QED  BY <2>1, <2>2
<1>8. ASSUME NEW i \in 1 .. n + 1 PROVE t[i].text = lines[t[i].number] /\ t[i].number <= m + 1
  <2>1. CASE i \in 1 .. n
    <3>1. t[i] = out[i] /\ out[i].text = lines[out[i].number]
      BY <1>3, <1>4, <2>1
    <3> DEFINE x == out[i].number
    <3>2. x <= m /\ x \in Nat
      BY <1>4, <1>5, <2>1
    <3>3. x <= m + 1
      <4> HIDE DEF x
      <4>1. QED  BY <3>2
    <3>4. QED  BY <3>1, <3>3
  <2>2. CASE i = n + 1
    BY <1>2, <2>2
  <2>3. QED  BY <1>6, <2>1, <2>2
<1>9. ASSUME NEW i \in 1 .. n + 1, NEW j \in 1 .. n + 1, i < j PROVE t[i].number < t[j].number
  <2>1. i \in 1 .. n
    BY <1>1, <1>9
  <2>2. t[i] = out[i] /\ out[i].number <= m /\ out[i].number \in Nat
    BY <1>3, <1>4, <1>5, <2>1
  <2>3. CASE j \in 1 .. n
    <3>1. t[j] = out[j] /\ out[i].number < out[j].number
      BY <1>3, <1>4, <1>9, <2>1, <2>3
    <3>2. QED  BY <2>2, <3>1
  <2>4. CASE j = n + 1
    <3> DEFINE x == out[i].number
    <3>1. x \in Nat /\ x <= m /\ t[i].number = x /\ t[j].number = m + 1
      BY <1>2, <2>2, <2>4
    <3>2. x < m + 1
      <4> HIDE DEF x
      <4>1. QED  BY <3>1
    <3>3. QED  BY <3>1, <3>2
  <2>5. QED  BY <1>6, <2>3, <2>4
<1>10. Hits(t, lines, pattern, m + 1)
  BY <1>2, <1>7, <1>8, <1>9 DEF Hits
<1>11. QED  BY <1>10 DEF t

LEMMA HitPassed ==
    ASSUME NEW lines, NEW pattern, NEW m \in Nat, NEW out, Hits(out, lines, pattern, m),
           m + 1 \notin Matching(lines, pattern), Matching(lines, pattern) \subseteq Nat
    PROVE  Hits(out, lines, pattern, m + 1)
<1> DEFINE M == Matching(lines, pattern)
<1>1. {k \in M : k <= m} = {k \in M : k <= m + 1}
  <2> HIDE DEF M
  <2>1. ASSUME NEW k \in M PROVE k <= m <=> k <= m + 1
    <3>1. k \in Nat /\ k # m + 1
      BY DEF M
    <3>2. QED  BY <3>1
  <2>2. QED  BY <2>1
<1>2. out \in Seq(Hit) /\ {out[i].number : i \in 1 .. Len(out)} = {k \in M : k <= m}
  BY DEF Hits
<1>3. ASSUME NEW i \in 1 .. Len(out) PROVE out[i].text = lines[out[i].number] /\ out[i].number <= m + 1
  <2>1. out[i].text = lines[out[i].number] /\ out[i].number <= m
    BY DEF Hits
  <2> DEFINE x == out[i].number
  <2>2. x \in Nat
    <3>1. out[i] \in Hit
      BY <1>2, ElementOfSeq
    <3>2. QED  BY <3>1, Zenon DEF Hit
  <2>3. x <= m
    BY <2>1
  <2>4. x <= m + 1
    <3> HIDE DEF x
    <3>1. QED  BY <2>2, <2>3
  <2>5. QED  BY <2>1, <2>4
<1>4. \A i, j \in 1 .. Len(out) : i < j => out[i].number < out[j].number
  BY DEF Hits
<1> HIDE DEF M
<1>5. {out[i].number : i \in 1 .. Len(out)} = {k \in M : k <= m + 1}
  BY <1>1, <1>2, Zenon
<1>6. QED  BY <1>2, <1>3, <1>4, <1>5 DEF Hits, M

\* Where the search is, behind the first m lines.
Searched(g, lines, pattern, ends, m) ==
    /\ g.line = ends[m] + 1 /\ g.line_num = m + 1
    /\ Hits(g.out, lines, pattern, m)

\* The next line of the buffer and its end, and the end of them all.
LineAt(buf, lines, ends, m) ==
    /\ ends[m] \in Nat /\ ends[m + 1] = ends[m] + (Len(lines[m + 1]) + 1)
    /\ ends[m] + 1 <= Len(buf) /\ LineEnd(buf, ends[m] + 1) = ends[m + 1]
    /\ Found(buf, lines[m + 1], ends[m])

LinesIn(buf, lines, ends) ==
    /\ ends[0] = 0 /\ Len(lines) <= Len(buf)
    /\ ends[Len(lines)] \in Nat /\ Len(buf) <= ends[Len(lines)]
    /\ \A m \in 0 .. Len(lines) - 1 : LineAt(buf, lines, ends, m)

LEMMA LinesOfText ==
    ASSUME NEW lines \in Documents, NEW ends, Layout(lines, Text(lines), ends)
    PROVE  LinesIn(Text(lines), lines, ends)
<1> DEFINE text == Text(lines)
<1>1. /\ text \in Seq(Bytes) /\ Len(lines) <= Len(text) /\ Len(text) \in Nat
      /\ ends[0] = 0 /\ ends[Len(lines)] = Len(text)
  BY TextEnds, EndsTyped
<1> HIDE DEF text
<1>2. ASSUME NEW m \in 0 .. Len(lines) - 1 PROVE LineAt(text, lines, ends, m)
  <2> DEFINE l == lines[m + 1]
             x == ends[m]
             y == ends[m + 1]
             L == Len(l)
             size == Len(text)
  <2>1. Layout(lines, text, ends)
    BY DEF text
  <2>2. L \in Nat /\ x \in Nat /\ y \in Nat /\ y <= size /\ y = x + (L + 1) /\ size \in Nat
    BY <1>1, <2>1, LineTyped
  <2>3. /\ \A j \in 1 .. L : text[x + j] = l[j] /\ l[j] \in BYTES
        /\ text[y] = Newline
    <3>1. Spelled(lines, text, ends, m)
      BY <2>1, LineBytes
    <3>2. QED  BY <3>1 DEF Spelled
  <2> HIDE DEF l, x, y, L, size
  <2>4. ASSUME NEW i \in x + 1 .. y - 1 PROVE text[i] # Newline
    <3> DEFINE j == i - x
    <3>1. j \in 1 .. L /\ x + j = i
      BY <2>2
    <3> HIDE DEF j
    <3>2. text[x + j] \in BYTES
      BY <2>3, <3>1
    <3>3. QED  BY <3>1, <3>2, TextAssumption
  <2>5. LineEnd(text, x + 1) = y
    <3> DEFINE b == x + 1
    <3>1. b \in Nat \ {0} /\ b <= Len(text) /\ y \in b .. Len(text)
          /\ (\A i \in b .. y - 1 : text[i] # Newline)
      BY <2>2, <2>4 DEF size
    <3> HIDE DEF b
    <3>2. \A e \in b .. Len(text) :
             text[e] = Newline /\ (\A i \in b .. e - 1 : text[i] # Newline) => LineEnd(text, b) = e
      BY <1>1, <3>1, LineEndIs
    <3>3. LineEnd(text, b) = y
      BY <2>3, <3>1, <3>2
    <3>4. QED  BY <3>3 DEF b
  <2>6. x + 1 <= Len(text) /\ x + Len(l) <= Len(text)
    BY <2>2 DEF L, size
  <2>7. Found(text, l, x)
    BY <2>2, <2>3, <2>6 DEF Found, L
  <2>8. QED  BY <2>2, <2>5, <2>6, <2>7 DEF LineAt, l, x, y, L
<1>3. LinesIn(text, lines, ends)
  BY <1>1, <1>2 DEF LinesIn
<1>4. QED  BY <1>3 DEF text

LEMMA LinesOfCut ==
    ASSUME NEW lines \in Documents, NEW ends, Layout(lines, Text(lines), ends),
           NEW cut \in Seq(Bytes), Unended(lines, Text(lines), cut)
    PROVE  LinesIn(cut, lines, ends)
<1> DEFINE text == Text(lines)
           n == Len(lines)
<1>1. /\ text \in Seq(Bytes) /\ Len(text) \in Nat /\ n \in Nat
      /\ ends[0] = 0 /\ ends[n] = Len(text)
  BY TextEnds, EndsTyped
<1>2. /\ n # 0 /\ Len(lines[n]) # 0 /\ Len(text) = Len(cut) + 1 /\ n <= Len(cut)
      /\ \A i \in 1 .. Len(cut) : cut[i] = text[i]
      /\ Len(cut) \in Nat
  BY LenProperties DEF Unended
<1> HIDE DEF text
<1>3. ASSUME NEW m \in 0 .. Len(lines) - 1 PROVE LineAt(cut, lines, ends, m)
  <2> DEFINE l == lines[m + 1]
             x == ends[m]
             y == ends[m + 1]
             L == Len(l)
             size == Len(cut)
  <2>1. LineAt(text, lines, ends, m)
    BY LinesOfText DEF LinesIn, text
  <2>2. Layout(lines, text, ends)
    BY DEF text
  <2>3. /\ L \in Nat /\ x \in Nat /\ y \in Nat /\ y <= size + 1 /\ y = x + (L + 1) /\ size \in Nat
        /\ m \in Nat /\ m + 1 \in 0 .. Len(lines)
    <3>1. /\ L \in Nat /\ x \in Nat /\ y \in Nat /\ y <= Len(text) /\ y = x + (L + 1)
          /\ m + 1 \in 0 .. Len(lines)
      BY <2>2, LineTyped
    <3>2. m \in Nat
      BY <1>1
    <3> HIDE DEF L, x, y
    <3>3. QED  BY <1>2, <3>1, <3>2
  <2>4. m + 1 = n => L # 0
    BY <1>2
  <2>5. /\ \A j \in 1 .. L : text[x + j] = l[j] /\ l[j] \in BYTES
        /\ text[y] = Newline
    <3>1. Spelled(lines, text, ends, m)
      BY <2>2, LineBytes
    <3>2. QED  BY <3>1 DEF Spelled
  <2>6. m + 1 # n => y <= size
    <3>1. Len(lines) \in m + 1 .. Len(lines)
      BY <1>1, <2>3
    <3>2. ends[m + 1] + (Len(lines) - (m + 1)) <= ends[Len(lines)]
      BY <2>2, <2>3, <3>1, EndsGrow
    <3>3. y + (n - (m + 1)) <= size + 1
      BY <1>1, <1>2, <3>2
    <3>4. m + 1 <= n
      BY <2>3
    <3> HIDE DEF y, n, size
    <3>5. QED  BY <1>1, <2>3, <3>3, <3>4
  <2>7. \A i \in 1 .. size : cut[i] = text[i]
    BY <1>2
  <2> HIDE DEF l, x, y, L, size, n
  <2>8. x + 1 <= size /\ y - 1 <= size /\ x + L = y - 1
    BY <2>3, <2>4, <2>6
  <2>9. ASSUME NEW j \in 1 .. L PROVE cut[x + j] = l[j] /\ l[j] \in BYTES
    <3>1. x + j \in 1 .. size
      BY <2>3, <2>8
    <3>2. QED  BY <2>5, <2>7, <3>1
  <2>10. ASSUME NEW i \in x + 1 .. y - 1 PROVE cut[i] # Newline
    <3> DEFINE j == i - x
    <3>1. j \in 1 .. L /\ x + j = i
      BY <2>3
    <3> HIDE DEF j
    <3>2. cut[x + j] \in BYTES
      BY <2>9, <3>1
    <3>3. QED  BY <3>1, <3>2, TextAssumption
  <2>11. LineEnd(cut, x + 1) = y
    <3> DEFINE b == x + 1
               e0 == LineEnd(cut, b)
    <3>1. b \in Nat \ {0} /\ b <= Len(cut)
      BY <2>3, <2>8 DEF size
    <3> HIDE DEF b
    <3>2. /\ e0 \in b .. Len(cut) + 1
          /\ \A e \in b .. Len(cut) :
                cut[e] = Newline /\ (\A i \in b .. e - 1 : cut[i] # Newline) => e0 = e
          /\ e0 <= Len(cut) => cut[e0] = Newline
      BY <3>1, LineEndIs
    <3> HIDE DEF e0
    <3>3. CASE y <= size
      <4>1. y \in b .. Len(cut) /\ y \in 1 .. size
        BY <2>3, <3>3 DEF size, b
      <4>2. cut[y] = Newline /\ \A i \in b .. y - 1 : cut[i] # Newline
        BY <2>5, <2>7, <2>10, <4>1 DEF b
      <4>3. QED  BY <3>2, <4>1, <4>2 DEF b, e0
    <3>4. CASE ~ y <= size
      <4>1. y = size + 1
        BY <2>3, <3>4
      <4>2. ASSUME e0 # y PROVE FALSE
        <5>1. e0 <= Len(cut) /\ e0 \in x + 1 .. y - 1
          BY <2>3, <3>2, <4>1, <4>2 DEF b, size
        <5>2. QED  BY <2>10, <3>2, <5>1
      <4>3. QED  BY <4>2 DEF b, e0
    <3>5. QED  BY <3>3, <3>4
  <2>12. Found(cut, l, x)
    <3>1. x + Len(l) <= Len(cut)
      BY <2>3, <2>8 DEF L, size
    <3>2. QED  BY <2>3, <2>9, <3>1 DEF Found, L
  <2>13. QED  BY <2>3, <2>8, <2>11, <2>12 DEF LineAt, l, x, y, L, size
<1>4. Len(cut) <= ends[Len(lines)] /\ ends[Len(lines)] \in Nat
  BY <1>1, <1>2
<1>5. QED  BY <1>1, <1>2, <1>3, <1>4 DEF LinesIn

LEMMA GrepOver ==
    ASSUME NEW lines \in Documents, NEW buf \in Seq(Bytes), NEW ends, LinesIn(buf, lines, ends),
           NEW pattern, NEW g, Searched(g, lines, pattern, ends, Len(lines))
    PROVE  GrepLine(buf, pattern, g) = g
<1>1. /\ ends[Len(lines)] \in Nat /\ Len(buf) <= ends[Len(lines)] /\ Len(buf) \in Nat
      /\ g.line = ends[Len(lines)] + 1
  BY LenProperties DEF LinesIn, Searched
<1> DEFINE x == ends[Len(lines)]
<1>2. x + 1 > Len(buf)
  <2>1. x \in Nat /\ Len(buf) <= x
    BY <1>1
  <2> HIDE DEF x
  <2>2. QED  BY <1>1, <2>1
<1>3. g.line > Len(buf)
  BY <1>1, <1>2
<1>4. QED  BY <1>3, Zenon DEF GrepLine

LEMMA GrepNext ==
    ASSUME NEW lines \in Documents, NEW text \in Seq(Bytes), NEW ends,
           NEW pattern \in Seq(Bytes), pattern # <<>>,
           NEW m \in 0 .. Len(lines) - 1, LineAt(text, lines, ends, m),
           NEW g \in Search, Searched(g, lines, pattern, ends, m)
    PROVE  Searched(GrepLine(text, pattern, g), lines, pattern, ends, m + 1)
<1> DEFINE l == lines[m + 1]
           x == ends[m]
           y == ends[m + 1]
<1>1. /\ m + 1 \in 1 .. Len(lines) /\ Len(lines) \in Nat /\ m \in Nat
      /\ l \in Seq(BYTES) /\ Len(l) \in Nat
  <2>1. Len(lines) \in Nat
    BY DocumentTyped
  <2>2. m + 1 \in 1 .. Len(lines) /\ m \in Nat
    BY <2>1
  <2>3. QED  BY <2>1, <2>2, DocumentTyped
<1>2. /\ x \in Nat /\ y = x + (Len(l) + 1) /\ x + 1 <= Len(text)
      /\ LineEnd(text, x + 1) = y /\ Found(text, l, x)
  BY DEF LineAt
<1>3. g.line = x + 1 /\ g.line_num = m + 1 /\ Hits(g.out, lines, pattern, m)
  BY DEF Searched
<1>4. l \in Seq(Bytes)
  BY <1>1, SeqMonotonic DEF Bytes
<1>5. Len(text) \in Nat /\ x + Len(l) <= Len(text)
  BY <1>2, LenProperties DEF Found
<1> HIDE DEF l, x, y
<1>6. SubSeq(text, x + 1, y - 1) = l
  <2>1. Found(text, l, x) <=> SubSeq(text, x + 1, x + Len(l)) = l
    BY <1>2, <1>4, <1>5, FoundIs
  <2>2. y - 1 = x + Len(l)
    BY <1>1, <1>2
  <2>3. QED  BY <1>2, <2>1, <2>2
<1> DEFINE r == [number |-> g.line_num, text |-> Highlighted(l, pattern)]
           o == IF strstr_pos(l, pattern) < 0 THEN g.out ELSE Append(g.out, r)
<1>7. GrepLine(text, pattern, g) = [out |-> o, line |-> y + 1, line_num |-> g.line_num + 1]
  <2>1. ~ g.line > Len(text)
    BY <1>2, <1>3, <1>5
  <2>2. LineEnd(text, g.line) = y /\ SubSeq(text, g.line, y - 1) = l
    BY <1>2, <1>3, <1>6
  <2>3. QED  BY <2>1, <2>2, Zenon DEF GrepLine
<1>8. r \in Hit /\ r.number = m + 1 /\ r.text = l
  <2>1. Highlighted(l, pattern) = l
    BY <1>4, HighlightedRight
  <2>2. r = [number |-> m + 1, text |-> l]
    BY <1>3, <2>1
  <2>3. m + 1 \in Nat
    BY <1>1
  <2> DEFINE k == m + 1
  <2> HIDE DEF k
  <2>4. [number |-> k, text |-> l] \in Hit /\ [number |-> k, text |-> l].number = k
        /\ [number |-> k, text |-> l].text = l
    BY <1>4, <2>3 DEF Hit, k
  <2>5. QED  BY <2>2, <2>4 DEF k
<1> HIDE DEF r
<1>9. strstr_pos(l, pattern) < 0 <=> m + 1 \notin Matching(lines, pattern)
  <2>1. strstr_pos(lines[m + 1], pattern) < 0 <=> m + 1 \notin Matching(lines, pattern)
    <3> DEFINE k == m + 1
    <3>1. k \in 1 .. Len(lines)
      BY <1>1
    <3> HIDE DEF k
    <3>2. strstr_pos(lines[k], pattern) < 0 <=> k \notin Matching(lines, pattern)
      BY <3>1, MatchingIs
    <3>3. QED  BY <3>2 DEF k
  <2>2. QED  BY <2>1 DEF l
<1>10. Matching(lines, pattern) \subseteq Nat
  <2>1. Matching(lines, pattern) \subseteq DOMAIN lines /\ DOMAIN lines = 1 .. Len(lines)
    BY DocumentTyped, Zenon DEF Matching
  <2>2. QED  BY <1>1, <2>1
<1>11. Hits(o, lines, pattern, m + 1)
  <2>1. CASE strstr_pos(l, pattern) < 0
    BY <1>1, <1>3, <1>9, <1>10, <2>1, HitPassed
  <2>2. CASE ~ strstr_pos(l, pattern) < 0
    <3>1. Hits(Append(g.out, r), lines, pattern, m + 1)
      BY <1>1, <1>3, <1>8, <1>9, <1>10, <2>2, HitAppended DEF l
    <3>2. QED  BY <2>2, <3>1
  <2>3. QED  BY <2>1, <2>2
<1> HIDE DEF o
<1>12. QED
  <2>1. /\ GrepLine(text, pattern, g).line = y + 1
        /\ GrepLine(text, pattern, g).line_num = g.line_num + 1
        /\ GrepLine(text, pattern, g).out = o
    BY <1>7
  <2>2. QED  BY <1>3, <1>11, <2>1 DEF Searched, y

LEMMA GrepRightOf ==
    ASSUME NEW lines \in Documents, NEW text \in Seq(Bytes), NEW ends,
           LinesIn(text, lines, ends), NEW pattern \in Seq(Bytes), pattern # <<>>
    PROVE  GrepRight(cmd_grep(pattern, text), lines, pattern)
<1> DEFINE size == Len(text)
           n == Len(lines)
<1>1. /\ ends[0] = 0
      /\ \A m \in 0 .. n - 1 : LineAt(text, lines, ends, m)
  BY DEF LinesIn
<1>2. PICK g : Searches(pattern, text, g)
  BY GrepDefined
<1>4. size \in Nat /\ n \in Nat /\ n <= size
  BY DocumentTyped, LenProperties DEF LinesIn
<1>5. /\ g[0] = [out |-> <<>>, line |-> 1, line_num |-> 1]
      /\ \A i \in 1 .. size : g[i] = GrepLine(text, pattern, g[i - 1])
      /\ \A i \in 0 .. size : g[i] \in Search
      /\ cmd_grep(pattern, text) = g[size].out
  BY <1>2, Zenon DEF Searches
<1> DEFINE S == {k \in Nat : \E m \in 0 .. n : (m = k \/ m = n) /\ Searched(g[k], lines, pattern, ends, m)}
<1>6. 0 \in S
  <2>1. ends[0] = 0 /\ 0 \in 0 .. n
    BY <1>1, <1>4
  <2>2. g[0].line = 0 + 1 /\ g[0].line_num = 0 + 1 /\ g[0].out = <<>>
    BY <1>5
  <2>3. Hits(<<>>, lines, pattern, 0)
    <3>1. <<>> \in Seq(Hit) /\ Len(<<>>) = 0
      BY EmptySeq
    <3>2. Matching(lines, pattern) \subseteq DOMAIN lines /\ DOMAIN lines = 1 .. n
      BY DocumentTyped, Zenon DEF Matching
    <3>3. {k \in Matching(lines, pattern) : k <= 0} = {}
      BY <1>4, <3>2
    <3>4. \A i \in 1 .. 0 : FALSE
      OBVIOUS
    <3>5. QED  BY <3>1, <3>3, <3>4 DEF Hits
  <2>4. Searched(g[0], lines, pattern, ends, 0)
    BY <2>1, <2>2, <2>3 DEF Searched
  <2>5. QED  BY <2>1, <2>4
<1>7. ASSUME NEW k \in 0 .. size - 1, k \in S PROVE k + 1 \in S
  <2>1. PICK m \in 0 .. n : (m = k \/ m = n) /\ Searched(g[k], lines, pattern, ends, m)
    BY <1>7
  <2>2. /\ k \in Nat /\ k \in 0 .. size /\ k + 1 \in Nat /\ k + 1 \in 1 .. size /\ (k + 1) - 1 = k
    BY <1>4
  <2>3. g[k + 1] = GrepLine(text, pattern, g[k]) /\ g[k] \in Search
    BY <1>5, <2>2
  <2>4. CASE m = n
    <3>1. Searched(g[k], lines, pattern, ends, Len(lines))
      BY <2>1, <2>4
    <3>2. GrepLine(text, pattern, g[k]) = g[k]
      BY <3>1, GrepOver
    <3>3. n \in 0 .. n /\ Searched(g[k + 1], lines, pattern, ends, n)
      BY <1>4, <2>3, <3>1, <3>2
    <3>4. QED  BY <2>2, <3>3
  <2>5. CASE m # n
    <3>1. m = k /\ m \in 0 .. Len(lines) - 1 /\ m + 1 \in 0 .. n
      BY <1>4, <2>1, <2>5
    <3>2. Searched(GrepLine(text, pattern, g[k]), lines, pattern, ends, m + 1)
      BY <1>1, <2>1, <2>3, <3>1, GrepNext
    <3>3. Searched(g[k + 1], lines, pattern, ends, m + 1) /\ m + 1 = k + 1
      BY <2>3, <3>1, <3>2
    <3>4. QED  BY <2>2, <3>1, <3>3
  <2>6. QED  BY <2>4, <2>5
<1>8. size \in S
  <2> HIDE DEF S, size
  <2>1. size \in 0 .. size
    BY <1>4
  <2>2. QED  BY <1>4, <1>6, <1>7, <2>1, StepByStep
<1>9. Searched(g[size], lines, pattern, ends, n)
  <2>1. PICK m \in 0 .. n : (m = size \/ m = n) /\ Searched(g[size], lines, pattern, ends, m)
    BY <1>8
  <2>2. m = n
    <3> HIDE DEF size, n
    <3>1. QED  BY <1>4, <2>1
  <2>3. QED  BY <2>1, <2>2
<1> DEFINE out == g[size].out
<1>10. Hits(out, lines, pattern, n)
  BY <1>9 DEF Searched
<1> HIDE DEF out
<1>11. out \in Seq(Hit) /\ DOMAIN out = 1 .. Len(out)
  <2>1. out \in Seq(Hit)
    BY <1>10 DEF Hits
  <2>2. QED  BY <2>1, LenProperties
<1>12. {k \in Matching(lines, pattern) : k <= n} = Matching(lines, pattern)
  <2>1. Matching(lines, pattern) \subseteq DOMAIN lines /\ DOMAIN lines = 1 .. n
    BY DocumentTyped, Zenon DEF Matching
  <2>2. QED  BY <1>4, <2>1
<1>13. /\ {out[i].number : i \in DOMAIN out} = Matching(lines, pattern)
       /\ \A i \in DOMAIN out : out[i].text = lines[out[i].number]
       /\ \A i, j \in DOMAIN out : i < j => out[i].number < out[j].number
  BY <1>10, <1>11, <1>12, Zenon DEF Hits
<1>14. GrepRight(out, lines, pattern)
  BY <1>13, Zenon DEF GrepRight
<1>15. QED  BY <1>5, <1>14 DEF out

\* A text that has all its newlines.
LEMMA EndedRight ==
    ASSUME NEW lines \in Documents, NEW pattern \in Seq(Bytes) \ {<<>>},
           NEW d, d = [lines |-> lines, ended |-> TRUE]
    PROVE  ShownRight(Shown(Content(d), pattern), d, pattern)
<1> DEFINE text == Text(lines)
           s == Shown(text, pattern)
<1>1. text \in Seq(Bytes)
  BY TextLayout
<1>2. PICK ends : Layout(lines, text, ends)
  BY TextLayout
<1>3. d.lines = lines /\ d.ended = TRUE /\ Content(d) = text
  BY DEF Content
<1>4. GrepRight(cmd_grep(pattern, text), lines, pattern)
  BY <1>1, <1>2, LinesOfText, GrepRightOf
<1>5. cmd_head(text) = Text(FirstLines(lines)) /\ cmd_tail(text) = Text(LastLines(lines, LINES))
  BY HeadOfText, TailOfText
<1> HIDE DEF text
<1>6. cmd_wc(text) = [lines |-> Len(lines), words |-> Cardinality(WordStarts(text)),
                      bytes |-> Len(text)]
  BY <1>1, <1>2, TextCounted
<1>7. /\ s.grep = cmd_grep(pattern, text) /\ s.wc = cmd_wc(text)
      /\ s.head = cmd_head(text) /\ s.tail = cmd_tail(text)
  BY DEF Shown
<1> HIDE DEF s
<1>8. WcRight(s.wc, d)
  BY <1>3, <1>6, <1>7, Zenon DEF WcRight
<1>9. HeadRight(s.head, d) /\ TailRight(s.tail, d)
  BY <1>3, <1>5, <1>7, Zenon DEF HeadRight, TailRight, text
<1>10. ShownRight(s, d, pattern)
  BY <1>3, <1>4, <1>7, <1>8, <1>9, Zenon DEF ShownRight
<1>11. QED  BY <1>3, <1>10 DEF s

\* One without the last.
LEMMA CutUnended ==
    ASSUME NEW lines \in Documents, lines # <<>>, lines[Len(lines)] # <<>>
    PROVE  Cut(Text(lines)) \in Seq(Bytes) /\ Unended(lines, Text(lines), Cut(Text(lines)))
<1> DEFINE text == Text(lines)
           cut == Cut(text)
           n == Len(lines)
<1>1. text \in Seq(Bytes) /\ Len(text) \in Nat /\ n \in Nat
  BY TextEnds
<1>2. PICK ends : Layout(lines, text, ends)
  BY TextLayout
<1>3. n # 0
  BY EmptySeq DEF Documents
<1>4. lines[n] \in Seq(BYTES) /\ Len(lines[n]) \in Nat
  <2>1. n \in 1 .. Len(lines)
    BY <1>1, <1>3
  <2>2. QED  BY <2>1, DocumentTyped
<1>5. Len(lines[n]) # 0
  BY <1>4, EmptySeq
<1> HIDE DEF text, n
<1>6. PICK m \in 0 .. Len(lines) - 1 : m + 1 = n
  <2>1. n - 1 \in 0 .. Len(lines) - 1 /\ (n - 1) + 1 = n
    BY <1>1, <1>3 DEF n
  <2>2. QED  BY <2>1
<1> DEFINE x == ends[m]
           L == Len(lines[m + 1])
           size == Len(text) - 1
<1>7. x \in Nat /\ L \in Nat /\ L # 0 /\ ends[m + 1] = x + (L + 1) /\ ends[m + 1] = Len(text)
  <2>1. x \in Nat /\ L \in Nat /\ ends[m + 1] = x + (L + 1)
    BY <1>2, LineTyped
  <2>2. ends[n] = Len(text)
    BY <1>2, EndsTyped DEF n
  <2>3. QED  BY <1>5, <1>6, <2>1, <2>2
<1>8. /\ \A j \in 1 .. L : text[x + j] = lines[m + 1][j] /\ lines[m + 1][j] \in BYTES
      /\ text[ends[m + 1]] = Newline
  <2>1. Spelled(lines, text, ends, m)
    BY <1>2, LineBytes
  <2>2. QED  BY <2>1 DEF Spelled
<1>9. m <= x /\ m \in Nat
  <2>1. 0 \in 0 .. Len(lines) /\ m \in 0 .. Len(lines) /\ m \in Nat
    BY <1>1 DEF n
  <2>2. ends[0] + (m - 0) <= ends[m] /\ ends[0] = 0
    BY <1>2, <2>1, EndsGrow, EndsTyped
  <2> HIDE DEF x
  <2>3. 0 + (m - 0) <= x
    BY <2>2 DEF x
  <2>4. QED  BY <2>1, <2>3
<1> HIDE DEF x, L
<1>10. size = x + L /\ size \in Nat /\ size + 1 = Len(text) /\ n <= size
  BY <1>1, <1>6, <1>7, <1>9
<1> HIDE DEF size
<1>11. cut \in Seq(Bytes) /\ Len(cut) = size /\ \A i \in 1 .. size : cut[i] = text[i]
  <2>1. cut = SubSeq(text, 1, size)
    BY DEF Cut, size
  <2>2. \A i \in 1 .. size : text[i] \in Bytes
    <3>1. \A i \in 1 .. size : i \in 1 .. Len(text)
      BY <1>10
    <3>2. QED  BY <1>1, <3>1, ElementOfSeq
  <2>3. /\ SubSeq(text, 1, size) \in Seq(Bytes)
        /\ Len(SubSeq(text, 1, size)) = IF 1 <= size THEN size - 1 + 1 ELSE 0
        /\ \A i \in 1 .. size - 1 + 1 : SubSeq(text, 1, size)[i] = text[1 + i - 1]
    <3>1. 1 \in Int /\ size \in Int
      BY <1>10
    <3>2. QED  BY <2>2, <3>1, SubSeqProperties
  <2> HIDE DEF cut
  <2>4. Len(cut) = size
    BY <1>10, <2>1, <2>3
  <2>5. ASSUME NEW i \in 1 .. size PROVE cut[i] = text[i]
    <3>1. i \in 1 .. size - 1 + 1 /\ 1 + i - 1 = i
      BY <1>10
    <3>2. QED  BY <2>1, <2>3, <3>1
  <2>6. QED  BY <2>1, <2>3, <2>4, <2>5
<1> HIDE DEF cut
<1>12. cut[Len(cut)] # Newline
  <2>1. L \in 1 .. L /\ size \in 1 .. size
    BY <1>7, <1>10
  <2>2. text[x + L] \in BYTES
    BY <1>8, <2>1
  <2>3. cut[Len(cut)] \in BYTES
    BY <1>10, <1>11, <2>1, <2>2
  <2>4. QED  BY <2>3, TextAssumption
<1>13. text[Len(text)] = Newline
  BY <1>7, <1>8
<1>14. Unended(lines, text, cut)
  BY <1>3, <1>5, <1>10, <1>11, <1>12, <1>13 DEF Unended, n
<1>15. QED  BY <1>11, <1>14 DEF text, cut

LEMMA UnendedRight ==
    ASSUME NEW lines \in Documents, lines # <<>>, lines[Len(lines)] # <<>>,
           NEW pattern \in Seq(Bytes) \ {<<>>},
           NEW d, d = [lines |-> lines, ended |-> FALSE]
    PROVE  ShownRight(Shown(Content(d), pattern), d, pattern)
<1> DEFINE text == Text(lines)
           cut == Cut(text)
           s == Shown(cut, pattern)
<1>1. text \in Seq(Bytes)
  BY TextLayout
<1>2. PICK ends : Layout(lines, text, ends)
  BY TextLayout
<1>3. d.lines = lines /\ d.ended = FALSE /\ Content(d) = cut
  BY DEF Content, Cut
<1>4. cut \in Seq(Bytes) /\ Unended(lines, text, cut)
  BY CutUnended
<1> HIDE DEF cut
<1>5. GrepRight(cmd_grep(pattern, cut), lines, pattern)
  BY <1>2, <1>4, LinesOfCut, GrepRightOf
<1>6. /\ cmd_head(cut) = IF Len(lines) <= LINES THEN Text(FirstLines(lines))
                         ELSE Append(Text(FirstLines(lines)), Newline)
      /\ cmd_tail(cut) = Text(LastLines(lines, LINES + 1))
  BY <1>4, HeadOfCut, TailOfCut
<1> HIDE DEF text
<1>7. cmd_wc(cut) = [lines |-> Len(lines) - 1, words |-> Cardinality(WordStarts(cut)),
                     bytes |-> Len(cut)]
  BY <1>1, <1>2, <1>4, CutWords
<1>8. /\ s.grep = cmd_grep(pattern, cut) /\ s.wc = cmd_wc(cut)
      /\ s.head = cmd_head(cut) /\ s.tail = cmd_tail(cut)
  BY DEF Shown
<1> HIDE DEF s
<1>9. WcRight(s.wc, d)
  BY <1>3, <1>7, <1>8, Zenon DEF WcRight
<1>10. HeadRight(s.head, d) /\ TailRight(s.tail, d)
  BY <1>3, <1>6, <1>8, Zenon DEF HeadRight, TailRight
<1>11. ShownRight(s, d, pattern)
  BY <1>3, <1>5, <1>8, <1>9, <1>10, Zenon DEF ShownRight
<1>12. QED  BY <1>3, <1>11 DEF s

(* Of any text, one that ends in a newline or, as `write' leaves it, one    *)
(* that does not: grep shows the lines that hold the pattern, whole, once   *)
(* each and in order; wc counts newlines, words and bytes; head shows the   *)
(* first lines; and tail the last ones, one more than it is to (against     *)
(* shell.c:319) of a text that does not end in a newline.                   *)
THEOREM TextRight ==
    ASSUME NEW d, Readable(d), NEW pattern \in Seq(BYTES) \ {<<>>}
    PROVE  ShownRight(Shown(Content(d), pattern), d, pattern)
<1>1. pattern \in Seq(Bytes) \ {<<>>}
  BY SeqMonotonic DEF Bytes
<1>2. PICK lines \in Documents, ended \in BOOLEAN : d = [lines |-> lines, ended |-> ended]
  BY DEF Readable, Documents
<1>3. ended \/ (lines # <<>> /\ lines[Len(lines)] # <<>>)
  <2>1. d.lines = lines /\ d.ended = ended
    BY <1>2
  <2>2. d.ended \/ (d.lines # <<>> /\ d.lines[Len(d.lines)] # <<>>)
    BY DEF Readable
  <2>3. QED  BY <2>1, <2>2
<1>4. CASE ended
  <2>1. d = [lines |-> lines, ended |-> TRUE]
    BY <1>2, <1>4
  <2>2. QED  BY <1>1, <2>1, EndedRight
<1>5. CASE ~ ended
  <2>1. d = [lines |-> lines, ended |-> FALSE]
    BY <1>2, <1>5
  <2>2. QED  BY <1>1, <1>3, <1>5, <2>1, UnendedRight
<1>6. QED  BY <1>4, <1>5

-----------------------------------------------------------------------------
(* The sessions that ask.                                                   *)

(* With the questions, the commands that keep state are what they are       *)
(* without: what is proved of Shell holds here too.                         *)
THEOREM AnswersImplementShell == AnswersSpec => ShellSpec
<1>1. AnswersInit => ShellInit
  BY DEF AnswersInit
<1>2. [AnswersNext]_<<shell_vars, questions>> => [ShellNext]_shell_vars
  BY DEF AnswersNext
<1>3. QED  BY <1>1, <1>2, PTL DEF AnswersSpec, ShellSpec

\* A question that is answered is answered right.
LEMMA CalculateRight ==
    ASSUME NEW e \in EXPRESSIONS, Calculate(e) PROVE AnswersRight'
<1>1. cmd_calc(e.tokens) = Outcome(e.means)
  BY QuestionsAssumption, CalcRight
<1>2. asked' = [is |-> "calc", expression |-> e] /\ answer' = cmd_calc(e.tokens)
  BY DEF Calculate
<1>3. asked'.is = "calc" /\ asked'.expression = e /\ asked'.is # "text"
  BY <1>2
<1>4. QED  BY <1>1, <1>2, <1>3 DEF AnswersRight

LEMMA ReadRight ==
    ASSUME NEW d \in DOCUMENTS, NEW p \in PATTERNS, Read(d, p) PROVE AnswersRight'
<1>1. Readable(d) /\ p \in Seq(BYTES) \ {<<>>}
  BY QuestionsAssumption, Zenon
<1>2. ShownRight(Shown(Content(d), p), d, p)
  BY <1>1, TextRight
<1>3. asked' = [is |-> "text", document |-> d, pattern |-> p] /\ answer' = Shown(Content(d), p)
  BY DEF Read
<1>4. asked'.is = "text" /\ asked'.document = d /\ asked'.pattern = p /\ asked'.is # "calc"
  BY <1>3
<1>5. QED  BY <1>2, <1>3, <1>4 DEF AnswersRight

(* calc prints what the expression means, an error where something is       *)
(* divided by zero, or panics where the code's division does; and grep, wc, *)
(* head and tail show of the text what TextRight says: for well-formed      *)
(* expressions of any depth, ints of any width, texts and patterns of any   *)
(* length, and any number of lines that head and tail show.                 *)
THEOREM AnswersRightAlways == AnswersSpec => []AnswersRight
<1>1. AnswersInit => AnswersRight
  <2>1. NoQuestion.is # "calc" /\ NoQuestion.is # "text"
    BY DEF NoQuestion
  <2>2. QED  BY <2>1 DEF AnswersInit, AnswersRight
<1>2. AnswersRight /\ [AnswersNext]_<<shell_vars, questions>> => AnswersRight'
  <2> SUFFICES ASSUME AnswersRight, [AnswersNext]_<<shell_vars, questions>>
               PROVE  AnswersRight'
    OBVIOUS
  <2>1. ASSUME UNCHANGED questions PROVE AnswersRight'
    BY <2>1 DEF questions, AnswersRight
  <2>2. ASSUME NEW e \in EXPRESSIONS, Calculate(e) PROVE AnswersRight'
    BY <2>2, CalculateRight
  <2>3. ASSUME NEW d \in DOCUMENTS, NEW p \in PATTERNS, Read(d, p) PROVE AnswersRight'
    BY <2>3, ReadRight
  <2>4. QED  BY <2>1, <2>2, <2>3 DEF AnswersNext
<1>3. QED  BY <1>1, <1>2, PTL DEF AnswersSpec

=============================================================================
