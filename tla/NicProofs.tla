----------------------------- MODULE NicProofs -----------------------------
(***************************************************************************)
(* The network cards, for rings, buffers and packets of any number and      *)
(* size, and any machine: a packet that is being handled is not written     *)
(* over, the card gets its room back, and both drivers with their cards     *)
(* implement module Link.  Of the RTL8139's driver this holds of what it    *)
(* receives until rx_offset is set back behind packets that were handled    *)
(* (drivers/rtl8139.c:129), and of what it sends until it fills a buffer    *)
(* that is still waiting (drivers/rtl8139.c:139); the two directions do not *)
(* depend on each other.                                                    *)
(***************************************************************************)
EXTENDS Nic, FiniteSetTheorems, SequenceTheorems, TLAPS

-----------------------------------------------------------------------------
(* Counting around a ring.                                                  *)

LEMMA SumMod ==
    ASSUME NEW m \in Nat \ {0}, NEW a \in 0 .. m - 1, NEW b \in 0 .. m
    PROVE  (a + b) % m = IF a + b < m THEN a + b ELSE a + b - m
<1>1. CASE a + b < m
  <2>1. a + b = m * 0 + (a + b)
    OBVIOUS
  <2>2. QED  BY <1>1
<1>2. CASE a + b >= m
  <2>1. a + b - m \in 0 .. m - 1
    BY <1>2
  <2>2. a + b = m * 1 + (a + b - m)
    OBVIOUS
  <2>3. QED  BY <1>2, <2>1, <2>2
<1>3. QED  BY <1>1, <1>2

\* The slots of ring r from `first' on hold d packets, the other ones none.
IsRing(r, m, first, d) ==
    /\ r \in [0 .. m - 1 -> PACKETS \cup {NoPacket}]
    /\ first \in 0 .. m - 1 /\ d \in 0 .. m
    /\ \A k \in 0 .. m - 1 : r[(first + k) % m] # NoPacket <=> k < d

\* The packets, oldest first.
Queue(r, m, first, d) == [k \in 1 .. d |-> r[(first + k - 1) % m]]

\* Ring s from slot f on is ring r from `first' on with a packet more, or with
\* one less.
Put(r, m, first, d, s, e, p) == Queue(s, m, first, e) = Append(Queue(r, m, first, d), p)
Taken(r, m, first, d, s, f, e) == Queue(s, m, f, e) = Tail(Queue(r, m, first, d))

\* Every slot is some steps from the first.
LEMMA SlotAt ==
    ASSUME NEW m \in Nat \ {0}, NEW first \in 0 .. m - 1
    PROVE  /\ \A k \in 0 .. m : (first + k) % m \in 0 .. m - 1
           /\ \A i \in 0 .. m - 1 : \E k \in 0 .. m - 1 : (first + k) % m = i
           /\ \A j, k \in 0 .. m - 1 : (first + j) % m = (first + k) % m => j = k
<1>1. \A k \in 0 .. m : (first + k) % m = IF first + k < m THEN first + k ELSE first + k - m
  BY SumMod
<1>2. ASSUME NEW i \in 0 .. m - 1 PROVE \E k \in 0 .. m - 1 : (first + k) % m = i
  <2>1. CASE first <= i
    <3>1. i - first \in 0 .. m - 1 /\ first + (i - first) = i
      BY <2>1
    <3>2. (first + (i - first)) % m = i
      BY <1>1, <3>1
    <3>3. QED  BY <3>1, <3>2
  <2>2. CASE i < first
    <3>1. i - first + m \in 0 .. m - 1 /\ first + (i - first + m) = i + m
      BY <2>2
    <3>2. (first + (i - first + m)) % m = i
      BY <1>1, <3>1
    <3>3. QED  BY <3>1, <3>2
  <2>3. QED  BY <2>1, <2>2
<1>3. \A j, k \in 0 .. m - 1 : (first + j) % m = (first + k) % m => j = k
  BY <1>1
<1>4. \A k \in 0 .. m : (first + k) % m \in 0 .. m - 1
  BY <1>1
<1>5. QED  BY <1>2, <1>3, <1>4

LEMMA RingCount ==
    ASSUME NEW m \in Nat \ {0}, NEW r, NEW first, NEW d, IsRing(r, m, first, d)
    PROVE  LET S == {i \in 0 .. m - 1 : r[i] # NoPacket} IN
           IsFiniteSet(S) /\ Cardinality(S) = d
<1> DEFINE S == {i \in 0 .. m - 1 : r[i] # NoPacket}
           f == [k \in 1 .. d |-> (first + (k - 1)) % m]
<1>1. first \in 0 .. m - 1 /\ d \in 0 .. m /\ \A k \in 1 .. d : k - 1 \in 0 .. m - 1 /\ k - 1 < d
  BY DEF IsRing
<1>2. f \in [1 .. d -> S]
  <2>1. ASSUME NEW k \in 1 .. d PROVE (first + (k - 1)) % m \in S
    <3>1. k - 1 \in 0 .. m - 1 /\ k - 1 \in 0 .. m /\ k - 1 < d
      BY <1>1
    <3>2. (first + (k - 1)) % m \in 0 .. m - 1
      BY <1>1, <3>1, SlotAt
    <3>3. QED  BY <3>1, <3>2 DEF IsRing
  <2>2. QED  BY <2>1
<1>3. \A j, k \in 1 .. d : f[j] = f[k] => j = k
  <2>1. ASSUME NEW j \in 1 .. d, NEW k \in 1 .. d, f[j] = f[k] PROVE j = k
    <3>1. j - 1 = k - 1
      BY <1>1, <2>1, SlotAt
    <3>2. QED  BY <3>1
  <2>2. QED  BY <2>1
<1>4. \A i \in S : \E k \in 1 .. d : f[k] = i
  <2>1. ASSUME NEW i \in S PROVE \E k \in 1 .. d : f[k] = i
    <3>1. PICK k \in 0 .. m - 1 : (first + k) % m = i
      BY <1>1, SlotAt
    <3>2. k < d
      BY <3>1 DEF IsRing
    <3>3. k + 1 \in 1 .. d /\ (k + 1) - 1 = k
      BY <1>1, <3>2
    <3>4. f[k + 1] = i
      BY <3>1, <3>3
    <3>5. QED  BY <3>3, <3>4
  <2>2. QED  BY <2>1
<1>5. f \in Surjection(1 .. d, S) /\ f \in Injection(1 .. d, S)
  BY <1>2, <1>3, <1>4 DEF Surjection, Injection, IsInjective
<1>6. IsFiniteSet(1 .. d) /\ Cardinality(1 .. d) = d
  BY <1>1, FS_Interval
<1>7. QED  BY <1>5, <1>6, FS_Surjection

LEMMA QueueFacts ==
    ASSUME NEW m \in Nat \ {0}, NEW r, NEW first, NEW d, IsRing(r, m, first, d)
    PROVE  /\ Queue(r, m, first, d) \in Seq(PACKETS)
           /\ Len(Queue(r, m, first, d)) = d
           /\ \A k \in 1 .. d : Queue(r, m, first, d)[k] = r[(first + (k - 1)) % m]
<1>1. d \in Nat /\ \A k \in 1 .. d : k - 1 \in 0 .. m - 1 /\ k - 1 < d /\ first + k - 1 = first + (k - 1)
  BY DEF IsRing
<1>2. \A k \in 1 .. d : r[(first + (k - 1)) % m] \in PACKETS
  <2>1. ASSUME NEW k \in 1 .. d PROVE r[(first + (k - 1)) % m] \in PACKETS
    <3>1. k - 1 \in 0 .. m - 1 /\ k - 1 \in 0 .. m /\ k - 1 < d
      BY <1>1
    <3>2. first \in 0 .. m - 1
      BY DEF IsRing
    <3>3. (first + (k - 1)) % m \in 0 .. m - 1
      BY <3>1, <3>2, SlotAt
    <3>4. QED  BY <3>1, <3>3 DEF IsRing
  <2>2. QED  BY <2>1
<1>3. Queue(r, m, first, d) = [k \in 1 .. d |-> r[(first + (k - 1)) % m]]
  BY <1>1 DEF Queue
<1>4. QED  BY <1>1, <1>2, <1>3

(* A packet is put behind the last one.                                     *)
LEMMA RingPut ==
    ASSUME NEW m \in Nat \ {0}, NEW r, NEW first, NEW d, IsRing(r, m, first, d), d < m,
           NEW p \in PACKETS, p # NoPacket,
           NEW i, i = (first + d) % m, NEW s, s = [r EXCEPT ![i] = p], NEW e, e = d + 1
    PROVE  /\ r[i] = NoPacket
           /\ IsRing(s, m, first, e)
           /\ Put(r, m, first, d, s, e, p)
<1>1. first \in 0 .. m - 1 /\ d \in 0 .. m - 1 /\ d \in 0 .. m /\ d + 1 \in 0 .. m /\ d \in Nat
  BY DEF IsRing
<1>2. i \in 0 .. m - 1 /\ r[i] = NoPacket
  <2>1. i \in 0 .. m - 1
    BY <1>1, SlotAt
  <2>2. ~ (d < d) => r[i] = NoPacket
    BY <1>1 DEF IsRing
  <2>3. QED  BY <1>1, <2>1, <2>2
<1>3. r \in [0 .. m - 1 -> PACKETS \cup {NoPacket}]
  BY DEF IsRing
<1>4. s = [r EXCEPT ![i] = p]
  OBVIOUS
<1>5. s \in [0 .. m - 1 -> PACKETS \cup {NoPacket}] /\ s[i] = p
  BY <1>2, <1>3, <1>4
<1>6. ASSUME NEW k \in 0 .. m - 1, k # d
      PROVE  s[(first + k) % m] = r[(first + k) % m]
  <2>1. (first + k) % m # i
    BY <1>1, <1>6, SlotAt
  <2>2. (first + k) % m \in 0 .. m - 1
    BY <1>1, SlotAt
  <2>3. QED  BY <1>3, <1>4, <2>1, <2>2
<1>7. ASSUME NEW k \in 0 .. m - 1
      PROVE  s[(first + k) % m] # NoPacket <=> k < d + 1
  <2>1. CASE k = d
    BY <1>1, <1>5, <2>1
  <2>2. CASE k # d
    <3>1. r[(first + k) % m] # NoPacket <=> k < d
      BY DEF IsRing
    <3>2. QED  BY <1>1, <1>6, <2>2, <3>1
  <2>3. QED  BY <2>1, <2>2
<1>8. IsRing(s, m, first, d + 1)
  BY <1>1, <1>5, <1>7 DEF IsRing
<1> DEFINE old == Queue(r, m, first, d)
           new == Queue(s, m, first, d + 1)
<1>9. /\ old \in Seq(PACKETS) /\ Len(old) = d
      /\ \A k \in 1 .. d : old[k] = r[(first + (k - 1)) % m]
  BY QueueFacts
<1>10. /\ new \in Seq(PACKETS) /\ Len(new) = d + 1
       /\ \A k \in 1 .. d + 1 : new[k] = s[(first + (k - 1)) % m]
  <2>1. new \in Seq(PACKETS)
    BY <1>8, QueueFacts
  <2>2. Len(new) = d + 1
    BY <1>8, QueueFacts
  <2>3. \A k \in 1 .. d + 1 : new[k] = s[(first + (k - 1)) % m]
    BY <1>1 DEF Queue
  <2>4. QED  BY <2>1, <2>2, <2>3
<1> HIDE DEF old, new
<1>11. \A k \in 1 .. d : new[k] = old[k]
  <2>1. ASSUME NEW k \in 1 .. d PROVE new[k] = old[k]
    <3>1. k - 1 \in 0 .. m - 1 /\ k - 1 # d /\ k \in 1 .. d + 1
      BY <1>1
    <3>2. QED  BY <1>6, <1>9, <1>10, <3>1
  <2>2. QED  BY <2>1
<1>12. new[d + 1] = p
  <2>1. d + 1 \in 1 .. d + 1 /\ (d + 1) - 1 = d
    BY <1>1
  <2>2. QED  BY <1>5, <1>10, <2>1
<1>13. /\ Append(old, p) \in Seq(PACKETS) /\ Len(Append(old, p)) = d + 1
       /\ \A k \in 1 .. d : Append(old, p)[k] = old[k]
       /\ Append(old, p)[d + 1] = p
  BY <1>9, AppendProperties
<1>14. new = Append(old, p)
  <2>1. \A k \in 1 .. d + 1 : new[k] = Append(old, p)[k]
    BY <1>1, <1>11, <1>12, <1>13
  <2>2. QED  BY <1>10, <1>13, <2>1, SeqEqual
<1>15. QED  BY <1>2, <1>8, <1>14, Zenon DEF Put, old, new

LEMMA NextSlot ==
    ASSUME NEW m \in Nat \ {0}, NEW first \in 0 .. m - 1, NEW k \in 0 .. m - 1
    PROVE  /\ (first + 1) % m \in 0 .. m - 1
           /\ (((first + 1) % m) + k) % m = (first + (k + 1)) % m
           /\ (first + 0) % m = first /\ (first + m) % m = first
<1>1. 1 \in 0 .. m /\ k + 1 \in 0 .. m /\ k \in 0 .. m /\ m \in 0 .. m /\ 0 \in 0 .. m
  OBVIOUS
<1>2. (first + 1) % m = IF first + 1 < m THEN first + 1 ELSE first + 1 - m
  BY <1>1, SumMod
<1>3. (first + 1) % m \in 0 .. m - 1
  BY <1>1, SlotAt
<1>4. (((first + 1) % m) + k) % m = IF ((first + 1) % m) + k < m THEN ((first + 1) % m) + k
                                  ELSE ((first + 1) % m) + k - m
  BY <1>1, <1>3, SumMod
<1>5. (first + (k + 1)) % m = IF first + (k + 1) < m THEN first + (k + 1)
                              ELSE first + (k + 1) - m
  BY <1>1, SumMod
<1>6. (first + 0) % m = first /\ (first + m) % m = first
  BY <1>1, SumMod
<1> DEFINE next == (first + 1) % m
<1> HIDE DEF next
<1>7. next = (IF first + 1 < m THEN first + 1 ELSE first + 1 - m) /\ next \in 0 .. m - 1
  BY <1>2, <1>3 DEF next
<1>8. (IF next + k < m THEN next + k ELSE next + k - m)
        = (IF first + (k + 1) < m THEN first + (k + 1) ELSE first + (k + 1) - m)
  BY <1>7
<1>9. QED  BY <1>3, <1>4, <1>5, <1>6, <1>8 DEF next

LEMMA SlotNext ==
    ASSUME NEW m \in Nat \ {0}, NEW first \in 0 .. m - 1, NEW d \in 0 .. m - 1
    PROVE  (((first + d) % m) + 1) % m = (first + (d + 1)) % m
<1> DEFINE i == (first + d) % m
<1>1. d \in 0 .. m /\ d + 1 \in 0 .. m /\ 1 \in 0 .. m
  OBVIOUS
<1>2. i \in 0 .. m - 1 /\ i = IF first + d < m THEN first + d ELSE first + d - m
  BY <1>1, SumMod, SlotAt
<1>3. (first + (d + 1)) % m = IF first + (d + 1) < m THEN first + (d + 1)
                              ELSE first + (d + 1) - m
  BY <1>1, SumMod
<1> HIDE DEF i
<1>4. (i + 1) % m = IF i + 1 < m THEN i + 1 ELSE i + 1 - m
  BY <1>1, <1>2, SumMod
<1>5. (i + 1) % m = (first + (d + 1)) % m
  BY <1>2, <1>3, <1>4
<1>6. QED  BY <1>5 DEF i

(* The first packet is taken.                                               *)
LEMMA RingTake ==
    ASSUME NEW m \in Nat \ {0}, NEW r, NEW first, NEW d, IsRing(r, m, first, d), d > 0,
           NEW s, s = [r EXCEPT ![first] = NoPacket],
           NEW next, next = (first + 1) % m, NEW e, e = d - 1
    PROVE  /\ r[first] \in PACKETS
           /\ IsRing(s, m, next, e)
           /\ Queue(r, m, first, d) # <<>>
           /\ Head(Queue(r, m, first, d)) = r[first]
           /\ Taken(r, m, first, d, s, next, e)
<1>1. /\ first \in 0 .. m - 1 /\ d \in 1 .. m /\ d - 1 \in 0 .. m /\ d \in Nat
      /\ 0 \in 0 .. m - 1 /\ 0 < d
  BY DEF IsRing
<1>2. r \in [0 .. m - 1 -> PACKETS \cup {NoPacket}]
  BY DEF IsRing
<1>3. (first + 0) % m = first /\ (first + m) % m = first /\ next \in 0 .. m - 1
  BY <1>1, NextSlot
<1>4. r[first] \in PACKETS
  <2>1. r[(first + 0) % m] # NoPacket
    BY <1>1 DEF IsRing
  <2>2. QED  BY <1>1, <1>2, <1>3, <2>1
<1>5. s \in [0 .. m - 1 -> PACKETS \cup {NoPacket}] /\ s[first] = NoPacket
  BY <1>1, <1>2
<1>6. ASSUME NEW k \in 0 .. m - 1
      PROVE  (next + k) % m = (first + (k + 1)) % m
  BY <1>1, NextSlot
<1>7. ASSUME NEW k \in 0 .. m - 2
      PROVE  s[(first + (k + 1)) % m] = r[(first + (k + 1)) % m]
  <2>1. k + 1 \in 0 .. m - 1 /\ k + 1 \in 0 .. m /\ k + 1 # 0
    OBVIOUS
  <2>2. (first + (k + 1)) % m # first /\ (first + (k + 1)) % m \in 0 .. m - 1
    <3>1. (first + (k + 1)) % m \in 0 .. m - 1
      BY <1>1, <2>1, SlotAt
    <3>2. (first + (k + 1)) % m # (first + 0) % m
      BY <1>1, <2>1, SlotAt
    <3>3. QED  BY <1>3, <3>1, <3>2
  <2>3. QED  BY <1>2, <2>2
<1>8. ASSUME NEW k \in 0 .. m - 1
      PROVE  s[(next + k) % m] # NoPacket <=> k < d - 1
  <2>1. CASE k = m - 1
    <3>1. k + 1 = m
      BY <2>1
    <3>2. s[(next + k) % m] = NoPacket
      BY <1>3, <1>5, <1>6, <3>1
    <3>3. QED  BY <1>1, <2>1, <3>2
  <2>2. CASE k # m - 1
    <3>1. k \in 0 .. m - 2 /\ k + 1 \in 0 .. m - 1
      BY <2>2
    <3>2. r[(first + (k + 1)) % m] # NoPacket <=> k + 1 < d
      BY <3>1 DEF IsRing
    <3>3. s[(next + k) % m] = r[(first + (k + 1)) % m]
      BY <1>6, <1>7, <3>1
    <3>4. QED  BY <1>1, <3>2, <3>3
  <2>3. QED  BY <2>1, <2>2
<1>9. IsRing(s, m, next, d - 1)
  BY <1>1, <1>3, <1>5, <1>8 DEF IsRing
<1> DEFINE old == Queue(r, m, first, d)
           new == Queue(s, m, next, d - 1)
<1>10. /\ old \in Seq(PACKETS) /\ Len(old) = d
       /\ \A k \in 1 .. d : old[k] = r[(first + (k - 1)) % m]
  BY QueueFacts
<1>11. /\ new \in Seq(PACKETS) /\ Len(new) = d - 1
       /\ \A k \in 1 .. d - 1 : new[k] = s[(next + (k - 1)) % m]
  <2>1. new \in Seq(PACKETS)
    BY <1>9, QueueFacts
  <2>2. Len(new) = d - 1
    BY <1>9, QueueFacts
  <2>3. \A k \in 1 .. d - 1 : new[k] = s[(next + (k - 1)) % m]
    BY <1>1 DEF Queue
  <2>4. QED  BY <2>1, <2>2, <2>3
<1> HIDE DEF old, new
<1>12. old # <<>>
  BY <1>1, <1>10
<1>13. Head(old) = r[first]
  <2>1. 1 \in 1 .. d /\ 1 - 1 = 0
    BY <1>1
  <2>2. old[1] = r[first]
    BY <1>3, <1>10, <2>1
  <2>3. QED  BY <1>10, <1>12, <2>2
<1>14. /\ Tail(old) \in Seq(PACKETS) /\ Len(Tail(old)) = d - 1
       /\ \A k \in 1 .. d - 1 : Tail(old)[k] = old[k + 1]
  BY <1>10, <1>12, HeadTailProperties
<1>15. ASSUME NEW k \in 1 .. d - 1 PROVE new[k] = Tail(old)[k]
  <2>1. /\ k - 1 \in 0 .. m - 1 /\ k - 1 \in 0 .. m - 2 /\ (k - 1) + 1 = k
        /\ k + 1 \in 1 .. d /\ (k + 1) - 1 = k
    BY <1>1
  <2>2. new[k] = s[(first + k) % m]
    BY <1>6, <1>11, <2>1
  <2>3. s[(first + k) % m] = r[(first + k) % m]
    BY <1>7, <2>1
  <2>4. Tail(old)[k] = r[(first + k) % m]
    BY <1>10, <1>14, <2>1
  <2>5. QED  BY <2>2, <2>3, <2>4
<1>16. new = Tail(old)
  BY <1>11, <1>14, <1>15, SeqEqual
<1>17. QED  BY <1>4, <1>9, <1>12, <1>13, <1>16, Zenon DEF Taken, old, new

(* The first packet is in the first slot.                                   *)
LEMMA RingHead ==
    ASSUME NEW m \in Nat \ {0}, NEW r, NEW first, NEW d, IsRing(r, m, first, d), d > 0
    PROVE  /\ r[first] \in PACKETS
           /\ Queue(r, m, first, d) # <<>>
           /\ Head(Queue(r, m, first, d)) = r[first]
<1> DEFINE s == [r EXCEPT ![first] = NoPacket]
           next == (first + 1) % m
           e == d - 1
<1>1. s = [r EXCEPT ![first] = NoPacket] /\ next = (first + 1) % m /\ e = d - 1
  OBVIOUS
<1> HIDE DEF s, next, e
<1>2. QED  BY <1>1, RingTake

-----------------------------------------------------------------------------
(* The E1000: the invariant.                                                *)

ERunning == stage \in {"rings", "registered", "unmasked", "up"}

\* d descriptors hold packets, from the driver's to the card's.
ERx(d) ==
    /\ d \in 0 .. NUM_RX_DESC - 1
    /\ IsRing(rx_descs, NUM_RX_DESC, rx_cur, d)
    /\ rdh = (rx_cur + d) % NUM_RX_DESC

ETx(d) ==
    /\ IsRing(tx_descs, NUM_TX_DESC, tdh, d)
    /\ tx_cur = (tdh + d) % NUM_TX_DESC

\* The tail is one behind the driver's descriptor.
ETail == rdt = (rx_cur + (NUM_RX_DESC - 1)) % NUM_RX_DESC

EHandled == at = "net" => up = rx_descs[rx_cur] /\ up # NoPacket

EInv ==
    /\ E!TypeOK
    /\ \E d \in Nat : ERx(d) /\ (~ ERunning => d = 0)
    /\ \E d \in Nat : ETx(d) /\ (~ ERunning => d = 0)
    /\ IF ERunning THEN ETail ELSE at = "idle" /\ ~handled
    /\ EHandled

LEMMA ReachedIs ==
    /\ E!Reached("rings") <=> ERunning
    /\ E!Reached("registered") <=> stage \in {"registered", "unmasked", "up"}
    /\ R!Reached("enabled") <=> stage \in {"enabled", "registered", "up"}
    /\ R!Reached("registered") <=> stage \in {"registered", "up"}
BY DEF E!Reached, E!Stages, R!Reached, R!Stages, ERunning

LEMMA StagesAre ==
    /\ {E!Stages[i] : i \in DOMAIN E!Stages}
         = {"down", "reset", "rings", "registered", "unmasked", "up"}
    /\ {R!Stages[i] : i \in DOMAIN R!Stages}
         = {"down", "reset", "enabled", "registered", "up"}
<1>1. DOMAIN E!Stages = 1 .. 6 /\ DOMAIN R!Stages = 1 .. 5
  BY DEF E!Stages, R!Stages
<1>2. QED  BY <1>1 DEF E!Stages, R!Stages

LEMMA ESizes ==
    /\ NUM_RX_DESC \in Nat \ {0} /\ NUM_TX_DESC \in Nat \ {0} /\ NUM_RX_DESC > 1 /\ NUM_TX_DESC > 1
    /\ NoPacket \notin PACKETS
BY CardsAssumption DEF E!RingAssumption

(* Sequences and slots, in the form the steps need.                         *)
LEMMA TailAppend ==
    ASSUME NEW S, NEW q \in Seq(S), q # <<>>, NEW p \in S
    PROVE  Tail(Append(q, p)) = Append(Tail(q), p)
BY HeadTailAppend

LEMMA SeqIs ==
    ASSUME NEW S, NEW s \in Seq(S), NEW n, Len(s) = n
    PROVE  s = [k \in 1 .. n |-> s[k]]
OBVIOUS

LEMMA SlotZero ==
    ASSUME NEW m \in Nat \ {0}, NEW r, NEW first, NEW d, IsRing(r, m, first, d)
    PROVE  r[first] # NoPacket <=> d > 0
<1>1. first \in 0 .. m - 1 /\ d \in 0 .. m /\ 0 \in 0 .. m - 1
  BY DEF IsRing
<1>2. (first + 0) % m = first
  BY <1>1, NextSlot
<1>3. r[(first + 0) % m] # NoPacket <=> 0 < d
  BY <1>1 DEF IsRing
<1>4. QED  BY <1>1, <1>2, <1>3

LEMMA HeldIs ==
    ASSUME NEW m \in Nat \ {0}, NEW r, NEW first, NEW d, IsRing(r, m, first, d)
    PROVE  E!Held(r, first, m) = Queue(r, m, first, d)
<1>1. DOMAIN r = 0 .. m - 1
  BY DEF IsRing
<1>2. E!Cardinality({i \in DOMAIN r : r[i] # NoPacket}) = d
  BY <1>1, RingCount DEF E!Cardinality, Cardinality
<1>3. QED  BY <1>2, Zenon DEF E!Held, Queue

\* What the rings hold, for the number of packets in them.
EIn(d) ==
    IF at = "net" THEN Tail(Queue(rx_descs, NUM_RX_DESC, rx_cur, d))
    ELSE Queue(rx_descs, NUM_RX_DESC, rx_cur, d)
EOut(d) == Queue(tx_descs, NUM_TX_DESC, tdh, d)

LEMMA EQueues ==
    /\ \A d : ERx(d) => E!In = EIn(d)
    /\ \A d : ETx(d) => E!Out = EOut(d)
<1>1. ASSUME NEW d, ERx(d) PROVE E!In = EIn(d)
  <2>1. E!Held(rx_descs, rx_cur, NUM_RX_DESC) = Queue(rx_descs, NUM_RX_DESC, rx_cur, d)
    BY <1>1, ESizes, HeldIs DEF ERx
  <2>2. QED  BY <2>1 DEF E!In, EIn
<1>2. ASSUME NEW d, ETx(d) PROVE E!Out = EOut(d)
  BY <1>2, ESizes, HeldIs DEF ETx, E!Out, EOut
<1>3. QED  BY <1>1, <1>2

\* Nothing that queues packets has changed.
LEMMA EUnchanged ==
    ASSUME NEW d
    PROVE  /\ UNCHANGED E!rx /\ ERx(d) => ERx(d)'
           /\ UNCHANGED E!tx /\ ETx(d) => ETx(d)' /\ EOut(d)' = EOut(d)
           /\ UNCHANGED E!rx /\ (at' = "net" <=> at = "net") => EIn(d)' = EIn(d)
<1>1. UNCHANGED E!rx /\ ERx(d) => ERx(d)'
  BY DEF E!rx, ERx
<1>2. UNCHANGED E!tx /\ ETx(d) => ETx(d)' /\ EOut(d)' = EOut(d)
  BY DEF E!tx, ETx, EOut
<1>3. UNCHANGED E!rx /\ (at' = "net" <=> at = "net") => EIn(d)' = EIn(d)
  BY DEF E!rx, EIn
<1>4. QED  BY <1>1, <1>2, <1>3

-----------------------------------------------------------------------------
\* A step of Link that loses no place, for what is queued on its way in or out,
\* before and after.
InStep(i, i2) ==
    \/ i2 = i /\ up' = up
    \/ \E p \in PACKETS : i2 = Append(i, p) /\ up' = up
    \/ i # <<>> /\ up' = Head(i) /\ i2 = Tail(i)
OutStep(o, o2) ==
    \/ o2 = o /\ wire' = wire
    \/ \E p \in PACKETS : o2 = Append(o, p) /\ wire' = wire
    \/ o # <<>> /\ wire' = Head(o) /\ o2 = Tail(o)
LinkStep(i, i2, o, o2) == InStep(i, i2) /\ OutStep(o, o2)

EStep == EInv' /\ LinkStep(E!In, E!In', E!Out, E!Out')

LEMMA EPrimed ==
    /\ \A d : ERx(d)' => E!In' = EIn(d)'
    /\ \A d : ETx(d)' => E!Out' = EOut(d)'
<1>1. (/\ \A d : ERx(d) => E!In = EIn(d)
       /\ \A d : ETx(d) => E!Out = EOut(d))'
  BY EQueues, PTL
<1>2. QED  BY <1>1

(* The steps that queue nothing and take nothing.                           *)
LEMMA EQuiet ==
    ASSUME EInv, UNCHANGED <<E!rx, E!tx, up, wire>>, at' = "net" <=> at = "net",
           E!TypeOK', ERunning => ERunning', ERunning' => ERunning \/ ETail,
           IF ERunning' THEN TRUE ELSE at' = "idle" /\ ~handled'
    PROVE  EStep
<1>1. PICK d \in Nat : ERx(d) /\ (~ ERunning => d = 0)
  BY DEF EInv
<1>2. PICK e \in Nat : ETx(e) /\ (~ ERunning => e = 0)
  BY DEF EInv
<1>3. ERx(d)' /\ ETx(e)' /\ EIn(d)' = EIn(d) /\ EOut(e)' = EOut(e)
  BY <1>1, <1>2, EUnchanged
<1>4. E!In = EIn(d) /\ E!Out = EOut(e) /\ E!In' = EIn(d)' /\ E!Out' = EOut(e)'
  BY <1>1, <1>2, <1>3, EQueues, EPrimed
<1>5. LinkStep(E!In, E!In', E!Out, E!Out')
  BY <1>3, <1>4 DEF LinkStep, InStep, OutStep
<1>6. EHandled'
  BY DEF EInv, EHandled, E!rx
<1>7. ERunning' => ETail'
  BY DEF EInv, ETail, E!rx
<1>8. EInv'
  BY <1>1, <1>2, <1>3, <1>6, <1>7 DEF EInv
<1>9. QED  BY <1>5, <1>8 DEF EStep

\* The booleans, whatever step is taken.
LEMMA EFlags ==
    ASSUME E!TypeOK, E!Driver \/ E!Transmit \/ \E p \in PACKETS : E!Receive(p) \/ E!Send(p)
    PROVE  {icr, ims, handled, cleared}' \subseteq BOOLEAN
<1>1. icr \in BOOLEAN /\ ims \in BOOLEAN /\ handled \in BOOLEAN /\ cleared \in BOOLEAN
  BY Zenon DEF E!TypeOK
<1> SUFFICES icr' \in BOOLEAN /\ ims' \in BOOLEAN /\ handled' \in BOOLEAN /\ cleared' \in BOOLEAN
  BY Zenon
<1>2. CASE E!e1000_init \/ E!InitRings \/ E!Poll \/ E!Release \/ E!Transmit
  BY <1>1, <1>2, Zenon DEF E!e1000_init, E!InitRings, E!Poll, E!Release, E!Transmit, E!irq
<1>3. CASE E!Register
  BY <1>1, <1>3, Zenon DEF E!Register
<1>4. CASE E!Unmask \/ E!Interrupted
  BY <1>1, <1>4, Zenon DEF E!Unmask, E!Interrupted
<1>5. CASE E!ClearPending
  BY <1>1, <1>5, Zenon DEF E!ClearPending
<1>6. ASSUME NEW p \in PACKETS, E!Receive(p) \/ E!Send(p)
      PROVE icr' \in BOOLEAN /\ ims' \in BOOLEAN /\ handled' \in BOOLEAN /\ cleared' \in BOOLEAN
  BY <1>1, <1>6, Zenon DEF E!Receive, E!Send, E!irq
<1>7. QED  BY <1>2, <1>3, <1>4, <1>5, <1>6 DEF E!Driver

LEMMA EInit ==
    ASSUME Init
    PROVE  EInv /\ E!In = <<>> /\ E!Out = <<>>
<1>1. E!TypeOK
  <2>1. stage = "down" /\ at = "idle" /\ up = NoPacket /\ wire = NoPacket
    BY DEF Init, E!Init
  <2>2. /\ rx_descs = [i \in E!RxRing |-> NoPacket] /\ rx_cur = 0 /\ rdh = 0 /\ rdt = 0
        /\ tx_descs = [i \in E!TxRing |-> NoPacket] /\ tx_cur = 0 /\ tdh = 0
    BY DEF Init, E!Init
  <2>3. {icr, ims, handled, cleared} \subseteq BOOLEAN
    BY Zenon DEF Init, E!Init
  <2>4. 0 \in E!RxRing /\ 0 \in E!TxRing
    BY ESizes DEF E!RxRing, E!TxRing
  <2>5. /\ stage \in {E!Stages[i] : i \in DOMAIN E!Stages} \cup {"failed"}
        /\ at \in {"idle", "poll", "net"} /\ {up, wire} \subseteq PACKETS \cup {NoPacket}
    BY <2>1, StagesAre
  <2>6. QED  BY <2>2, <2>3, <2>4, <2>5 DEF E!TypeOK
<1>2. IsRing(rx_descs, NUM_RX_DESC, rx_cur, 0)
  BY ESizes, SlotAt DEF Init, E!Init, E!RxRing, IsRing
<1>3. IsRing(tx_descs, NUM_TX_DESC, tdh, 0)
  BY ESizes, SlotAt DEF Init, E!Init, E!TxRing, IsRing
<1>4. (0 + 0) % NUM_RX_DESC = 0 /\ (0 + 0) % NUM_TX_DESC = 0
  BY ESizes
<1>5. ERx(0) /\ ETx(0)
  BY <1>2, <1>3, <1>4, ESizes DEF Init, E!Init, ERx, ETx
<1>6. ~ ERunning /\ at = "idle" /\ ~handled
  BY DEF Init, E!Init, ERunning
<1>7. EInv
  BY <1>1, <1>5, <1>6 DEF EInv, EHandled
<1>8. Queue(rx_descs, NUM_RX_DESC, rx_cur, 0) = <<>> /\ Queue(tx_descs, NUM_TX_DESC, tdh, 0) = <<>>
  BY <1>2, <1>3, ESizes, QueueFacts
<1>9. E!In = <<>> /\ E!Out = <<>>
  BY <1>5, <1>6, <1>8, EQueues DEF EIn, EOut
<1>10. QED  BY <1>7, <1>9

LEMMA EInitRings == ASSUME EInv, E!InitRings PROVE EStep
<1>1. PICK d \in Nat : ERx(d) /\ (~ ERunning => d = 0)
  BY DEF EInv
<1>2. PICK e \in Nat : ETx(e) /\ (~ ERunning => e = 0)
  BY DEF EInv
<1>3. ~ ERunning /\ d = 0 /\ e = 0 /\ at = "idle"
  BY <1>1, <1>2 DEF EInv, ERunning, E!InitRings
<1>4. /\ rx_descs' = [i \in 0 .. NUM_RX_DESC - 1 |-> NoPacket] /\ rx_cur' = 0 /\ rdh' = 0
      /\ tx_descs' = [i \in 0 .. NUM_TX_DESC - 1 |-> NoPacket] /\ tx_cur' = 0 /\ tdh' = 0
      /\ rdt' = NUM_RX_DESC - 1 /\ stage' = "rings"
      /\ UNCHANGED <<at, up, wire>>
  BY DEF E!InitRings, E!RxRing, E!TxRing, E!FirstTail
<1>5. IsRing(rx_descs', NUM_RX_DESC, 0, 0) /\ IsRing(tx_descs', NUM_TX_DESC, 0, 0)
  <2>1. /\ \A k \in 0 .. NUM_RX_DESC - 1 : (0 + k) % NUM_RX_DESC \in 0 .. NUM_RX_DESC - 1
        /\ \A k \in 0 .. NUM_TX_DESC - 1 : (0 + k) % NUM_TX_DESC \in 0 .. NUM_TX_DESC - 1
    BY ESizes
  <2>2. QED  BY <1>4, <2>1, ESizes DEF IsRing
<1>6. /\ (0 + 0) % NUM_RX_DESC = 0 /\ (0 + 0) % NUM_TX_DESC = 0
      /\ (0 + (NUM_RX_DESC - 1)) % NUM_RX_DESC = NUM_RX_DESC - 1
  BY ESizes
<1>7. ERx(0)' /\ ETx(0)' /\ ETail'
  BY <1>4, <1>5, <1>6, ESizes DEF ERx, ETx, ETail
<1>8. /\ Queue(rx_descs, NUM_RX_DESC, rx_cur, 0) = <<>> /\ Queue(tx_descs, NUM_TX_DESC, tdh, 0) = <<>>
      /\ Queue(rx_descs', NUM_RX_DESC, 0, 0) = <<>> /\ Queue(tx_descs', NUM_TX_DESC, 0, 0) = <<>>
  BY <1>1, <1>2, <1>3, <1>5, ESizes, QueueFacts DEF ERx, ETx
<1>9. E!In = <<>> /\ E!Out = <<>>
  BY <1>1, <1>2, <1>3, <1>8, EQueues DEF EIn, EOut
<1>10. E!In' = <<>> /\ E!Out' = <<>>
  <2>1. EIn(0)' = <<>> /\ EOut(0)' = <<>>
    BY <1>3, <1>4, <1>8 DEF EIn, EOut
  <2>2. QED  BY <1>7, <2>1, EPrimed
<1>11. E!TypeOK'
  <2>1. {icr, ims, handled, cleared}' \subseteq BOOLEAN
    BY EFlags DEF EInv, E!Driver
  <2>2. /\ stage' \in {E!Stages[i] : i \in DOMAIN E!Stages} \cup {"failed"}
        /\ at' \in {"idle", "poll", "net"} /\ {up, wire}' \subseteq PACKETS \cup {NoPacket}
    BY <1>4, StagesAre DEF EInv, E!TypeOK
  <2>3. /\ rx_descs' \in [E!RxRing -> PACKETS \cup {NoPacket}]
        /\ rx_cur' \in E!RxRing /\ rdh' \in E!RxRing /\ rdt' \in E!RxRing
        /\ tx_descs' \in [E!TxRing -> PACKETS \cup {NoPacket}]
        /\ tx_cur' \in E!TxRing /\ tdh' \in E!TxRing
    BY <1>4, ESizes DEF E!RxRing, E!TxRing
  <2>4. QED  BY <2>1, <2>2, <2>3, Zenon DEF E!TypeOK, E!RxRing, E!TxRing
<1>12. ERunning' /\ EHandled'
  BY <1>3, <1>4 DEF ERunning, EHandled
<1>13. EInv'
  BY <1>7, <1>11, <1>12 DEF EInv
<1>14. LinkStep(E!In, E!In', E!Out, E!Out')
  BY <1>4, <1>9, <1>10 DEF LinkStep, InStep, OutStep
<1>15. QED  BY <1>13, <1>14 DEF EStep

\* The quiet steps of the driver.
LEMMA EQuietSteps ==
    ASSUME EInv,
           \/ E!e1000_init \/ E!Register \/ E!Unmask \/ E!ClearPending \/ E!Interrupted
           \/ E!Poll /\ rx_descs[rx_cur] = NoPacket
    PROVE  EStep
<1>1. UNCHANGED <<E!rx, E!tx, up, wire>>
  BY DEF E!e1000_init, E!Register, E!Unmask, E!ClearPending, E!Interrupted, E!Poll, E!rx, E!tx
<1>2. E!TypeOK
  BY DEF EInv
<1>3. E!TypeOK'
  <2>1. stage' \in {E!Stages[i] : i \in DOMAIN E!Stages} \cup {"failed"}
    BY <1>2, StagesAre DEF E!TypeOK, E!e1000_init, E!Register, E!Unmask, E!ClearPending,
                E!Interrupted, E!Poll
  <2>2. at' \in {"idle", "poll", "net"}
    BY <1>2 DEF E!TypeOK, E!e1000_init, E!Register, E!Unmask, E!ClearPending,
                E!Interrupted, E!Poll
  <2>3. {icr, ims, handled, cleared}' \subseteq BOOLEAN
    BY EFlags DEF EInv, E!Driver
  <2>4. {up, wire}' \subseteq PACKETS \cup {NoPacket}
    BY <1>1, <1>2 DEF E!TypeOK
  <2>5. /\ rx_descs' \in [E!RxRing -> PACKETS \cup {NoPacket}]
        /\ rx_cur' \in E!RxRing /\ rdh' \in E!RxRing /\ rdt' \in E!RxRing
        /\ tx_descs' \in [E!TxRing -> PACKETS \cup {NoPacket}]
        /\ tx_cur' \in E!TxRing /\ tdh' \in E!TxRing
    BY <1>1, <1>2 DEF E!TypeOK, E!rx, E!tx
  <2>6. QED  BY <2>1, <2>2, <2>3, <2>4, <2>5, Zenon DEF E!TypeOK, E!RxRing, E!TxRing
<1>4. at' = "net" <=> at = "net"
  BY DEF E!e1000_init, E!Register, E!Unmask, E!ClearPending, E!Interrupted, E!Poll
<1>5. (ERunning' <=> ERunning) /\ (IF ERunning' THEN TRUE ELSE at' = "idle" /\ ~handled')
  <2>1. CASE E!e1000_init
    BY <2>1 DEF E!e1000_init, ERunning, EInv, E!irq
  <2>2. CASE E!Register \/ E!Unmask \/ E!ClearPending
    BY <2>2 DEF E!Register, E!Unmask, E!ClearPending, ERunning, EInv
  <2>3. CASE E!Interrupted
    BY <2>3, ReachedIs DEF E!Interrupted, ERunning, EInv
  <2>4. CASE E!Poll
    BY <2>4 DEF E!Poll, ERunning, EInv
  <2>5. QED  BY <2>1, <2>2, <2>3, <2>4
<1>6. QED  BY <1>1, <1>3, <1>4, <1>5, EQuiet

\* The handler finds a packet.
LEMMA EHandUp == ASSUME EInv, E!Poll, rx_descs[rx_cur] # NoPacket PROVE EStep
<1>1. PICK d \in Nat : ERx(d) /\ (~ ERunning => d = 0)
  BY DEF EInv
<1>2. PICK e \in Nat : ETx(e) /\ (~ ERunning => e = 0)
  BY DEF EInv
<1>3. /\ at = "poll" /\ at' = "net" /\ up' = rx_descs[rx_cur] /\ wire' = wire /\ stage' = stage
      /\ UNCHANGED E!rx /\ UNCHANGED E!tx
  BY DEF E!Poll
<1>4. ERunning /\ ERunning'
  BY <1>3 DEF EInv, ERunning
<1>5. d > 0
  <2>1. rx_cur \in 0 .. NUM_RX_DESC - 1 /\ (rx_cur + 0) % NUM_RX_DESC = rx_cur
    BY <1>1, ESizes, NextSlot DEF ERx, IsRing
  <2>2. 0 \in 0 .. NUM_RX_DESC - 1
    BY ESizes
  <2>3. QED  BY <1>1, <2>1, <2>2 DEF ERx, IsRing
<1> DEFINE q == Queue(rx_descs, NUM_RX_DESC, rx_cur, d)
<1>6. rx_descs[rx_cur] \in PACKETS /\ q # <<>> /\ Head(q) = rx_descs[rx_cur]
  BY <1>1, <1>5, ESizes, RingHead DEF ERx
<1>7. ERx(d)' /\ ETx(e)' /\ EOut(e)' = EOut(e)
  BY <1>1, <1>2, <1>3, EUnchanged
<1>8. EIn(d) = q /\ EIn(d)' = Tail(q)
  BY <1>3 DEF EIn, E!rx
<1>9. E!In = q /\ E!Out = EOut(e) /\ E!In' = Tail(q) /\ E!Out' = EOut(e)
  BY <1>1, <1>2, <1>7, <1>8, EQueues, EPrimed
<1>10. LinkStep(E!In, E!In', E!Out, E!Out')
  BY <1>3, <1>6, <1>9 DEF LinkStep, InStep, OutStep
<1>11. E!TypeOK'
  <2>1. E!TypeOK
    BY DEF EInv
  <2>2. {icr, ims, handled, cleared}' \subseteq BOOLEAN
    BY EFlags DEF EInv, E!Driver
  <2>3. {up, wire}' \subseteq PACKETS \cup {NoPacket}
    BY <1>3, <1>6, <2>1 DEF E!TypeOK
  <2>4. stage' \in {E!Stages[i] : i \in DOMAIN E!Stages} \cup {"failed"} /\ at' \in {"idle", "poll", "net"}
    BY <1>3, <2>1 DEF E!TypeOK
  <2>5. /\ rx_descs' \in [E!RxRing -> PACKETS \cup {NoPacket}]
        /\ rx_cur' \in E!RxRing /\ rdh' \in E!RxRing /\ rdt' \in E!RxRing
        /\ tx_descs' \in [E!TxRing -> PACKETS \cup {NoPacket}]
        /\ tx_cur' \in E!TxRing /\ tdh' \in E!TxRing
    BY <1>3, <2>1 DEF E!TypeOK, E!rx, E!tx
  <2>6. QED  BY <2>2, <2>3, <2>4, <2>5, Zenon DEF E!TypeOK, E!RxRing, E!TxRing
<1>12. EHandled' /\ ETail'
  BY <1>3, <1>4 DEF EInv, EHandled, ETail, E!rx
<1>13. EInv'
  BY <1>4, <1>7, <1>11, <1>12 DEF EInv
<1>14. QED  BY <1>10, <1>13 DEF EStep

\* The descriptor goes back to the card.
LEMMA ERelease == ASSUME EInv, E!Release PROVE EStep
<1>1. PICK d \in Nat : ERx(d) /\ (~ ERunning => d = 0)
  BY DEF EInv
<1>2. PICK e \in Nat : ETx(e) /\ (~ ERunning => e = 0)
  BY DEF EInv
<1> DEFINE m == NUM_RX_DESC
           next == (rx_cur + 1) % m
<1>3. /\ at = "net" /\ at' = "poll" /\ UNCHANGED <<stage, up, wire, rdh>> /\ UNCHANGED E!tx
      /\ rx_descs' = [rx_descs EXCEPT ![rx_cur] = NoPacket] /\ rx_cur' = next /\ rdt' = rx_cur
  BY DEF E!Release, E!NextRx, E!NewTail
<1>4. ERunning /\ ERunning'
  BY <1>3 DEF EInv, ERunning
<1>5. /\ m \in Nat \ {0} /\ rx_cur \in 0 .. m - 1 /\ 0 \in 0 .. m - 1 /\ m - 1 \in 0 .. m - 1
      /\ d \in 0 .. m - 1
  BY <1>1, ESizes DEF ERx, IsRing
<1>6. /\ (rx_cur + 0) % m = rx_cur /\ (rx_cur + m) % m = rx_cur /\ next \in 0 .. m - 1
  BY <1>5, NextSlot
<1>7. d > 0
  <2>1. rx_descs[(rx_cur + 0) % m] # NoPacket
    BY <1>3, <1>6 DEF EInv, EHandled
  <2>2. QED  BY <1>1, <1>5, <2>1 DEF ERx, IsRing
<1> DEFINE q == Queue(rx_descs, m, rx_cur, d)
<1>8. IsRing(rx_descs', m, next, d - 1) /\ Queue(rx_descs', m, next, d - 1) = Tail(q)
  <2>1. IsRing(rx_descs, m, rx_cur, d)
    BY <1>1 DEF ERx
  <2>2. ASSUME NEW s, s = [rx_descs EXCEPT ![rx_cur] = NoPacket],
               NEW f, f = (rx_cur + 1) % m, NEW c, c = d - 1
        PROVE  IsRing(s, m, f, c) /\ Queue(s, m, f, c) = Tail(q)
    <3>1. IsRing(s, m, f, c)
      BY <1>5, <1>7, <2>1, <2>2, RingTake
    <3>2. Taken(rx_descs, m, rx_cur, d, s, f, c)
      BY <1>5, <1>7, <2>1, <2>2, RingTake
    <3>3. QED  BY <3>1, <3>2 DEF Taken
  <2>3. QED  BY <1>3, <2>2, Zenon
<1>9. rdh' = (next + (d - 1)) % m
  <2>1. d - 1 \in 0 .. m - 1 /\ (d - 1) + 1 = d
    BY <1>5, <1>7
  <2>2. (next + (d - 1)) % m = (rx_cur + ((d - 1) + 1)) % m
    BY <1>5, <2>1, NextSlot
  <2>3. QED  BY <1>1, <1>3, <2>1, <2>2 DEF ERx
<1>10. ERx(d - 1)' /\ d - 1 \in Nat
  BY <1>3, <1>5, <1>7, <1>8, <1>9 DEF ERx
<1>11. ETail'
  <2>1. \A k \in 0 .. m - 1 : (next + k) % m = (rx_cur + (k + 1)) % m
    BY <1>5, NextSlot
  <2>2. rx_cur = (next + (m - 1)) % m
    <3>1. (m - 1) + 1 = m
      BY <1>5
    <3>2. QED  BY <1>5, <1>6, <2>1, <3>1
  <2>3. QED  BY <1>3, <2>2 DEF ETail
<1>12. ETx(e)' /\ EOut(e)' = EOut(e)
  BY <1>2, <1>3, EUnchanged
<1>13. EIn(d) = Tail(q) /\ EIn(d - 1)' = Tail(q)
  BY <1>3, <1>8 DEF EIn
<1>14. E!In = Tail(q) /\ E!Out = EOut(e) /\ E!In' = Tail(q) /\ E!Out' = EOut(e)
  BY <1>1, <1>2, <1>10, <1>12, <1>13, EQueues, EPrimed
<1>15. LinkStep(E!In, E!In', E!Out, E!Out')
  BY <1>3, <1>14 DEF LinkStep, InStep, OutStep
<1>16. E!TypeOK'
  <2>1. E!TypeOK
    BY DEF EInv
  <2>2. {icr, ims, handled, cleared}' \subseteq BOOLEAN
    BY EFlags DEF EInv, E!Driver
  <2>3. {up, wire}' \subseteq PACKETS \cup {NoPacket}
    BY <1>3, <2>1 DEF E!TypeOK
  <2>4. stage' \in {E!Stages[i] : i \in DOMAIN E!Stages} \cup {"failed"} /\ at' \in {"idle", "poll", "net"}
    BY <1>3, <2>1 DEF E!TypeOK
  <2>5. /\ rx_descs' \in [E!RxRing -> PACKETS \cup {NoPacket}]
        /\ rx_cur' \in E!RxRing /\ rdh' \in E!RxRing /\ rdt' \in E!RxRing
        /\ tx_descs' \in [E!TxRing -> PACKETS \cup {NoPacket}]
        /\ tx_cur' \in E!TxRing /\ tdh' \in E!TxRing
    BY <1>3, <1>6, <2>1 DEF E!TypeOK, E!tx, E!RxRing
  <2>6. QED  BY <2>2, <2>3, <2>4, <2>5, Zenon DEF E!TypeOK, E!RxRing, E!TxRing
<1>17. EHandled'
  BY <1>3 DEF EHandled
<1>18. EInv'
  BY <1>4, <1>10, <1>11, <1>12, <1>16, <1>17 DEF EInv
<1>19. QED  BY <1>15, <1>18 DEF EStep

\* The card fills a descriptor: there is room before the tail.
LEMMA EReceive == ASSUME EInv, NEW p \in PACKETS, E!Receive(p) PROVE EStep
<1>1. PICK d \in Nat : ERx(d) /\ (~ ERunning => d = 0)
  BY DEF EInv
<1>2. PICK e \in Nat : ETx(e) /\ (~ ERunning => e = 0)
  BY DEF EInv
<1> DEFINE m == NUM_RX_DESC
           q == Queue(rx_descs, m, rx_cur, d)
<1>3. /\ E!Reached("rings") /\ rdh # rdt /\ rx_descs' = [rx_descs EXCEPT ![rdh] = p]
      /\ rdh' = (rdh + 1) % m
      /\ UNCHANGED <<stage, at, up, wire, rx_cur, rdt>> /\ UNCHANGED E!tx
  BY DEF E!Receive, E!NextRx
<1>4. ERunning /\ ERunning'
  BY <1>3, ReachedIs DEF ERunning
<1>5. /\ m \in Nat \ {0} /\ rx_cur \in 0 .. m - 1 /\ d \in 0 .. m - 1 /\ m - 1 \in 0 .. m - 1
      /\ p # NoPacket
  BY <1>1, ESizes DEF ERx, IsRing
<1>6. rdh = (rx_cur + d) % m /\ IsRing(rx_descs, m, rx_cur, d)
  BY <1>1 DEF ERx
<1>7. d # m - 1
  BY <1>3, <1>4, <1>6 DEF EInv, ETail
<1>8. d < m /\ d + 1 \in 0 .. m - 1 /\ d + 1 \in Nat
  BY <1>5, <1>7
<1>9. rx_descs[rdh] = NoPacket /\ IsRing(rx_descs', m, rx_cur, d + 1)
      /\ Queue(rx_descs', m, rx_cur, d + 1) = Append(q, p)
  <2>1. ASSUME NEW s, s = [rx_descs EXCEPT ![rdh] = p], NEW c, c = d + 1
        PROVE  rx_descs[rdh] = NoPacket /\ IsRing(s, m, rx_cur, c)
               /\ Queue(s, m, rx_cur, c) = Append(q, p)
    <3>1. rx_descs[rdh] = NoPacket
      BY <1>5, <1>6, <1>8, <2>1, RingPut
    <3>2. IsRing(s, m, rx_cur, c)
      BY <1>5, <1>6, <1>8, <2>1, RingPut
    <3>3. Put(rx_descs, m, rx_cur, d, s, c, p)
      BY <1>5, <1>6, <1>8, <2>1, RingPut
    <3>4. QED  BY <3>1, <3>2, <3>3 DEF Put
  <2>2. QED  BY <1>3, <2>1, Zenon
<1>10. rdh' = (rx_cur + (d + 1)) % m
  BY <1>3, <1>5, <1>6, SlotNext
<1>11. ERx(d + 1)'
  BY <1>3, <1>8, <1>9, <1>10 DEF ERx
<1>12. ETx(e)' /\ EOut(e)' = EOut(e)
  BY <1>2, <1>3, EUnchanged
<1>13. E!In' = Append(E!In, p)
  <2>1. E!In = EIn(d) /\ E!In' = EIn(d + 1)'
    BY <1>1, <1>11, EQueues, EPrimed
  <2>2. EIn(d + 1)' = IF at = "net" THEN Tail(Append(q, p)) ELSE Append(q, p)
    BY <1>3, <1>9, Zenon DEF EIn
  <2>3. CASE at # "net"
    BY <2>1, <2>2, <2>3 DEF EIn
  <2>4. CASE at = "net"
    <3>1. d > 0
      BY <1>5, <1>6, <2>4, SlotZero DEF EInv, EHandled, IsRing
    <3>2. q \in Seq(PACKETS)
      BY <1>5, <1>6, QueueFacts
    <3>3. q # <<>>
      BY <1>5, <1>6, <3>1, RingHead
    <3>4. Tail(Append(q, p)) = Append(Tail(q), p)
      BY <3>2, <3>3, TailAppend
    <3>5. QED  BY <2>1, <2>2, <2>4, <3>4 DEF EIn
  <2>5. QED  BY <2>3, <2>4
<1>14. E!Out' = E!Out
  BY <1>2, <1>12, EQueues, EPrimed
<1>15. LinkStep(E!In, E!In', E!Out, E!Out')
  BY <1>3, <1>13, <1>14 DEF LinkStep, InStep, OutStep
<1>16. E!TypeOK'
  <2>1. E!TypeOK
    BY DEF EInv
  <2>2. {icr, ims, handled, cleared}' \subseteq BOOLEAN
    BY EFlags DEF EInv, E!Driver
  <2>3. {up, wire}' \subseteq PACKETS \cup {NoPacket}
    BY <1>3, <2>1 DEF E!TypeOK
  <2>4. stage' \in {E!Stages[i] : i \in DOMAIN E!Stages} \cup {"failed"} /\ at' \in {"idle", "poll", "net"}
    BY <1>3, <2>1 DEF E!TypeOK
  <2>5. rdh' \in 0 .. m - 1
    <3>1. d + 1 \in 0 .. m
      BY <1>5
    <3>2. QED  BY <1>5, <1>10, <3>1, SlotAt
  <2>6. /\ rx_descs' \in [E!RxRing -> PACKETS \cup {NoPacket}]
        /\ rx_cur' \in E!RxRing /\ rdh' \in E!RxRing /\ rdt' \in E!RxRing
        /\ tx_descs' \in [E!TxRing -> PACKETS \cup {NoPacket}]
        /\ tx_cur' \in E!TxRing /\ tdh' \in E!TxRing
    BY <1>3, <2>1, <2>5 DEF E!TypeOK, E!tx, E!RxRing
  <2>7. QED  BY <2>2, <2>3, <2>4, <2>6, Zenon DEF E!TypeOK, E!RxRing, E!TxRing
<1>17. EHandled'
  <2>1. CASE at = "net"
    <3>1. rx_cur # rdh
      BY <1>9, <2>1 DEF EInv, EHandled
    <3>2. QED  BY <1>3, <1>5, <1>6, <3>1 DEF EInv, EHandled, IsRing
  <2>2. QED  BY <1>3, <2>1 DEF EHandled
<1>18. ETail'
  BY <1>3, <1>4 DEF EInv, ETail
<1>19. EInv'
  BY <1>4, <1>8, <1>11, <1>12, <1>16, <1>17, <1>18 DEF EInv
<1>20. QED  BY <1>15, <1>19 DEF EStep

\* The card empties a descriptor.
LEMMA ETransmit == ASSUME EInv, E!Transmit PROVE EStep
<1>1. PICK d \in Nat : ERx(d) /\ (~ ERunning => d = 0)
  BY DEF EInv
<1>2. PICK e \in Nat : ETx(e) /\ (~ ERunning => e = 0)
  BY DEF EInv
<1> DEFINE m == NUM_TX_DESC
           next == (tdh + 1) % m
           q == Queue(tx_descs, m, tdh, e)
<1>3. /\ tdh # tx_cur /\ wire' = tx_descs[tdh] /\ tdh' = next
      /\ tx_descs' = [tx_descs EXCEPT ![tdh] = NoPacket]
      /\ UNCHANGED <<stage, at, up, tx_cur>> /\ UNCHANGED E!rx
  BY DEF E!Transmit, E!NextTx
<1>4. /\ m \in Nat \ {0} /\ tdh \in 0 .. m - 1 /\ e \in 0 .. m /\ IsRing(tx_descs, m, tdh, e)
      /\ tx_cur = (tdh + e) % m
  BY <1>2, ESizes DEF ETx, IsRing
<1>5. (tdh + 0) % m = tdh /\ next \in 0 .. m - 1
  <2>1. 0 \in 0 .. m - 1
    BY <1>4
  <2>2. QED  BY <1>4, <2>1, NextSlot
<1>6. e > 0
  BY <1>3, <1>4, <1>5
<1>7. /\ tx_descs[tdh] \in PACKETS /\ q # <<>> /\ Head(q) = tx_descs[tdh]
      /\ IsRing(tx_descs', m, next, e - 1) /\ Queue(tx_descs', m, next, e - 1) = Tail(q)
  <2>1. tx_descs[tdh] \in PACKETS /\ q # <<>> /\ Head(q) = tx_descs[tdh]
    BY <1>4, <1>6, RingHead
  <2>2. ASSUME NEW s, s = [tx_descs EXCEPT ![tdh] = NoPacket],
               NEW f, f = (tdh + 1) % m, NEW c, c = e - 1
        PROVE  IsRing(s, m, f, c) /\ Queue(s, m, f, c) = Tail(q)
    <3>1. IsRing(s, m, f, c)
      BY <1>4, <1>6, <2>2, RingTake
    <3>2. Taken(tx_descs, m, tdh, e, s, f, c)
      BY <1>4, <1>6, <2>2, RingTake
    <3>3. QED  BY <3>1, <3>2 DEF Taken
  <2>3. QED  BY <1>3, <2>1, <2>2, Zenon
<1>8. tx_cur = (next + (e - 1)) % m
  <2>1. e - 1 \in 0 .. m - 1 /\ (e - 1) + 1 = e
    BY <1>4, <1>6
  <2>2. (next + (e - 1)) % m = (tdh + ((e - 1) + 1)) % m
    BY <1>4, <2>1, NextSlot
  <2>3. QED  BY <1>4, <2>1, <2>2
<1>9. ETx(e - 1)' /\ e - 1 \in Nat
  <2>1. e - 1 \in Nat
    BY <1>6
  <2>2. IsRing(tx_descs', m, tdh', e - 1)
    BY <1>3, <1>7
  <2>3. tx_cur' = (tdh' + (e - 1)) % m
    BY <1>3, <1>8
  <2>4. QED  BY <2>1, <2>2, <2>3, Zenon DEF ETx
<1>10. ERx(d)' /\ EIn(d)' = EIn(d)
  BY <1>1, <1>3, EUnchanged
<1>11. E!Out = q /\ E!Out' = Tail(q)
  <2>1. EOut(e) = q /\ EOut(e - 1)' = Tail(q)
    BY <1>3, <1>7 DEF EOut
  <2>2. QED  BY <1>2, <1>9, <2>1, EQueues, EPrimed
<1>12. E!In' = E!In
  BY <1>1, <1>10, EQueues, EPrimed
<1>13. LinkStep(E!In, E!In', E!Out, E!Out')
  BY <1>3, <1>7, <1>11, <1>12 DEF LinkStep, InStep, OutStep
<1>14. E!TypeOK'
  <2>1. E!TypeOK
    BY DEF EInv
  <2>2. {icr, ims, handled, cleared}' \subseteq BOOLEAN
    BY EFlags DEF EInv, E!Driver
  <2>3. {up, wire}' \subseteq PACKETS \cup {NoPacket}
    BY <1>3, <1>7, <2>1 DEF E!TypeOK
  <2>4. stage' \in {E!Stages[i] : i \in DOMAIN E!Stages} \cup {"failed"} /\ at' \in {"idle", "poll", "net"}
    BY <1>3, <2>1 DEF E!TypeOK
  <2>5. /\ rx_descs' \in [E!RxRing -> PACKETS \cup {NoPacket}]
        /\ rx_cur' \in E!RxRing /\ rdh' \in E!RxRing /\ rdt' \in E!RxRing
        /\ tx_descs' \in [E!TxRing -> PACKETS \cup {NoPacket}]
        /\ tx_cur' \in E!TxRing /\ tdh' \in E!TxRing
    BY <1>3, <1>5, <2>1 DEF E!TypeOK, E!rx, E!TxRing
  <2>6. QED  BY <2>2, <2>3, <2>4, <2>5, Zenon DEF E!TypeOK, E!RxRing, E!TxRing
<1>15. EHandled' /\ (ERunning' <=> ERunning) /\ (ETail => ETail')
  BY <1>3 DEF EInv, EHandled, E!rx, ERunning, ETail
<1>16. ~ ERunning' => d = 0 /\ e - 1 = 0
  BY <1>1, <1>2, <1>6, <1>15
<1>17. IF ERunning' THEN ETail' ELSE at' = "idle" /\ ~handled'
  <2>1. handled' = handled
    BY DEF E!Transmit, E!irq
  <2>2. QED  BY <1>3, <1>15, <2>1 DEF EInv
<1>18. EInv'
  BY <1>9, <1>10, <1>14, <1>15, <1>16, <1>17 DEF EInv
<1>19. QED  BY <1>13, <1>18 DEF EStep

\* send fills a descriptor the card is done with.
LEMMA ESend == ASSUME EInv, NEW p \in PACKETS, E!Send(p) PROVE EStep
<1>1. PICK d \in Nat : ERx(d) /\ (~ ERunning => d = 0)
  BY DEF EInv
<1>2. PICK e \in Nat : ETx(e) /\ (~ ERunning => e = 0)
  BY DEF EInv
<1> DEFINE m == NUM_TX_DESC
           q == Queue(tx_descs, m, tdh, e)
<1>3. /\ stage = "up" /\ tx_descs[tx_cur] = NoPacket /\ tx_cur' = (tx_cur + 1) % m
      /\ tx_descs' = [tx_descs EXCEPT ![tx_cur] = p]
      /\ UNCHANGED <<stage, at, up, wire, tdh>> /\ UNCHANGED E!rx
  BY DEF E!Send, E!NextTx, E!Available
<1>4. ERunning /\ ERunning' /\ p # NoPacket
  BY <1>3, ESizes DEF ERunning
<1>5. /\ m \in Nat \ {0} /\ tdh \in 0 .. m - 1 /\ e \in 0 .. m /\ IsRing(tx_descs, m, tdh, e)
      /\ tx_cur = (tdh + e) % m
  BY <1>2, ESizes DEF ETx, IsRing
<1>6. e < m
  <2>1. SUFFICES ASSUME e = m PROVE FALSE
    BY <1>5
  <2>2. 0 \in 0 .. m - 1
    BY <1>5
  <2>3. (tdh + m) % m = tdh
    BY <1>5, <2>2, NextSlot
  <2>4. tx_descs[tdh] # NoPacket
    BY <1>5, <2>1, SlotZero
  <2>5. QED  BY <1>3, <1>5, <2>1, <2>3, <2>4
<1>7. IsRing(tx_descs', m, tdh, e + 1) /\ Queue(tx_descs', m, tdh, e + 1) = Append(q, p)
  <2>1. ASSUME NEW s, s = [tx_descs EXCEPT ![tx_cur] = p], NEW c, c = e + 1
        PROVE  IsRing(s, m, tdh, c) /\ Queue(s, m, tdh, c) = Append(q, p)
    <3>1. IsRing(s, m, tdh, c)
      BY <1>4, <1>5, <1>6, <2>1, RingPut
    <3>2. Put(tx_descs, m, tdh, e, s, c, p)
      BY <1>4, <1>5, <1>6, <2>1, RingPut
    <3>3. QED  BY <3>1, <3>2 DEF Put
  <2>2. QED  BY <1>3, <2>1, Zenon
<1>8. e \in 0 .. m - 1 /\ e + 1 \in 0 .. m /\ e + 1 \in Nat
  BY <1>5, <1>6
<1>9. tx_cur' = (tdh + (e + 1)) % m
  BY <1>3, <1>5, <1>8, SlotNext
<1>10. ETx(e + 1)'
  BY <1>3, <1>7, <1>9 DEF ETx
<1>11. ERx(d)' /\ EIn(d)' = EIn(d)
  BY <1>1, <1>3, EUnchanged
<1>12. E!Out' = Append(E!Out, p)
  <2>1. EOut(e) = q /\ EOut(e + 1)' = Append(q, p)
    BY <1>3, <1>7 DEF EOut
  <2>2. QED  BY <1>2, <1>10, <2>1, EQueues, EPrimed
<1>13. E!In' = E!In
  BY <1>1, <1>11, EQueues, EPrimed
<1>14. LinkStep(E!In, E!In', E!Out, E!Out')
  BY <1>3, <1>12, <1>13 DEF LinkStep, InStep, OutStep
<1>15. E!TypeOK'
  <2>1. E!TypeOK
    BY DEF EInv
  <2>2. {icr, ims, handled, cleared}' \subseteq BOOLEAN
    BY EFlags DEF EInv, E!Driver
  <2>3. {up, wire}' \subseteq PACKETS \cup {NoPacket}
    BY <1>3, <2>1 DEF E!TypeOK
  <2>4. stage' \in {E!Stages[i] : i \in DOMAIN E!Stages} \cup {"failed"} /\ at' \in {"idle", "poll", "net"}
    BY <1>3, <2>1 DEF E!TypeOK
  <2>5. tx_cur' \in 0 .. m - 1
    BY <1>5, <1>8, <1>9, SlotAt
  <2>6. /\ rx_descs' \in [E!RxRing -> PACKETS \cup {NoPacket}]
        /\ rx_cur' \in E!RxRing /\ rdh' \in E!RxRing /\ rdt' \in E!RxRing
        /\ tx_descs' \in [E!TxRing -> PACKETS \cup {NoPacket}]
        /\ tx_cur' \in E!TxRing /\ tdh' \in E!TxRing
    BY <1>3, <2>1, <2>5 DEF E!TypeOK, E!rx, E!TxRing
  <2>7. QED  BY <2>2, <2>3, <2>4, <2>6, Zenon DEF E!TypeOK, E!RxRing, E!TxRing
<1>16. EHandled' /\ ETail'
  BY <1>3, <1>4 DEF EInv, EHandled, E!rx, ETail
<1>17. EInv'
  BY <1>4, <1>8, <1>10, <1>11, <1>15, <1>16 DEF EInv
<1>18. QED  BY <1>14, <1>17 DEF EStep

-----------------------------------------------------------------------------
(* The RTL8139: the packets in its buffer.                                  *)

LEMMA RSizes ==
    /\ RX_BUF_SIZE \in Nat \ {0} /\ RX_BUF_SIZE % 4 = 0 /\ TX_BUF_COUNT \in Nat \ {0}
    /\ NoPacket \notin PACKETS
    /\ SIZES \in [PACKETS -> 1 .. RX_BUF_SIZE]
BY CardsAssumption DEF R!BufferAssumption

\* What a packet takes up in the buffer.
Takes(p) == ((4 + SIZES[p] + 3) \div 4) * 4

LEMMA TakesFacts ==
    ASSUME NEW p \in PACKETS
    PROVE  Takes(p) \in Nat /\ Takes(p) >= 8 /\ Takes(p) % 4 = 0
<1> DEFINE s == SIZES[p]
           k == (4 + s + 3) \div 4
<1>1. s \in Nat /\ s >= 1
  BY RSizes
<1> HIDE DEF s
<1>2. k \in Nat /\ k >= 2
  BY <1>1
<1> HIDE DEF k
<1>3. k * 4 \in Nat /\ k * 4 >= 8 /\ (k * 4) % 4 = 0
  BY <1>2
<1>4. QED  BY <1>3 DEF Takes, k, s

\* Rounding up behind an offset that is a multiple of four.
LEMMA AlignAdd ==
    ASSUME NEW o \in Nat, o % 4 = 0, NEW p \in PACKETS
    PROVE  R!Align(o + 4 + SIZES[p]) = o + Takes(p)
<1> DEFINE s == SIZES[p]
           k == o \div 4
<1>1. s \in Nat
  BY RSizes
<1>2. k \in Nat /\ o = 4 * k
  OBVIOUS
<1> HIDE DEF s, k
<1>3. ((4 * k + 4 + s + 3) \div 4) * 4 = 4 * k + ((4 + s + 3) \div 4) * 4
  BY <1>1, <1>2
<1>4. QED  BY <1>2, <1>3 DEF R!Align, Takes, s

LEMMA MultipleOfFour ==
    ASSUME NEW c \in Nat, NEW x \in Nat, c % 4 = 0, x % 4 = 0,
           c < RX_BUF_SIZE, x <= RX_BUF_SIZE
    PROVE  (c + x) % RX_BUF_SIZE \in R!Offsets
<1> DEFINE S == RX_BUF_SIZE
           y == (c + x) % S
<1>1. S \in Nat \ {0} /\ S % 4 = 0 /\ c \in 0 .. S - 1 /\ x \in 0 .. S
  BY RSizes
<1>2. y = IF c + x < S THEN c + x ELSE c + x - S
  BY <1>1, SumMod
<1> HIDE DEF y, S
<1>3. y \in 0 .. S - 1 /\ y % 4 = 0
  <2>1. y \in 0 .. S - 1
    BY <1>1, <1>2
  <2>2. CASE c + x < S
    BY <1>1, <1>2, <2>2
  <2>3. CASE ~ (c + x < S)
    BY <1>1, <1>2, <2>3
  <2>4. QED  BY <2>1, <2>2, <2>3
<1>4. QED  BY <1>3 DEF R!Offsets, y, S

LEMMA SumModAgain ==
    ASSUME NEW m \in Nat \ {0}, NEW c \in 0 .. m - 1, NEW x \in 0 .. m - 1, NEW t \in Nat,
           x + t <= m
    PROVE  (((c + x) % m) + t) % m = (c + (x + t)) % m
<1> DEFINE y == (c + x) % m
           z == (c + (x + t)) % m
<1>1. t \in 0 .. m /\ x \in 0 .. m /\ x + t \in 0 .. m
  OBVIOUS
<1>2. y = IF c + x < m THEN c + x ELSE c + x - m
  BY <1>1, SumMod
<1>3. z = IF c + (x + t) < m THEN c + (x + t) ELSE c + (x + t) - m
  BY <1>1, SumMod
<1>4. y \in 0 .. m - 1
  BY <1>1, SlotAt
<1> HIDE DEF y, z
<1>5. (y + t) % m = IF y + t < m THEN y + t ELSE y + t - m
  BY <1>1, <1>4, SumMod
<1>6. (y + t) % m = z
  BY <1>1, <1>2, <1>3, <1>4, <1>5
<1>7. QED  BY <1>6 DEF y, z

\* From offset c on, buffer `buf' holds n packets one behind the other, at the
\* distances e; the next one goes to offset b.
Chain(buf, c, b, n, e) ==
    /\ n \in Nat /\ e \in [0 .. n -> Nat] /\ e[0] = 0 /\ e[n] < RX_BUF_SIZE
    /\ \A i, j \in 0 .. n : i <= j => e[j] - e[i] >= 8 * (j - i)
    /\ \A j \in 0 .. n : e[j] % 4 = 0
    /\ \A j \in 0 .. n - 1 : LET p == buf[(c + e[j]) % RX_BUF_SIZE]
                            IN p \in PACKETS /\ e[j + 1] = e[j] + Takes(p)
    /\ b = (c + e[n]) % RX_BUF_SIZE

\* The packets, oldest first.
Packets(buf, c, n, e) == [k \in 1 .. n |-> buf[(c + e[k - 1]) % RX_BUF_SIZE]]

LEMMA ChainFacts ==
    ASSUME NEW c \in R!Offsets, NEW buf, NEW b, NEW n, NEW e, Chain(buf, c, b, n, e)
    PROVE  /\ \A j \in 0 .. n : e[j] \in 0 .. RX_BUF_SIZE - 1
           /\ \A j \in 0 .. n : (c + e[j]) % RX_BUF_SIZE \in R!Offsets
           /\ \A j \in 0 .. n - 1 : (c + e[j]) % RX_BUF_SIZE # b
           /\ b \in R!Offsets
           /\ 8 * n < RX_BUF_SIZE
           /\ b = c <=> n = 0
<1> DEFINE S == RX_BUF_SIZE
<1>1. S \in Nat \ {0} /\ c \in 0 .. S - 1 /\ c % 4 = 0
  BY RSizes DEF R!Offsets
<1>2. n \in Nat /\ e \in [0 .. n -> Nat] /\ e[0] = 0 /\ e[n] < S /\ b = (c + e[n]) % S
  BY DEF Chain
<1>3. ASSUME NEW j \in 0 .. n PROVE e[n] - e[j] >= 8 * (n - j)
  <2>1. n \in 0 .. n /\ j <= n
    BY <1>2
  <2>2. QED  BY <2>1 DEF Chain
<1>4. ASSUME NEW j \in 0 .. n PROVE e[j] \in 0 .. S - 1 /\ e[j] \in 0 .. S
  <2>1. e[j] \in Nat /\ e[n] \in Nat /\ n - j >= 0
    BY <1>2
  <2>2. e[n] - e[j] >= 8 * (n - j)
    BY <1>3
  <2>3. e[j] <= e[n]
    BY <1>2, <2>1, <2>2
  <2>4. QED  BY <1>1, <1>2, <2>1, <2>3
<1>5. ASSUME NEW j \in 0 .. n PROVE (c + e[j]) % S \in R!Offsets
  <2>1. e[j] % 4 = 0
    BY DEF Chain
  <2>2. e[j] \in Nat /\ e[j] <= S /\ c \in Nat /\ c < S
    BY <1>1, <1>4
  <2>3. QED  BY <1>1, <2>1, <2>2, MultipleOfFour
<1>6. ASSUME NEW j \in 0 .. n - 1 PROVE (c + e[j]) % S # b
  <2>1. j \in 0 .. n /\ n \in 0 .. n /\ n - j >= 1
    BY <1>2
  <2>2. e[n] - e[j] >= 8 * (n - j)
    BY <1>3, <2>1
  <2>3. e[n] \in 0 .. S - 1 /\ e[j] \in 0 .. S - 1
    BY <1>4, <2>1
  <2>4. e[n] # e[j]
    BY <2>1, <2>2, <2>3
  <2>5. ASSUME NEW x \in 0 .. S - 1, NEW y \in 0 .. S - 1, x # y
        PROVE  (c + x) % S # (c + y) % S
    BY <1>1, <2>5, SlotAt
  <2>6. QED  BY <1>2, <2>3, <2>4, <2>5
<1>7. b \in R!Offsets
  BY <1>2, <1>5
<1>8. 8 * n < S
  <2>1. 0 \in 0 .. n
    BY <1>2
  <2>2. e[n] - e[0] >= 8 * (n - 0)
    BY <1>3, <2>1
  <2>3. e[n] \in Nat
    BY <1>2
  <2>4. QED  BY <1>1, <1>2, <2>2, <2>3
<1>9. b = c <=> n = 0
  <2>1. (c + 0) % S = c
    <3>1. 0 \in 0 .. S - 1
      BY <1>1
    <3>2. QED  BY <1>1, <3>1, NextSlot
  <2>2. n = 0 => b = c
    BY <1>2, <2>1
  <2>3. n > 0 => c # b
    <3>1. SUFFICES ASSUME n > 0 PROVE c # b
      OBVIOUS
    <3>2. 0 \in 0 .. n - 1
      BY <1>2, <3>1
    <3>3. QED  BY <1>2, <1>6, <2>1, <3>2
  <2>4. QED  BY <1>2, <2>2, <2>3
<1>10. QED  BY <1>4, <1>5, <1>6, <1>7, <1>8, <1>9

\* A set of numbers has a least element.
LEMMA LeastOf ==
    ASSUME NEW T \in SUBSET Nat, T # {}
    PROVE  \E i \in T : \A j \in T : i <= j
<1> DEFINE Less == {p \in Nat \X Nat : p[1] < p[2]}
<1>1. IsWellFoundedOn(Less, Nat)
  <2>1. OpToRel(<, Nat) = Less
    BY Zenon DEF OpToRel
  <2>2. QED  BY <2>1, NatLessThanWellFounded, Zenon
<1>2. PICK i \in T : \A j \in T : <<j, i>> \notin Less
  BY <1>1, WFMin, Zenon
<1>3. ASSUME NEW j \in T PROVE i <= j
  <2>1. i \in Nat /\ j \in Nat
    OBVIOUS
  <2>2. j < i => <<j, i>> \in Less
    BY <2>1
  <2>3. QED  BY <1>2, <2>1, <2>2
<1>4. QED  BY <1>3

\* What R!Header finds in the buffer, header by header.
HeaderAt(n, e, k) == IF k < n THEN (capr + e[k]) % RX_BUF_SIZE ELSE cbr

LEMMA HeaderStep ==
    ASSUME capr \in R!Offsets, NEW n, NEW e, Chain(rx_buffer, capr, cbr, n, e)
    PROVE  /\ HeaderAt(n, e, 0) = capr
           /\ \A k \in Nat : R!Live(HeaderAt(n, e, k)) <=> k < n
           /\ \A k \in Nat : R!After(HeaderAt(n, e, k)) = HeaderAt(n, e, k + 1)
<1> DEFINE S == RX_BUF_SIZE
<1>1. /\ S \in Nat \ {0} /\ capr \in 0 .. S - 1 /\ capr \in Nat /\ n \in Nat
      /\ e \in [0 .. n -> Nat] /\ e[0] = 0 /\ cbr = (capr + e[n]) % S
  <2>1. n \in Nat /\ e \in [0 .. n -> Nat] /\ e[0] = 0 /\ cbr = (capr + e[n]) % S
    BY Zenon DEF Chain
  <2>2. S \in Nat \ {0} /\ capr \in 0 .. S - 1
    BY RSizes DEF R!Offsets
  <2>3. QED  BY <2>1, <2>2
<1>2. (capr + 0) % S = capr
  <2>1. 0 \in 0 .. S - 1
    BY <1>1
  <2>2. QED  BY <1>1, <2>1, NextSlot
<1>3. HeaderAt(n, e, 0) = capr
  BY <1>1, <1>2 DEF HeaderAt
<1>4. ASSUME NEW k \in Nat, k < n
      PROVE  /\ R!Live(HeaderAt(n, e, k))
             /\ R!After(HeaderAt(n, e, k)) = (capr + e[k + 1]) % S
  <2> DEFINE o == (capr + e[k]) % S
             p == rx_buffer[o]
  <2>1. k \in 0 .. n - 1 /\ k \in 0 .. n /\ k + 1 \in 0 .. n
    BY <1>1, <1>4
  <2>2. HeaderAt(n, e, k) = o
    BY <1>4 DEF HeaderAt
  <2>3. o # cbr /\ o \in R!Offsets
    BY <2>1, ChainFacts
  <2>4. p \in PACKETS /\ e[k + 1] = e[k] + Takes(p)
    BY <2>1 DEF Chain
  <2>5. R!Live(o)
    BY <2>3, <2>4 DEF R!Live
  <2>6. /\ e[k] \in 0 .. S - 1 /\ e[k + 1] \in 0 .. S - 1
    BY <2>1, ChainFacts
  <2>7. o \in Nat /\ o % 4 = 0
    BY <2>3 DEF R!Offsets
  <2> HIDE DEF o
  <2>8. R!After(o) = (o + Takes(p)) % S
    BY <2>4, <2>5, <2>7, AlignAdd DEF R!After
  <2>9. Takes(p) \in Nat
    BY <2>4, TakesFacts
  <2> DEFINE t == Takes(p)
             x == e[k]
  <2>10. (o + t) % S = (capr + (x + t)) % S
    <3>1. x \in 0 .. S - 1 /\ t \in Nat /\ x + t <= S /\ o = (capr + x) % S
      BY <1>1, <2>4, <2>6, <2>9 DEF o
    <3> HIDE DEF x, t
    <3>2. (((capr + x) % S) + t) % S = (capr + (x + t)) % S
      BY <1>1, <3>1, SumModAgain
    <3>3. QED  BY <3>1, <3>2
  <2>11. R!After(o) = (capr + e[k + 1]) % S
    BY <2>4, <2>8, <2>10
  <2>12. QED  BY <2>2, <2>5, <2>11
<1>5. ASSUME NEW k \in Nat, ~ (k < n)
      PROVE  HeaderAt(n, e, k) = cbr /\ ~ R!Live(HeaderAt(n, e, k))
             /\ R!After(HeaderAt(n, e, k)) = cbr
  BY <1>5 DEF HeaderAt, R!Live, R!After
<1>6. ASSUME NEW k \in Nat
      PROVE  R!After(HeaderAt(n, e, k)) = HeaderAt(n, e, k + 1)
  <2>1. CASE k + 1 < n
    BY <1>1, <1>4, <2>1 DEF HeaderAt
  <2>2. CASE k + 1 = n
    BY <1>1, <1>4, <2>2 DEF HeaderAt
  <2>3. CASE ~ (k < n)
    <3>1. ~ (k + 1 < n)
      BY <1>1, <2>3
    <3>2. HeaderAt(n, e, k + 1) = cbr
      BY <3>1 DEF HeaderAt
    <3>3. QED  BY <1>5, <2>3, <3>2
  <2>4. QED  BY <1>1, <2>1, <2>2, <2>3
<1>7. QED  BY <1>3, <1>4, <1>5, <1>6

\* The recursive function R!Header is determined by its equation.
LEMMA HeaderIs ==
    ASSUME R!Offset = capr, capr \in R!Offsets,
           NEW n, NEW e, Chain(rx_buffer, capr, cbr, n, e)
    PROVE  \A k \in Nat : R!Header[k] = HeaderAt(n, e, k)
<1> DEFINE w == [k \in Nat |-> HeaderAt(n, e, k)]
           h == R!Header
<1>1. w = [k \in Nat |-> IF k = 0 THEN R!Offset ELSE R!After(w[k - 1])]
  <2>1. ASSUME NEW k \in Nat
        PROVE  w[k] = IF k = 0 THEN R!Offset ELSE R!After(w[k - 1])
    <3>1. CASE k = 0
      BY <3>1, HeaderStep
    <3>2. CASE k # 0
      <4>1. k - 1 \in Nat /\ (k - 1) + 1 = k
        BY <3>2
      <4>2. R!After(HeaderAt(n, e, k - 1)) = HeaderAt(n, e, (k - 1) + 1)
        BY <4>1, HeaderStep
      <4>3. QED  BY <3>2, <4>1, <4>2
    <3>3. QED  BY <3>1, <3>2
  <2>2. QED  BY <2>1
<1> HIDE DEF w
<1>2. h = [k \in Nat |-> IF k = 0 THEN R!Offset ELSE R!After(h[k - 1])]
  <2>1. \E f : f = [k \in Nat |-> IF k = 0 THEN R!Offset ELSE R!After(f[k - 1])]
    BY <1>1
  <2>2. QED  BY <2>1, Zenon DEF R!Header
<1> HIDE DEF h
<1>3. ASSUME \E k \in Nat : h[k] # w[k]
      PROVE  FALSE
  <2> DEFINE D == {k \in Nat : h[k] # w[k]}
  <2>1. PICK i \in D : \A j \in D : i <= j
    <3>1. D \in SUBSET Nat /\ D # {}
      BY <1>3
    <3> HIDE DEF D
    <3>2. QED  BY <3>1, LeastOf
  <2>2. i # 0
    BY <1>1, <1>2, <2>1
  <2>3. i \in Nat /\ i - 1 \in Nat /\ ~ (i <= i - 1)
    BY <2>1, <2>2
  <2>4. i - 1 \notin D
    BY <2>1, <2>3
  <2>5. h[i - 1] = w[i - 1]
    BY <2>3, <2>4
  <2>6. h[i] = R!After(h[i - 1]) /\ w[i] = R!After(w[i - 1])
    BY <1>1, <1>2, <2>2, <2>3
  <2>7. QED  BY <2>1, <2>5, <2>6
<1>4. \A k \in Nat : w[k] = HeaderAt(n, e, k)
  BY DEF w
<1>5. QED  BY <1>3, <1>4 DEF h

\* From offset c to offset b the buffer holds the packets of q.
Holds(buf, c, b, q) == \E n, e : Chain(buf, c, b, n, e) /\ q = Packets(buf, c, n, e)

LEMMA PacketsFacts ==
    ASSUME NEW buf, NEW c, NEW b, NEW n, NEW e, Chain(buf, c, b, n, e)
    PROVE  /\ Packets(buf, c, n, e) \in Seq(PACKETS)
           /\ Len(Packets(buf, c, n, e)) = n
           /\ \A k \in 1 .. n : Packets(buf, c, n, e)[k] = buf[(c + e[k - 1]) % RX_BUF_SIZE]
<1> DEFINE f == [k \in 1 .. n |-> buf[(c + e[k - 1]) % RX_BUF_SIZE]]
<1>1. n \in Nat
  BY Zenon DEF Chain
<1>2. ASSUME NEW k \in 1 .. n PROVE buf[(c + e[k - 1]) % RX_BUF_SIZE] \in PACKETS
  <2>1. k - 1 \in 0 .. n - 1
    BY <1>1
  <2>2. QED  BY <2>1 DEF Chain
<1>3. f \in [1 .. n -> PACKETS]
  BY <1>2
<1>4. Packets(buf, c, n, e) = f
  BY DEF Packets
<1> HIDE DEF f
<1>5. f \in Seq(PACKETS) /\ Len(f) = n
  BY <1>1, <1>3
<1>6. \A k \in 1 .. n : f[k] = buf[(c + e[k - 1]) % RX_BUF_SIZE]
  BY DEF f
<1>7. QED  BY <1>4, <1>5, <1>6

LEMMA HoldsFacts ==
    ASSUME NEW c \in R!Offsets, NEW buf, NEW b, NEW q, Holds(buf, c, b, q)
    PROVE  q \in Seq(PACKETS) /\ b \in R!Offsets /\ (q = <<>> <=> b = c)
<1>1. PICK n, e : Chain(buf, c, b, n, e) /\ q = Packets(buf, c, n, e)
  BY DEF Holds
<1>2. q \in Seq(PACKETS) /\ Len(q) = n
  BY <1>1, PacketsFacts
<1>3. b \in R!Offsets /\ (b = c <=> n = 0)
  BY <1>1, ChainFacts
<1>4. q = <<>> <=> Len(q) = 0
  BY <1>2, EmptySeq
<1>5. QED  BY <1>2, <1>3, <1>4

(* The card's next offset is as far from the driver's as the packets reach. *)
LEMMA RoomIs ==
    ASSUME NEW c \in R!Offsets, NEW buf, NEW b, NEW n, NEW e, Chain(buf, c, b, n, e)
    PROVE  (IF c = b THEN RX_BUF_SIZE ELSE (c - b) % RX_BUF_SIZE) = RX_BUF_SIZE - e[n]
<1> DEFINE S == RX_BUF_SIZE
           x == e[n]
<1>1. S \in Nat \ {0} /\ c \in 0 .. S - 1
  BY RSizes DEF R!Offsets
<1>2. n \in Nat /\ e[0] = 0 /\ b = (c + x) % S
  BY Zenon DEF Chain
<1>3. x \in 0 .. S - 1 /\ x \in 0 .. S
  <2>1. n \in 0 .. n
    BY <1>2
  <2>2. x \in 0 .. S - 1
    BY <2>1, ChainFacts
  <2>3. QED  BY <1>1, <2>2
<1>4. b = IF c + x < S THEN c + x ELSE c + x - S
  BY <1>1, <1>2, <1>3, SumMod
<1>5. c = b <=> n = 0
  BY ChainFacts
<1>6. CASE c = b
  BY <1>1, <1>2, <1>5, <1>6
<1>7. CASE c # b
  <2> HIDE DEF x, S
  <2>1. x > 0
    BY <1>1, <1>3, <1>4, <1>7
  <2>2. S - x \in 0 .. S - 1
    BY <1>1, <1>3, <2>1
  <2>3. CASE c + x < S
    <3>1. c - b = S * (-1) + (S - x)
      BY <1>1, <1>3, <1>4, <2>3
    <3>2. QED  BY <1>1, <1>7, <2>2, <3>1 DEF x, S
  <2>4. CASE ~ (c + x < S)
    <3>1. c - b = S * 0 + (S - x)
      BY <1>1, <1>3, <1>4, <2>4
    <3>2. QED  BY <1>1, <1>7, <2>2, <3>1 DEF x, S
  <2>5. QED  BY <2>3, <2>4
<1>8. QED  BY <1>6, <1>7

(* A packet that fits in the room is not written over those that wait.      *)
LEMMA NotWrittenOver ==
    ASSUME NEW c \in R!Offsets, NEW buf, NEW b, NEW n, NEW e, Chain(buf, c, b, n, e),
           NEW t \in Nat, t < RX_BUF_SIZE - e[n], NEW j \in 0 .. n - 1
    PROVE  LET o == (c + e[j]) % RX_BUF_SIZE IN o # b /\ ~ (b < o /\ o < b + t)
<1> DEFINE S == RX_BUF_SIZE
           x == e[n]
           y == e[j]
           o == (c + y) % S
<1>1. S \in Nat \ {0} /\ c \in 0 .. S - 1
  BY RSizes DEF R!Offsets
<1>2. n \in Nat /\ b = (c + x) % S
  BY Zenon DEF Chain
<1>3. j \in 0 .. n /\ n \in 0 .. n /\ n - j >= 1 /\ j <= n
  BY <1>2
<1>4. x \in 0 .. S - 1 /\ y \in 0 .. S - 1 /\ o # b
  BY <1>3, ChainFacts
<1>5. x - y >= 8 * (n - j)
  BY <1>3 DEF Chain
<1>6. x > y
  BY <1>3, <1>4, <1>5
<1>7. /\ b = IF c + x < S THEN c + x ELSE c + x - S
      /\ o = IF c + y < S THEN c + y ELSE c + y - S
  <2>1. x \in 0 .. S /\ y \in 0 .. S
    BY <1>1, <1>4
  <2>2. QED  BY <1>1, <1>2, <2>1, SumMod
<1>8. t < S - x
  OBVIOUS
<1> HIDE DEF o, x, y, S
<1>9. ~ (b < o /\ o < b + t)
  BY <1>1, <1>4, <1>6, <1>7, <1>8
<1>10. QED  BY <1>4, <1>9 DEF o, y, S

\* The card writes a packet behind the last one.
Written(buf, b, p) ==
    [o \in R!Offsets |->
        CASE o = b -> p
          [] b < o /\ o < b + Takes(p) -> R!Inside
          [] OTHER -> buf[o]]

LEMMA HoldsPut ==
    ASSUME NEW c \in R!Offsets, NEW buf, NEW b, NEW q, Holds(buf, c, b, q), NEW p \in PACKETS,
           Takes(p) < (IF c = b THEN RX_BUF_SIZE ELSE (c - b) % RX_BUF_SIZE),
           NEW buf2, buf2 = Written(buf, b, p), NEW b2, b2 = (b + Takes(p)) % RX_BUF_SIZE
    PROVE  Holds(buf2, c, b2, Append(q, p)) /\ (c # b => buf2[c] = buf[c])
<1> DEFINE S == RX_BUF_SIZE
           t == Takes(p)
<1>1. PICK n, e : Chain(buf, c, b, n, e) /\ q = Packets(buf, c, n, e)
  BY DEF Holds
<1> DEFINE x == e[n]
           f == [j \in 0 .. n + 1 |-> IF j = n + 1 THEN x + t ELSE e[j]]
<1>2. /\ n \in Nat /\ e \in [0 .. n -> Nat] /\ e[0] = 0 /\ b = (c + x) % S
  BY <1>1, Zenon DEF Chain
<1>3. S \in Nat \ {0} /\ c \in 0 .. S - 1
  BY RSizes DEF R!Offsets
<1>4. t \in Nat /\ t >= 8 /\ t % 4 = 0
  BY TakesFacts
<1>5. t < S - x
  <2>1. (IF c = b THEN S ELSE (c - b) % S) = S - x
    BY <1>1, RoomIs
  <2>2. QED  BY <2>1
<1>6. x \in 0 .. S - 1 /\ n \in 0 .. n /\ x % 4 = 0 /\ b \in R!Offsets
  <2>1. n \in 0 .. n
    BY <1>2
  <2>2. x \in 0 .. S - 1 /\ b \in R!Offsets
    BY <1>1, <2>1, ChainFacts
  <2>3. x % 4 = 0
    BY <1>1, <2>1 DEF Chain
  <2>4. QED  BY <2>1, <2>2, <2>3
<1> HIDE DEF t, x
<1>7. x + t < S /\ x + t \in Nat /\ (x + t) % 4 = 0
  BY <1>3, <1>4, <1>5, <1>6
<1>8. /\ f \in [0 .. n + 1 -> Nat] /\ f[n + 1] = x + t
      /\ \A j \in 0 .. n : f[j] = e[j]
  <2>1. n + 1 \in 0 .. n + 1 /\ \A j \in 0 .. n : j \in 0 .. n + 1 /\ j # n + 1
    BY <1>2
  <2>2. f[n + 1] = x + t /\ \A j \in 0 .. n : f[j] = e[j]
    BY <2>1
  <2>3. ASSUME NEW j \in 0 .. n + 1 PROVE (IF j = n + 1 THEN x + t ELSE e[j]) \in Nat
    <3>1. CASE j = n + 1
      BY <1>7, <3>1
    <3>2. CASE j # n + 1
      <4>1. j \in 0 .. n
        BY <1>2, <3>2
      <4>2. QED  BY <1>2, <3>2, <4>1
    <3>3. QED  BY <3>1, <3>2
  <2>4. QED  BY <2>2, <2>3
<1> HIDE DEF f
<1>9. f[0] = 0
  BY <1>2, <1>8
<1>10. ASSUME NEW i \in 0 .. n + 1, NEW j \in 0 .. n + 1, i <= j
       PROVE  f[j] - f[i] >= 8 * (j - i)
  <2>1. CASE j <= n
    <3>1. i \in 0 .. n /\ j \in 0 .. n
      BY <1>2, <1>10, <2>1
    <3>2. e[j] - e[i] >= 8 * (j - i)
      BY <1>1, <1>10, <3>1 DEF Chain
    <3>3. QED  BY <1>8, <3>1, <3>2
  <2>2. CASE j = n + 1 /\ i <= n
    <3>1. i \in 0 .. n /\ i <= n
      BY <1>2, <2>2
    <3>2. e[n] - e[i] >= 8 * (n - i)
      BY <1>1, <1>6, <3>1 DEF Chain
    <3>3. f[j] = x + t /\ f[i] = e[i] /\ e[i] \in Nat
      BY <1>2, <1>8, <2>2, <3>1
    <3>4. x - e[i] >= 8 * (n - i)
      BY <3>2 DEF x
    <3>5. QED  BY <1>2, <1>4, <1>6, <2>2, <3>1, <3>3, <3>4, SMTT(30)
  <2>3. CASE j = n + 1 /\ i = n + 1
    BY <1>2, <1>7, <1>8, <2>3
  <2>4. QED  BY <1>2, <1>10, <2>1, <2>2, <2>3
<1>11. ASSUME NEW j \in 0 .. n + 1 PROVE f[j] % 4 = 0
  <2>1. CASE j = n + 1
    BY <1>7, <1>8, <2>1
  <2>2. CASE j # n + 1
    <3>1. j \in 0 .. n
      BY <1>2, <2>2
    <3>2. e[j] % 4 = 0
      BY <1>1, <3>1 DEF Chain
    <3>3. QED  BY <1>8, <3>1, <3>2
  <2>3. QED  BY <2>1, <2>2
<1>12. ASSUME NEW j \in 0 .. n - 1
       PROVE  /\ (c + f[j]) % S = (c + e[j]) % S
              /\ buf2[(c + e[j]) % S] = buf[(c + e[j]) % S]
  <2>1. j \in 0 .. n
    BY <1>2
  <2> DEFINE o == (c + e[j]) % S
  <2>2. o \in R!Offsets
    BY <1>1, <2>1, ChainFacts
  <2>3. t < S - e[n]
    BY <1>5 DEF x
  <2>4. o # b /\ ~ (b < o /\ o < b + t)
    BY <1>1, <1>4, <2>3, NotWrittenOver
  <2> HIDE DEF o
  <2>5. buf2[o] = buf[o]
    BY <2>2, <2>4 DEF Written, t
  <2>6. QED  BY <1>8, <2>1, <2>5 DEF o
<1>13. (c + f[n]) % S = b /\ buf2[b] = p
  <2>1. (c + f[n]) % S = b
    BY <1>2, <1>6, <1>8 DEF x
  <2>2. buf2[b] = p
    <3>1. ~ (b < b)
      BY <1>6 DEF R!Offsets
    <3>2. QED  BY <1>6, <3>1 DEF Written
  <2>3. QED  BY <2>1, <2>2
<1>14. ASSUME NEW j \in 0 .. n
       PROVE  buf2[(c + f[j]) % S] \in PACKETS
              /\ f[j + 1] = f[j] + Takes(buf2[(c + f[j]) % S])
  <2>1. CASE j = n
    <3>1. f[j + 1] = x + t /\ f[j] = x
      BY <1>6, <1>8, <2>1 DEF x
    <3>2. buf2[(c + f[j]) % S] = p
      BY <1>13, <2>1
    <3>3. QED  BY <3>1, <3>2 DEF t
  <2>2. CASE j # n
    <3>1. j \in 0 .. n - 1 /\ j \in 0 .. n /\ j + 1 \in 0 .. n
      BY <1>2, <2>2
    <3>2. /\ buf[(c + e[j]) % S] \in PACKETS
          /\ e[j + 1] = e[j] + Takes(buf[(c + e[j]) % S])
      BY <1>1, <3>1 DEF Chain
    <3>3. f[j] = e[j] /\ f[j + 1] = e[j + 1]
      BY <1>8, <3>1
    <3>4. QED  BY <1>12, <3>1, <3>2, <3>3
  <2>3. QED  BY <2>1, <2>2
<1>15. b2 = (c + f[n + 1]) % S
  <2>1. (((c + x) % S) + t) % S = (c + (x + t)) % S
    <3>1. x + t <= S
      BY <1>3, <1>4, <1>6, <1>7
    <3>2. QED  BY <1>3, <1>4, <1>6, <3>1, SumModAgain
  <2>2. b2 = (b + t) % S
    BY Zenon DEF t
  <2>3. QED  BY <1>2, <1>8, <2>1, <2>2, Zenon
<1> DEFINE n2 == n + 1
<1>16. n2 \in Nat /\ n2 - 1 = n
  BY <1>2
<1>17. Chain(buf2, c, b2, n2, f)
  <2> HIDE DEF n2
  <2>1. f \in [0 .. n2 -> Nat] /\ f[0] = 0 /\ f[n2] < S /\ b2 = (c + f[n2]) % S
    BY <1>7, <1>8, <1>9, <1>15 DEF n2
  <2>2. \A i, j \in 0 .. n2 : i <= j => f[j] - f[i] >= 8 * (j - i)
    BY <1>10 DEF n2
  <2>3. \A j \in 0 .. n2 : f[j] % 4 = 0
    BY <1>11 DEF n2
  <2>4. \A j \in 0 .. n2 - 1 : buf2[(c + f[j]) % S] \in PACKETS
                               /\ f[j + 1] = f[j] + Takes(buf2[(c + f[j]) % S])
    BY <1>14, <1>16
  <2>5. QED  BY <1>16, <2>1, <2>2, <2>3, <2>4, Zenon DEF Chain
<1> DEFINE new == Packets(buf2, c, n2, f)
<1> HIDE DEF n2
<1>18. new \in Seq(PACKETS) /\ Len(new) = n2
       /\ \A k \in 1 .. n2 : new[k] = buf2[(c + f[k - 1]) % S]
  BY <1>17, PacketsFacts
<1>19. q \in Seq(PACKETS) /\ Len(q) = n
       /\ \A k \in 1 .. n : q[k] = buf[(c + e[k - 1]) % S]
  BY <1>1, PacketsFacts
<1>20. /\ Append(q, p) \in Seq(PACKETS) /\ Len(Append(q, p)) = n2
       /\ \A k \in 1 .. n : Append(q, p)[k] = q[k]
       /\ Append(q, p)[n2] = p
  BY <1>19, AppendProperties DEF n2
<1> HIDE DEF new
<1>21. ASSUME NEW k \in 1 .. n2 PROVE new[k] = Append(q, p)[k]
  <2>1. CASE k = n2
    <3>1. k - 1 = n
      BY <1>16, <2>1
    <3>2. QED  BY <1>13, <1>18, <1>20, <2>1, <3>1
  <2>2. CASE k # n2
    <3>1. k \in 1 .. n /\ k - 1 \in 0 .. n - 1
      BY <1>2, <2>2 DEF n2
    <3>2. QED  BY <1>12, <1>18, <1>19, <1>20, <3>1
  <2>3. QED  BY <2>1, <2>2
<1>22. new = Append(q, p)
  BY <1>18, <1>20, <1>21, SeqEqual
<1>23. Holds(buf2, c, b2, Append(q, p))
  BY <1>17, <1>22, Zenon DEF Holds, new
<1>24. c # b => buf2[c] = buf[c]
  <2>1. SUFFICES ASSUME c # b PROVE buf2[c] = buf[c]
    OBVIOUS
  <2>2. n # 0 /\ 0 \in 0 .. n - 1
    <3>1. n # 0
      BY <1>1, <2>1, ChainFacts
    <3>2. QED  BY <1>2, <3>1
  <2>3. (c + 0) % S = c
    <3>1. 0 \in 0 .. S - 1
      BY <1>3
    <3>2. QED  BY <1>3, <3>1, NextSlot
  <2>4. QED  BY <1>2, <1>12, <2>2, <2>3
<1>25. QED  BY <1>23, <1>24

\* The driver goes on behind the first packet.
LEMMA HoldsTake ==
    ASSUME NEW c \in R!Offsets, NEW buf, NEW b, NEW q, Holds(buf, c, b, q), q # <<>>,
           NEW c2, c2 = (c + Takes(buf[c])) % RX_BUF_SIZE
    PROVE  /\ buf[c] \in PACKETS /\ Head(q) = buf[c]
           /\ Holds(buf, c2, b, Tail(q)) /\ c2 \in R!Offsets
<1> DEFINE S == RX_BUF_SIZE
<1>1. PICK n, e : Chain(buf, c, b, n, e) /\ q = Packets(buf, c, n, e)
  BY DEF Holds
<1> DEFINE x == e[1]
           n2 == n - 1
           f == [j \in 0 .. n2 |-> e[j + 1] - x]
<1>2. /\ n \in Nat /\ e \in [0 .. n -> Nat] /\ e[0] = 0 /\ b = (c + e[n]) % S /\ e[n] < S
  BY <1>1, Zenon DEF Chain
<1>3. S \in Nat \ {0} /\ c \in 0 .. S - 1
  BY RSizes DEF R!Offsets
<1>4. q \in Seq(PACKETS) /\ Len(q) = n
      /\ \A k \in 1 .. n : q[k] = buf[(c + e[k - 1]) % S]
  BY <1>1, PacketsFacts
<1>5. n > 0 /\ n2 \in Nat /\ n2 + 1 = n
  <2>1. n # 0
    BY <1>4, EmptySeq
  <2>2. QED  BY <1>2, <2>1
<1> HIDE DEF n2
<1>6. (c + 0) % S = c
  <2>1. 0 \in 0 .. S - 1
    BY <1>3
  <2>2. QED  BY <1>3, <2>1, NextSlot
<1>7. buf[c] \in PACKETS /\ x = Takes(buf[c])
  <2>1. 0 \in 0 .. n - 1
    BY <1>2, <1>5
  <2>2. /\ buf[(c + e[0]) % S] \in PACKETS
        /\ e[0 + 1] = e[0] + Takes(buf[(c + e[0]) % S])
    BY <1>1, <2>1 DEF Chain
  <2>3. Takes(buf[c]) \in Nat
    BY <1>2, <1>6, <2>2, TakesFacts
  <2>4. QED  BY <1>2, <1>6, <2>2, <2>3
<1>8. ASSUME NEW j \in 0 .. n
      PROVE  e[j] \in 0 .. S - 1 /\ e[j] % 4 = 0 /\ (c + e[j]) % S \in R!Offsets
  <2>1. e[j] \in 0 .. S - 1 /\ (c + e[j]) % S \in R!Offsets
    BY <1>1, ChainFacts
  <2>2. e[j] % 4 = 0
    BY <1>1 DEF Chain
  <2>3. QED  BY <2>1, <2>2
<1>9. 1 \in 0 .. n /\ x \in 0 .. S - 1 /\ x % 4 = 0 /\ c2 \in R!Offsets
  <2>1. 1 \in 0 .. n
    BY <1>2, <1>5
  <2>2. c2 = (c + e[1]) % S
    BY <1>7
  <2>3. QED  BY <1>8, <2>1, <2>2
<1>10. c2 = (c + x) % S
  BY <1>7
<1> HIDE DEF x
<1>11. ASSUME NEW j \in 0 .. n2
       PROVE  /\ f[j] = e[j + 1] - x /\ f[j] \in Nat /\ f[j] < S /\ f[j] % 4 = 0
              /\ (c2 + f[j]) % S = (c + e[j + 1]) % S
  <2>1. j + 1 \in 0 .. n /\ 1 <= j + 1
    BY <1>2, <1>5
  <2> DEFINE y == e[j + 1]
  <2>2. y \in 0 .. S - 1 /\ y % 4 = 0
    BY <1>8, <2>1
  <2>3. e[j + 1] - e[1] >= 8 * ((j + 1) - 1)
    BY <1>1, <1>9, <2>1 DEF Chain
  <2>4. f[j] = y - x
    OBVIOUS
  <2> HIDE DEF y, f
  <2>5. y - x \in Nat /\ y - x < S
    BY <1>3, <1>9, <2>2, <2>3 DEF x, y
  <2>6. (y - x) % 4 = 0
    BY <1>9, <2>2, <2>5
  <2>7. (c2 + f[j]) % S = (c + y) % S
    <3> DEFINE t == y - x
    <3>1. t \in Nat /\ x + t = y /\ x + t <= S
      BY <1>3, <1>9, <2>2, <2>5
    <3>2. f[j] = t
      BY <2>4
    <3> HIDE DEF t
    <3>3. (((c + x) % S) + t) % S = (c + (x + t)) % S
      BY <1>3, <1>9, <3>1, SumModAgain
    <3>4. QED  BY <1>10, <3>1, <3>2, <3>3, Zenon
  <2>8. QED  BY <2>4, <2>5, <2>6, <2>7 DEF y
<1>12. f \in [0 .. n2 -> Nat]
  <2>1. ASSUME NEW j \in 0 .. n2 PROVE e[j + 1] - x \in Nat
    BY <1>11
  <2>2. QED  BY <2>1
<1> HIDE DEF f
<1>13. f[0] = 0 /\ f[n2] < S /\ b = (c2 + f[n2]) % S
  <2>1. 0 \in 0 .. n2 /\ n2 \in 0 .. n2 /\ 0 + 1 = 1
    BY <1>5
  <2>2. f[0] = x - x
    BY <1>11, <2>1 DEF x
  <2>3. b = (c2 + f[n2]) % S
    BY <1>2, <1>5, <1>11, <2>1
  <2>4. QED  BY <1>9, <1>11, <2>1, <2>2, <2>3
<1>14. ASSUME NEW i \in 0 .. n2, NEW j \in 0 .. n2, i <= j
       PROVE  f[j] - f[i] >= 8 * (j - i)
  <2>1. i + 1 \in 0 .. n /\ j + 1 \in 0 .. n /\ i + 1 <= j + 1
    BY <1>2, <1>5, <1>14
  <2>2. e[j + 1] - e[i + 1] >= 8 * ((j + 1) - (i + 1))
    BY <1>1, <2>1 DEF Chain
  <2>3. e[j + 1] \in Nat /\ e[i + 1] \in Nat /\ f[j] = e[j + 1] - x /\ f[i] = e[i + 1] - x
    BY <1>2, <1>11, <2>1
  <2>4. QED  BY <1>9, <2>2, <2>3, SMTT(30)
<1>15. ASSUME NEW j \in 0 .. n2 - 1
       PROVE  buf[(c2 + f[j]) % S] \in PACKETS
              /\ f[j + 1] = f[j] + Takes(buf[(c2 + f[j]) % S])
  <2>1. j \in 0 .. n2 /\ j + 1 \in 0 .. n2 /\ j + 1 \in 0 .. n - 1 /\ j + 1 \in 0 .. n
        /\ (j + 1) + 1 \in 0 .. n
    BY <1>2, <1>5
  <2> DEFINE p == buf[(c + e[j + 1]) % S]
             k == j + 1
  <2>2. buf[(c + e[k]) % S] \in PACKETS /\ e[k + 1] = e[k] + Takes(buf[(c + e[k]) % S])
    <3>1. k \in 0 .. n - 1
      BY <2>1
    <3> HIDE DEF k
    <3>2. QED  BY <1>1, <3>1 DEF Chain
  <2>3. (c2 + f[j]) % S = (c + e[k]) % S /\ f[j] = e[k] - x /\ f[k] = e[k + 1] - x
    BY <1>11, <2>1
  <2>4. e[k] \in Nat /\ Takes(p) \in Nat
    BY <1>2, <2>1, <2>2, TakesFacts
  <2> HIDE DEF k
  <2>5. e[k + 1] = e[k] + Takes(p) /\ buf[(c2 + f[j]) % S] = p
    BY <2>2, <2>3 DEF k
  <2> HIDE DEF p
  <2>6. f[k] = f[j] + Takes(p)
    BY <1>9, <2>3, <2>4, <2>5, SMTT(30)
  <2>7. QED  BY <2>2, <2>3, <2>5, <2>6 DEF k
<1>16. Chain(buf, c2, b, n2, f)
  <2>1. \A i, j \in 0 .. n2 : i <= j => f[j] - f[i] >= 8 * (j - i)
    BY <1>14
  <2>2. \A j \in 0 .. n2 : f[j] % 4 = 0
    BY <1>11
  <2>3. \A j \in 0 .. n2 - 1 : buf[(c2 + f[j]) % S] \in PACKETS
                               /\ f[j + 1] = f[j] + Takes(buf[(c2 + f[j]) % S])
    BY <1>15
  <2>4. QED  BY <1>5, <1>12, <1>13, <2>1, <2>2, <2>3, Zenon DEF Chain
<1> DEFINE new == Packets(buf, c2, n2, f)
<1>17. new \in Seq(PACKETS) /\ Len(new) = n2
       /\ \A k \in 1 .. n2 : new[k] = buf[(c2 + f[k - 1]) % S]
  BY <1>16, PacketsFacts
<1> HIDE DEF new
<1>18. /\ Tail(q) \in Seq(PACKETS) /\ Len(Tail(q)) = n2
       /\ \A k \in 1 .. n2 : Tail(q)[k] = q[k + 1]
       /\ Head(q) = q[1]
  BY <1>4, <1>5, HeadTailProperties DEF n2
<1>19. ASSUME NEW k \in 1 .. n2 PROVE new[k] = Tail(q)[k]
  <2>1. k - 1 \in 0 .. n2 /\ (k - 1) + 1 = k /\ k + 1 \in 1 .. n /\ (k + 1) - 1 = k
    BY <1>5
  <2>2. new[k] = buf[(c + e[k]) % S]
    <3>1. (c2 + f[k - 1]) % S = (c + e[(k - 1) + 1]) % S
      BY <1>11, <2>1
    <3>2. QED  BY <1>17, <2>1, <3>1
  <2>3. q[k + 1] = buf[(c + e[(k + 1) - 1]) % S]
    BY <1>4, <2>1
  <2>4. QED  BY <1>18, <2>1, <2>2, <2>3
<1>20. new = Tail(q)
  BY <1>17, <1>18, <1>19, SeqEqual
<1>21. Holds(buf, c2, b, Tail(q))
  BY <1>16, <1>20, Zenon DEF Holds, new
<1>22. Head(q) = buf[c]
  <2>1. 1 \in 1 .. n /\ 1 - 1 = 0
    BY <1>2, <1>5
  <2>2. QED  BY <1>2, <1>4, <1>6, <1>18, <2>1
<1>23. QED  BY <1>7, <1>9, <1>21, <1>22

-----------------------------------------------------------------------------
(* The RTL8139: the invariant.                                              *)

\* The driver reads where the card believes it reads.
RInStep == R!Offset = capr /\ capr \in R!Offsets

RHandled == at = "net" => up = rx_buffer[capr] /\ capr # cbr

RRx == RInStep /\ RHandled /\ \E q : Holds(rx_buffer, capr, cbr, q)

RTx(d) ==
    /\ IsRing(tx_buffers, TX_BUF_COUNT, tx_card, d)
    /\ tx_cur = (tx_card + d) % TX_BUF_COUNT

\* Nothing is received before the reset, nothing is sent before the driver is up.
REarly ==
    /\ stage = "down" => at = "idle" /\ rx_offset = 0 /\ capr = 0 /\ cbr = 0
    /\ stage # "up" => RTx(0) /\ tx_card = 0 /\ ~rewound /\ ~overrun

RInv ==
    /\ R!TypeOK /\ REarly
    /\ ~rewound => RRx
    /\ ~overrun => \E d \in Nat : RTx(d)

LEMMA FoundIs ==
    ASSUME RInStep, NEW n, NEW e, Chain(rx_buffer, capr, cbr, n, e)
    PROVE  R!Found = n
<1> DEFINE D == {k \in 0 .. RX_BUF_SIZE \div 8 : R!Live(R!Header[k])}
<1>1. n \in Nat /\ RX_BUF_SIZE \in Nat \ {0} /\ 8 * n < RX_BUF_SIZE
  <2>1. n \in Nat
    BY Zenon DEF Chain
  <2>2. 8 * n < RX_BUF_SIZE
    BY ChainFacts DEF RInStep
  <2>3. QED  BY <2>1, <2>2, RSizes
<1>2. RX_BUF_SIZE \div 8 \in Nat /\ n <= RX_BUF_SIZE \div 8
  BY <1>1
<1>3. \A k \in Nat : R!Live(R!Header[k]) <=> k < n
  BY HeaderIs, HeaderStep DEF RInStep
<1>4. D = 0 .. n - 1
  BY <1>1, <1>2, <1>3
<1>5. Cardinality(0 .. n - 1) = n
  BY <1>1, FS_Interval
<1> HIDE DEF D
<1>6. R!Cardinality(D) = n
  BY <1>4, <1>5 DEF R!Cardinality, Cardinality
<1>7. QED  BY <1>6, Zenon DEF R!Found, D

LEMMA RInIs ==
    ASSUME RInStep, RHandled, NEW q, Holds(rx_buffer, capr, cbr, q)
    PROVE  R!In = IF at = "net" THEN Tail(q) ELSE q
<1>1. PICK n, e : Chain(rx_buffer, capr, cbr, n, e) /\ q = Packets(rx_buffer, capr, n, e)
  BY DEF Holds
<1>2. n \in Nat
  BY <1>1, Zenon DEF Chain
<1>3. R!Found = n
  BY <1>1, FoundIs
<1>4. \A k \in 0 .. n - 1 : R!Header[k] = (capr + e[k]) % RX_BUF_SIZE
  <2>1. \A k \in Nat : R!Header[k] = HeaderAt(n, e, k)
    BY <1>1, HeaderIs DEF RInStep
  <2>2. QED  BY <1>2, <2>1 DEF HeaderAt
<1>5. q \in Seq(PACKETS) /\ Len(q) = n
      /\ \A k \in 1 .. n : q[k] = rx_buffer[(capr + e[k - 1]) % RX_BUF_SIZE]
  BY <1>1, PacketsFacts
<1>6. \A k \in 1 .. n : rx_buffer[R!Header[k - 1]] = q[k]
  <2>1. ASSUME NEW k \in 1 .. n PROVE rx_buffer[R!Header[k - 1]] = q[k]
    <3>1. k - 1 \in 0 .. n - 1
      BY <1>2
    <3>2. QED  BY <1>4, <1>5, <3>1
  <2>2. QED  BY <2>1
<1>7. CASE at # "net"
  <2>1. R!In = [k \in 1 .. n - 0 |-> rx_buffer[R!Header[k - 1 + 0]]]
    BY <1>3, <1>7, Zenon DEF R!In, R!Handed
  <2>2. R!In = [k \in 1 .. n |-> q[k]]
    BY <1>2, <1>6, <2>1
  <2>3. q = [k \in 1 .. n |-> q[k]]
    BY <1>5
  <2>4. QED  BY <1>7, <2>2, <2>3
<1>8. CASE at = "net"
  <2>1. R!In = [k \in 1 .. n - 1 |-> rx_buffer[R!Header[k - 1 + 1]]]
    BY <1>3, <1>8, Zenon DEF R!In, R!Handed
  <2>2. \A k \in 1 .. n - 1 : k - 1 + 1 = (k + 1) - 1 /\ k + 1 \in 1 .. n
    BY <1>2
  <2>3. R!In = [k \in 1 .. n - 1 |-> q[k + 1]]
    BY <1>2, <1>6, <2>1, <2>2
  <2>4. Tail(q) = [k \in 1 .. n - 1 |-> q[k + 1]]
    <3>1. q # <<>>
      BY <1>8, HoldsFacts DEF RInStep, RHandled
    <3>2. Tail(q) \in Seq(PACKETS) /\ Len(Tail(q)) = n - 1
          /\ \A k \in 1 .. n - 1 : Tail(q)[k] = q[k + 1]
      BY <1>5, <3>1, HeadTailProperties
    <3>3. Tail(q) = [k \in 1 .. n - 1 |-> Tail(q)[k]]
      BY <3>2, SeqIs, Zenon
    <3>4. QED  BY <3>2, <3>3
  <2>5. QED  BY <1>8, <2>3, <2>4
<1>9. QED  BY <1>7, <1>8

LEMMA ROutIs ==
    ASSUME NEW d, RTx(d)
    PROVE  R!Out = Queue(tx_buffers, TX_BUF_COUNT, tx_card, d)
<1>1. {i \in 0 .. TX_BUF_COUNT - 1 : tx_buffers[i] # NoPacket} = R!Waiting
  BY DEF R!Waiting, R!TxBuffers
<1>2. R!Cardinality(R!Waiting) = d
  BY <1>1, RSizes, RingCount DEF RTx, R!Cardinality, Cardinality
<1>3. QED  BY <1>2, Zenon DEF R!Out, Queue

\* The same facts of the state a step leads to.
LEMMA RPrimed ==
    /\ RInStep' /\ RHandled' => \A q : Holds(rx_buffer', capr', cbr', q) =>
                                       R!In' = IF at' = "net" THEN Tail(q) ELSE q
    /\ \A d : RTx(d)' => R!Out' = Queue(tx_buffers', TX_BUF_COUNT, tx_card', d)
<1>1. RInStep /\ RHandled => \A q : Holds(rx_buffer, capr, cbr, q) =>
                                       R!In = IF at = "net" THEN Tail(q) ELSE q
  BY RInIs
<1>2. \A d : RTx(d) => R!Out = Queue(tx_buffers, TX_BUF_COUNT, tx_card, d)
  BY ROutIs
<1>3. (RInStep /\ RHandled => \A q : Holds(rx_buffer, capr, cbr, q) =>
                                       R!In = IF at = "net" THEN Tail(q) ELSE q)'
  BY <1>1, PTL
<1>4. (\A d : RTx(d) => R!Out = Queue(tx_buffers, TX_BUF_COUNT, tx_card, d))'
  BY <1>2, PTL
<1>5. QED  BY <1>3, <1>4

\* A step in each direction, as long as its place is not lost.
RxStep == ~rewound' => RRx' /\ ~rewound /\ InStep(R!In, R!In')
TxStep == ~overrun' => (\E d \in Nat : RTx(d)') /\ ~overrun /\ OutStep(R!Out, R!Out')
RStep == RInv' /\ RxStep /\ TxStep

LEMMA RxIs ==
    ASSUME RRx, ~rewound, RInStep', RHandled', NEW q, NEW q2,
           Holds(rx_buffer, capr, cbr, q), Holds(rx_buffer', capr', cbr', q2),
           InStep(IF at = "net" THEN Tail(q) ELSE q, IF at' = "net" THEN Tail(q2) ELSE q2)
    PROVE  RxStep
<1>1. R!In = IF at = "net" THEN Tail(q) ELSE q
  BY RInIs DEF RRx
<1>2. R!In' = IF at' = "net" THEN Tail(q2) ELSE q2
  BY RPrimed
<1>3. InStep(R!In, R!In')
  BY <1>1, <1>2
<1>4. RRx'
  BY DEF RRx
<1>5. QED  BY <1>3, <1>4 DEF RxStep

LEMMA TxIs ==
    ASSUME ~overrun, NEW d, NEW d2 \in Nat, RTx(d), RTx(d2)',
           OutStep(Queue(tx_buffers, TX_BUF_COUNT, tx_card, d),
                   Queue(tx_buffers', TX_BUF_COUNT, tx_card', d2))
    PROVE  TxStep
<1>1. R!Out = Queue(tx_buffers, TX_BUF_COUNT, tx_card, d)
  BY ROutIs
<1>2. R!Out' = Queue(tx_buffers', TX_BUF_COUNT, tx_card', d2)
  BY RPrimed
<1>3. OutStep(R!Out, R!Out')
  BY <1>1, <1>2
<1>4. QED  BY <1>3 DEF TxStep

\* The steps of one direction leave the other one alone.
LEMMA RxIdle ==
    ASSUME RInv, UNCHANGED <<up, rx_buffer, rx_offset, capr, cbr, rewound>>,
           at' = "net" <=> at = "net"
    PROVE  RxStep
<1> SUFFICES ASSUME ~rewound' PROVE RxStep
  BY DEF RxStep
<1>1. ~rewound /\ RRx
  BY DEF RInv
<1>2. PICK q : Holds(rx_buffer, capr, cbr, q)
  BY <1>1 DEF RRx
<1>3. RInStep' /\ RHandled'
  BY <1>1 DEF RRx, RInStep, R!Offset, RHandled
<1>4. Holds(rx_buffer', capr', cbr', q)
  BY <1>2
<1>5. InStep(IF at = "net" THEN Tail(q) ELSE q, IF at' = "net" THEN Tail(q) ELSE q)
  BY DEF InStep
<1>6. QED  BY <1>1, <1>2, <1>3, <1>4, <1>5, RxIs

LEMMA TxIdle ==
    ASSUME RInv, UNCHANGED <<wire, tx_buffers, tx_cur, tx_card, overrun>>
    PROVE  TxStep /\ (RTx(0) => RTx(0)')
<1>1. \A d : RTx(d) => RTx(d)'
  BY DEF RTx
<1>2. ASSUME ~overrun' PROVE TxStep
  <2>1. PICK d \in Nat : RTx(d)
    BY <1>2 DEF RInv
  <2>2. OutStep(Queue(tx_buffers, TX_BUF_COUNT, tx_card, d),
                Queue(tx_buffers', TX_BUF_COUNT, tx_card', d))
    BY DEF OutStep
  <2>3. QED  BY <1>1, <1>2, <2>1, <2>2, TxIs
<1>3. QED  BY <1>1, <1>2 DEF TxStep

\* What makes a step one of both directions.
LEMMA RStepIs ==
    ASSUME R!TypeOK', REarly', RxStep, TxStep
    PROVE  RStep
BY DEF RStep, RInv, RxStep, TxStep

-----------------------------------------------------------------------------
(* The RTL8139: the types, whatever place is lost.                          *)

LEMMA ModFour ==
    ASSUME NEW n \in Nat, n % 4 = 0
    PROVE  n % RX_BUF_SIZE \in R!Offsets
<1> DEFINE S == RX_BUF_SIZE
           r == n % S
           q == n \div S
           s == S \div 4
           k == n \div 4
<1>1. S \in Nat \ {0} /\ S % 4 = 0
  BY RSizes
<1>2. r \in 0 .. S - 1 /\ q \in Nat /\ n = S * q + r
  BY <1>1
<1>3. s \in Nat /\ S = 4 * s /\ k \in Nat /\ n = 4 * k
  BY <1>1
<1> DEFINE w == s * q
<1> HIDE DEF r, q, s, k
<1>4. w \in Int /\ S * q = 4 * w
  BY <1>2, <1>3
<1> HIDE DEF w
<1>5. r = 4 * (k - w)
  BY <1>2, <1>3, <1>4
<1>6. k - w \in Int
  BY <1>3, <1>4
<1> DEFINE z == k - w
<1>7. z \in Int /\ r = 4 * z
  BY <1>5, <1>6
<1> HIDE DEF z, S
<1>8. r % 4 = 0
  BY <1>2, <1>7
<1>9. r \in 0 .. RX_BUF_SIZE - 1
  BY <1>2 DEF S
<1>10. QED  BY <1>8, <1>9 DEF R!Offsets, r, S

LEMMA Aligned ==
    ASSUME NEW n \in Nat
    PROVE  R!Align(n) \in Nat /\ R!Align(n) % 4 = 0
BY DEF R!Align

LEMMA OffsetIs == ASSUME R!TypeOK PROVE R!Offset \in R!Offsets /\ R!Offset \in Nat
<1>1. rx_offset \in Nat /\ rx_offset % 4 = 0
  BY DEF R!TypeOK
<1>2. R!Offset \in R!Offsets
  BY <1>1, ModFour DEF R!Offset
<1>3. QED  BY <1>2, RSizes DEF R!Offsets

RTypeRest ==
    /\ stage \in {R!Stages[i] : i \in DOMAIN R!Stages}
    /\ at \in {"idle", "poll", "net", "ack"}
    /\ isr \cup imr \cup status \subseteq {"ROK", "TOK"}

RTypeFlaws == {rewound, overtaken, overrun} \subseteq BOOLEAN

RTypeRx ==
    /\ up \in PACKETS \cup {NoPacket, R!Inside}
    /\ rx_buffer \in [R!Offsets -> PACKETS \cup {NoPacket, R!Inside}]
    /\ rx_offset \in Nat /\ rx_offset % 4 = 0
    /\ capr \in R!Offsets /\ cbr \in R!Offsets

RTypeTx ==
    /\ wire \in PACKETS \cup {NoPacket, R!Inside}
    /\ tx_buffers \in [R!TxBuffers -> PACKETS \cup {NoPacket}]
    /\ tx_cur \in R!TxBuffers /\ tx_card \in R!TxBuffers

LEMMA RTypeIs == R!TypeOK <=> RTypeRest /\ RTypeFlaws /\ RTypeRx /\ RTypeTx
BY DEF R!TypeOK, RTypeRest, RTypeFlaws, RTypeRx, RTypeTx

LEMMA RTypeStep ==
    ASSUME R!TypeOK, R!Driver \/ R!Transmit \/ \E p \in PACKETS : R!Receive(p) \/ R!Send(p)
    PROVE  R!TypeOK'
<1>1. RTypeRest /\ RTypeFlaws /\ RTypeRx /\ RTypeTx
  BY RTypeIs
<1>2. 0 \in R!Offsets /\ 0 \in R!TxBuffers
  BY RSizes DEF R!Offsets, R!TxBuffers
<1>3. CASE R!Reset
  <2>1. RTypeRest' /\ RTypeRx' /\ RTypeTx' /\ RTypeFlaws'
    <3>1. RTypeRest'
      BY <1>1, <1>3, StagesAre DEF R!Reset, RTypeRest
    <3>2. RTypeRx'
      BY <1>1, <1>2, <1>3 DEF R!Reset, RTypeRx
    <3>3. RTypeTx' /\ RTypeFlaws'
      BY <1>1, <1>3 DEF R!Reset, RTypeTx, RTypeFlaws, R!tx, R!flaws
    <3>4. QED  BY <3>1, <3>2, <3>3
  <2>2. QED  BY <2>1, RTypeIs, PTL
<1>4. CASE R!Enable \/ R!Register \/ R!Interrupted
  <2>1. RTypeRest'
    BY <1>1, <1>4, StagesAre DEF R!Enable, R!Register, R!Interrupted, RTypeRest, R!irq
  <2>2. RTypeRx' /\ RTypeTx' /\ RTypeFlaws'
    BY <1>1, <1>4 DEF R!Enable, R!Register, R!Interrupted, RTypeRx, RTypeTx, RTypeFlaws,
                  R!rx, R!tx, R!flaws
  <2>3. QED  BY <2>1, <2>2, RTypeIs, PTL
<1>5. CASE R!ResetOffset
  <2>1. RTypeRest'
    BY <1>1, <1>5, StagesAre DEF R!ResetOffset, RTypeRest, R!irq
  <2>2. RTypeRx' /\ RTypeTx'
    BY <1>1, <1>2, <1>5 DEF R!ResetOffset, RTypeRx, RTypeTx
  <2>3. RTypeFlaws'
    BY <1>1, <1>5 DEF R!ResetOffset, RTypeFlaws
  <2>4. QED  BY <2>1, <2>2, <2>3, RTypeIs, PTL
<1>6. CASE R!Poll
  <2>1. RTypeRest' /\ RTypeTx'
    BY <1>1, <1>6 DEF R!Poll, RTypeRest, RTypeTx, R!irq, R!tx
  <2>2. RTypeFlaws'
    BY <1>1, <1>6 DEF R!Poll, RTypeFlaws
  <2>3. up' = up \/ up' = rx_buffer[R!Offset]
    BY <1>6 DEF R!Poll, R!header
  <2>4. RTypeRx'
    BY <1>1, <1>6, <2>3, OffsetIs DEF R!Poll, RTypeRx, R!rx
  <2>5. QED  BY <2>1, <2>2, <2>4, RTypeIs, PTL
<1>7. CASE R!Advance
  <2>1. RTypeRest' /\ RTypeTx' /\ RTypeFlaws'
    BY <1>1, <1>7 DEF R!Advance, RTypeRest, RTypeTx, RTypeFlaws, R!irq, R!tx, R!flaws
  <2>2. PICK rx_size \in R!Sizes(up) : rx_offset' = R!Align(R!Offset + 4 + rx_size)
    BY <1>7 DEF R!Advance
  <2>3. rx_size \in Nat
    BY RSizes DEF R!Sizes
  <2>4. R!Offset + 4 + rx_size \in Nat
    BY <2>3, OffsetIs
  <2>5. rx_offset' \in Nat /\ rx_offset' % 4 = 0
    BY <2>2, <2>4, Aligned
  <2>6. capr' \in R!Offsets
    BY <1>7, <2>5, ModFour DEF R!Advance
  <2>7. RTypeRx'
    BY <1>1, <1>7, <2>5, <2>6 DEF R!Advance, RTypeRx
  <2>8. QED  BY <2>1, <2>7, RTypeIs, PTL
<1>8. CASE R!Ack
  <2>1. RTypeRest' /\ RTypeTx' /\ RTypeRx'
    BY <1>1, <1>8 DEF R!Ack, R!Acked, RTypeRest, RTypeTx, RTypeRx, R!rx, R!tx
  <2>2. RTypeFlaws'
    BY <1>1, <1>8 DEF R!Ack, RTypeFlaws
  <2>3. QED  BY <2>1, <2>2, RTypeIs, PTL
<1>9. CASE R!Transmit
  <2>1. RTypeRest' /\ RTypeRx' /\ RTypeFlaws'
    BY <1>1, <1>9 DEF R!Transmit, RTypeRest, RTypeRx, RTypeFlaws, R!rx, R!flaws
  <2>2. (tx_card + 1) % TX_BUF_COUNT \in R!TxBuffers
    BY <1>1, RSizes DEF RTypeTx, R!TxBuffers
  <2>3. RTypeTx'
    BY <1>1, <1>9, <2>2 DEF R!Transmit, RTypeTx
  <2>4. QED  BY <2>1, <2>3, RTypeIs, PTL
<1>10. ASSUME NEW p \in PACKETS, R!Receive(p) PROVE R!TypeOK'
  <2>1. RTypeRest' /\ RTypeTx' /\ RTypeFlaws'
    BY <1>1, <1>10 DEF R!Receive, RTypeRest, RTypeTx, RTypeFlaws, R!tx, R!flaws
  <2>2. rx_buffer' = Written(rx_buffer, cbr, p) /\ cbr' = (cbr + Takes(p)) % RX_BUF_SIZE
    BY <1>10, Zenon DEF R!Receive, Takes, Written
  <2>3. rx_buffer' \in [R!Offsets -> PACKETS \cup {NoPacket, R!Inside}]
    <3>1. rx_buffer \in [R!Offsets -> PACKETS \cup {NoPacket, R!Inside}]
      BY <1>1 DEF RTypeRx
    <3>2. QED  BY <2>2, <3>1 DEF Written
  <2>4. cbr' \in R!Offsets
    <3> DEFINE t == Takes(p)
    <3>1. t \in Nat /\ t % 4 = 0 /\ cbr \in Nat /\ cbr % 4 = 0
      BY <1>1, RSizes, TakesFacts DEF RTypeRx, R!Offsets
    <3>2. cbr' = (cbr + t) % RX_BUF_SIZE
      BY <2>2
    <3> HIDE DEF t
    <3>3. cbr + t \in Nat /\ (cbr + t) % 4 = 0
      BY <3>1
    <3>4. QED  BY <3>2, <3>3, ModFour
  <2>5. RTypeRx'
    BY <1>1, <1>10, <2>3, <2>4 DEF R!Receive, RTypeRx
  <2>6. QED  BY <2>1, <2>5, RTypeIs, PTL
<1>11. ASSUME NEW p \in PACKETS, R!Send(p) PROVE R!TypeOK'
  <2>1. RTypeRest' /\ RTypeRx'
    BY <1>1, <1>11 DEF R!Send, RTypeRest, RTypeRx, R!rx, R!irq
  <2>2. RTypeFlaws'
    BY <1>1, <1>11 DEF R!Send, RTypeFlaws
  <2>3. R!NextTx \in R!TxBuffers
    BY <1>1, RSizes DEF RTypeTx, R!TxBuffers, R!NextTx
  <2>4. RTypeTx'
    BY <1>1, <1>11, <2>3 DEF R!Send, RTypeTx
  <2>5. QED  BY <2>1, <2>2, <2>4, RTypeIs, PTL
<1>12. QED
  BY <1>3, <1>4, <1>5, <1>6, <1>7, <1>8, <1>9, <1>10, <1>11 DEF R!Driver

-----------------------------------------------------------------------------
(* The RTL8139: its steps.                                                  *)

LEMMA HoldsNone ==
    ASSUME NEW c \in R!Offsets, NEW buf
    PROVE  Holds(buf, c, c, <<>>)
<1> DEFINE e == [j \in 0 .. 0 |-> 0]
<1>1. RX_BUF_SIZE \in Nat \ {0} /\ c \in 0 .. RX_BUF_SIZE - 1
  BY RSizes DEF R!Offsets
<1>2. (c + 0) % RX_BUF_SIZE = c
  <2>1. 0 \in 0 .. RX_BUF_SIZE - 1
    BY <1>1
  <2>2. QED  BY <1>1, <2>1, NextSlot
<1>3. e \in [0 .. 0 -> Nat] /\ e[0] = 0 /\ \A j \in 0 .. 0 : j = 0 /\ e[j] = 0
  OBVIOUS
<1> HIDE DEF e
<1>4. Chain(buf, c, c, 0, e)
  BY <1>1, <1>2, <1>3 DEF Chain
<1>5. Packets(buf, c, 0, e) \in Seq(PACKETS) /\ Len(Packets(buf, c, 0, e)) = 0
  BY <1>4, PacketsFacts
<1>6. Packets(buf, c, 0, e) = <<>>
  BY <1>5, EmptySeq
<1>7. QED  BY <1>4, <1>6 DEF Holds

LEMMA RInitially ==
    ASSUME Init
    PROVE  RInv /\ R!In = <<>> /\ R!Out = <<>>
<1>1. /\ stage = "down" /\ at = "idle" /\ up = NoPacket /\ wire = NoPacket
      /\ rx_buffer = [o \in R!Offsets |-> NoPacket]
      /\ rx_offset = 0 /\ capr = 0 /\ cbr = 0
      /\ isr = {} /\ imr = {} /\ status = {}
      /\ rewound = FALSE /\ overtaken = FALSE /\ overrun = FALSE
      /\ tx_buffers = [i \in 0 .. TX_BUF_COUNT - 1 |-> NoPacket]
      /\ tx_cur = 0 /\ tx_card = 0
  BY DEF Init, R!Init, R!TxBuffers
<1>2. 0 \in R!Offsets /\ 0 % RX_BUF_SIZE = 0 /\ 0 \in R!TxBuffers
  BY RSizes DEF R!Offsets, R!TxBuffers
<1>3. R!TypeOK
  <2>1. rx_offset \in Nat /\ rx_offset % 4 = 0
    BY <1>1, RSizes
  <2>2. stage \in {R!Stages[i] : i \in DOMAIN R!Stages} /\ at \in {"idle", "poll", "net", "ack"}
    BY <1>1, StagesAre
  <2>3. rx_buffer \in [R!Offsets -> PACKETS \cup {NoPacket, R!Inside}]
    BY <1>1
  <2>4. tx_buffers \in [R!TxBuffers -> PACKETS \cup {NoPacket}]
    BY <1>1 DEF R!TxBuffers
  <2>5. QED  BY <1>1, <1>2, <2>1, <2>2, <2>3, <2>4 DEF R!TypeOK
<1>4. RInStep /\ RHandled
  BY <1>1, <1>2 DEF RInStep, R!Offset, RHandled
<1>5. Holds(rx_buffer, capr, cbr, <<>>)
  BY <1>1, <1>2, HoldsNone
<1>6. RTx(0)
  <2>1. IsRing(tx_buffers, TX_BUF_COUNT, tx_card, 0)
    BY <1>1, RSizes, SlotAt DEF IsRing
  <2>2. (0 + 0) % TX_BUF_COUNT = 0
    BY RSizes
  <2>3. QED  BY <1>1, <2>1, <2>2 DEF RTx
<1>7. RInv
  BY <1>1, <1>3, <1>4, <1>5, <1>6 DEF RInv, RRx, REarly
<1>8. R!In = <<>>
  BY <1>1, <1>4, <1>5, RInIs
<1>9. Queue(tx_buffers, TX_BUF_COUNT, tx_card, 0) = <<>>
  BY <1>6, RSizes, QueueFacts DEF RTx
<1>10. R!Out = <<>>
  BY <1>6, <1>9, ROutIs
<1>11. QED  BY <1>7, <1>8, <1>10

(* The steps that move no packet: both queues stay as they are.             *)
LEMMA RQuietSteps ==
    ASSUME RInv,
           \/ R!Enable \/ R!Register \/ R!Interrupted \/ R!Ack
           \/ R!Poll /\ at' = "ack"
    PROVE  RStep
<1>1. /\ UNCHANGED <<up, wire, rx_buffer, rx_offset, capr, cbr, tx_buffers, tx_cur, tx_card,
                     rewound, overrun>>
      /\ at' = "net" <=> at = "net"
  BY DEF R!Enable, R!Register, R!Interrupted, R!Ack, R!Poll, R!rx, R!tx, R!flaws
<1>2. R!TypeOK'
  BY RTypeStep DEF RInv, R!Driver
<1>3. RxStep /\ TxStep /\ (RTx(0) => RTx(0)')
  BY <1>1, RxIdle, TxIdle
<1>4. stage # "down" /\ stage' # "down" /\ (stage' # "up" => stage # "up")
  BY ReachedIs DEF RInv, REarly, R!Enable, R!Register, R!Interrupted, R!Ack, R!Poll
<1>5. REarly'
  BY <1>1, <1>3, <1>4 DEF RInv, REarly
<1>6. QED  BY <1>2, <1>3, <1>5, RStepIs

\* The reset finds nothing in the buffer.
LEMMA RReset == ASSUME RInv, R!Reset PROVE RStep
<1>1. /\ stage = "down" /\ at = "idle" /\ rx_offset = 0 /\ capr = 0 /\ cbr = 0
      /\ ~rewound /\ ~overrun /\ RTx(0) /\ tx_card = 0 /\ RRx
  BY DEF RInv, REarly, R!Reset
<1>2. /\ stage' = "reset" /\ capr' = 0 /\ cbr' = 0
      /\ UNCHANGED <<at, up, wire, rx_offset, tx_buffers, tx_cur, tx_card, rewound, overrun>>
  BY DEF R!Reset, R!tx, R!flaws
<1>3. R!TypeOK'
  BY RTypeStep DEF RInv, R!Driver
<1>4. TxStep /\ RTx(0)'
  BY <1>1, <1>2, TxIdle
<1>5. REarly'
  BY <1>1, <1>2, <1>4 DEF REarly
<1>6. 0 \in R!Offsets /\ 0 % RX_BUF_SIZE = 0
  BY RSizes DEF R!Offsets
<1>7. RInStep' /\ RHandled'
  BY <1>1, <1>2, <1>6 DEF RInStep, R!Offset, RHandled
<1>8. Holds(rx_buffer, capr, cbr, <<>>) /\ Holds(rx_buffer', capr', cbr', <<>>)
  BY <1>1, <1>2, <1>6, HoldsNone
<1>9. InStep(IF at = "net" THEN Tail(<<>>) ELSE <<>>, IF at' = "net" THEN Tail(<<>>) ELSE <<>>)
  BY <1>1, <1>2 DEF InStep
<1>10. RxStep
  BY <1>1, <1>7, <1>8, <1>9, RxIs
<1>11. QED  BY <1>3, <1>4, <1>5, <1>10, RStepIs

\* Unless the handler has run, rx_offset is 0 already.
LEMMA RResetOffset == ASSUME RInv, R!ResetOffset PROVE RStep
<1>1. /\ stage' = "up" /\ rx_offset' = 0 /\ tx_cur' = 0 /\ rewound' = (rx_offset # 0)
      /\ UNCHANGED <<at, up, wire, rx_buffer, capr, cbr, tx_buffers, tx_card, overrun>>
  BY DEF R!ResetOffset
<1>2. stage # "up" /\ ~rewound /\ ~overrun /\ RTx(0) /\ tx_card = 0
  BY DEF RInv, REarly, R!ResetOffset
<1>3. R!TypeOK'
  BY RTypeStep DEF RInv, R!Driver
<1>4. REarly'
  BY <1>1 DEF REarly
<1>5. tx_cur = 0
  <2>1. (0 + 0) % TX_BUF_COUNT = 0
    BY RSizes
  <2>2. QED  BY <1>2, <2>1 DEF RTx
<1>6. TxStep
  BY <1>1, <1>5, TxIdle
<1>7. ASSUME ~rewound' PROVE RxStep
  <2>1. rx_offset = 0
    BY <1>1, <1>7
  <2>2. UNCHANGED <<up, rx_buffer, rx_offset, capr, cbr, rewound>>
    <3>1. rewound \in BOOLEAN /\ rewound' \in BOOLEAN
      BY <1>1, RTypeIs, Zenon DEF RInv, RTypeFlaws
    <3>2. rewound' = rewound
      BY <1>2, <1>7, <3>1, Zenon
    <3>3. QED  BY <1>1, <2>1, <3>2
  <2>3. QED  BY <1>1, <2>2, RxIdle
<1>8. RxStep
  BY <1>7 DEF RxStep
<1>9. QED  BY <1>3, <1>4, <1>6, <1>8, RStepIs

\* The handler finds a packet.
LEMMA RHandUp == ASSUME RInv, R!Poll, at' # "ack" PROVE RStep
<1>1. /\ at = "poll" /\ at' = "net" /\ up' = rx_buffer[R!Offset] /\ capr # cbr
      /\ UNCHANGED <<stage, wire, rx_buffer, rx_offset, capr, cbr,
                     tx_buffers, tx_cur, tx_card, rewound, overrun>>
  BY DEF R!Poll, R!header, R!rx, R!tx
<1>2. R!TypeOK'
  BY RTypeStep DEF RInv, R!Driver
<1>3. TxStep /\ (RTx(0) => RTx(0)')
  BY <1>1, TxIdle
<1>4. REarly'
  BY <1>1, <1>3 DEF RInv, REarly
<1>5. ASSUME ~rewound' PROVE RxStep
  <2>1. ~rewound /\ RRx
    BY <1>1, <1>5 DEF RInv
  <2>2. PICK q : Holds(rx_buffer, capr, cbr, q)
    BY <2>1 DEF RRx
  <2>3. up' = rx_buffer[capr] /\ capr \in R!Offsets
    BY <1>1, <2>1 DEF RRx, RInStep
  <2>4. q # <<>> /\ Head(q) = rx_buffer[capr]
    <3>1. q # <<>>
      BY <1>1, <2>2, <2>3, HoldsFacts
    <3>2. \A c2 : c2 = (capr + Takes(rx_buffer[capr])) % RX_BUF_SIZE =>
                    rx_buffer[capr] \in PACKETS /\ Head(q) = rx_buffer[capr]
      BY <2>2, <2>3, <3>1, HoldsTake
    <3>3. QED  BY <3>1, <3>2
  <2>5. RInStep' /\ RHandled'
    BY <1>1, <2>1, <2>3 DEF RRx, RInStep, R!Offset, RHandled
  <2>6. Holds(rx_buffer', capr', cbr', q)
    BY <1>1, <2>2
  <2>7. InStep(IF at = "net" THEN Tail(q) ELSE q, IF at' = "net" THEN Tail(q) ELSE q)
    BY <1>1, <2>3, <2>4 DEF InStep
  <2>8. QED  BY <2>1, <2>2, <2>5, <2>6, <2>7, RxIs
<1>6. RxStep
  BY <1>5 DEF RxStep
<1>7. QED  BY <1>2, <1>3, <1>4, <1>6, RStepIs

\* The driver tells the card that it is done with the packet.
LEMMA RAdvance == ASSUME RInv, R!Advance PROVE RStep
<1>1. /\ at = "net" /\ at' = "poll" /\ capr' = rx_offset' % RX_BUF_SIZE
      /\ UNCHANGED <<stage, up, wire, rx_buffer, cbr, tx_buffers, tx_cur, tx_card, rewound, overrun>>
  BY DEF R!Advance, R!tx, R!flaws
<1>2. R!TypeOK'
  BY RTypeStep DEF RInv, R!Driver
<1>3. TxStep /\ (RTx(0) => RTx(0)')
  BY <1>1, TxIdle
<1>4. REarly'
  BY <1>1, <1>3 DEF RInv, REarly
<1>5. ASSUME ~rewound' PROVE RxStep
  <2>1. ~rewound /\ RRx
    BY <1>1, <1>5 DEF RInv
  <2>2. PICK q : Holds(rx_buffer, capr, cbr, q)
    BY <2>1 DEF RRx
  <2>3. up = rx_buffer[capr] /\ capr # cbr /\ capr \in R!Offsets /\ R!Offset = capr
    BY <1>1, <2>1 DEF RRx, RInStep, RHandled
  <2>4. q # <<>>
    BY <2>2, <2>3, HoldsFacts
  <2>5. ASSUME NEW c2, c2 = (capr + Takes(rx_buffer[capr])) % RX_BUF_SIZE
        PROVE  rx_buffer[capr] \in PACKETS /\ Holds(rx_buffer, c2, cbr, Tail(q)) /\ c2 \in R!Offsets
    BY <2>2, <2>3, <2>4, <2>5, HoldsTake
  <2>6. up \in PACKETS /\ capr \in Nat /\ capr % 4 = 0
    BY <2>3, <2>5, RSizes DEF R!Offsets
  <2>7. rx_offset' = R!Align(capr + 4 + SIZES[up])
    <3>1. R!Sizes(up) = {SIZES[up]}
      BY <2>6 DEF R!Sizes
    <3>2. QED  BY <2>3, <3>1 DEF R!Advance
  <2>8. rx_offset' = capr + Takes(up)
    BY <2>6, <2>7, AlignAdd
  <2>9. Holds(rx_buffer', capr', cbr', Tail(q)) /\ capr' \in R!Offsets
    <3>1. capr' = (capr + Takes(rx_buffer[capr])) % RX_BUF_SIZE
      BY <1>1, <2>3, <2>8
    <3>2. QED  BY <1>1, <2>5, <3>1
  <2>10. RInStep' /\ RHandled'
    BY <1>1, <2>9 DEF RInStep, R!Offset, RHandled
  <2>11. InStep(IF at = "net" THEN Tail(q) ELSE q, IF at' = "net" THEN Tail(Tail(q)) ELSE Tail(q))
    BY <1>1 DEF InStep
  <2>12. QED  BY <2>1, <2>2, <2>9, <2>10, <2>11, RxIs
<1>6. RxStep
  BY <1>5 DEF RxStep
<1>7. QED  BY <1>2, <1>3, <1>4, <1>6, RStepIs

\* The card writes a packet into the buffer.
LEMMA RReceive == ASSUME RInv, NEW p \in PACKETS, R!Receive(p) PROVE RStep
<1> DEFINE b2 == (cbr + Takes(p)) % RX_BUF_SIZE
<1>1. /\ stage # "down" /\ isr' = isr \cup {"ROK"}
      /\ UNCHANGED <<stage, at, up, wire, rx_offset, capr, tx_buffers, tx_cur, tx_card,
                     rewound, overrun>>
  BY ReachedIs DEF R!Receive, R!tx, R!flaws
<1>2. /\ Takes(p) < (IF capr = cbr THEN RX_BUF_SIZE ELSE (capr - cbr) % RX_BUF_SIZE)
      /\ rx_buffer' = Written(rx_buffer, cbr, p) /\ cbr' = b2
  BY Zenon DEF R!Receive, R!Room, Takes, Written
<1>3. R!TypeOK'
  BY RTypeStep DEF RInv
<1>4. TxStep /\ (RTx(0) => RTx(0)')
  BY <1>1, TxIdle
<1>5. REarly'
  BY <1>1, <1>4 DEF RInv, REarly
<1>6. ASSUME ~rewound' PROVE RxStep
  <2>1. ~rewound /\ RRx
    BY <1>1, <1>6 DEF RInv
  <2>2. PICK q : Holds(rx_buffer, capr, cbr, q)
    BY <2>1 DEF RRx
  <2>3. capr \in R!Offsets /\ cbr \in R!Offsets
    BY <2>1 DEF RRx, RInStep, RInv, R!TypeOK
  <2> DEFINE q2 == Append(q, p)
  <2>4. Holds(rx_buffer', capr, cbr', q2) /\ (capr # cbr => rx_buffer'[capr] = rx_buffer[capr])
    <3>1. ASSUME NEW buf2, buf2 = Written(rx_buffer, cbr, p), NEW c2, c2 = b2
          PROVE  Holds(buf2, capr, c2, q2) /\ (capr # cbr => buf2[capr] = rx_buffer[capr])
      BY <1>2, <2>2, <2>3, <3>1, HoldsPut
    <3>2. QED  BY <1>2, <3>1, Zenon
  <2>5. Holds(rx_buffer', capr', cbr', q2)
    BY <1>1, <2>4
  <2>6. q \in Seq(PACKETS) /\ (q = <<>> <=> cbr = capr) /\ cbr' # capr
    <3>1. q \in Seq(PACKETS) /\ (q = <<>> <=> cbr = capr)
      BY <2>2, <2>3, HoldsFacts
    <3>2. q2 # <<>>
      BY <3>1, AppendProperties
    <3> HIDE DEF q2
    <3>3. cbr' # capr
      BY <2>3, <2>4, <3>2, HoldsFacts
    <3>4. QED  BY <3>1, <3>3
  <2>7. RInStep' /\ RHandled'
    BY <1>1, <2>1, <2>3, <2>4, <2>6 DEF RRx, RInStep, R!Offset, RHandled
  <2>8. InStep(IF at = "net" THEN Tail(q) ELSE q, IF at' = "net" THEN Tail(q2) ELSE q2)
    <3>1. CASE at = "net"
      <4>1. q # <<>>
        BY <2>1, <2>6, <3>1 DEF RRx, RHandled
      <4>2. Tail(q2) = Append(Tail(q), p)
        BY <2>6, <4>1, TailAppend
      <4>3. QED  BY <1>1, <3>1, <4>2 DEF InStep
    <3>2. CASE at # "net"
      BY <1>1, <3>2 DEF InStep
    <3>3. QED  BY <3>1, <3>2
  <2> HIDE DEF q2
  <2>9. QED  BY <2>1, <2>2, <2>5, <2>7, <2>8, RxIs
<1>7. RxStep
  BY <1>6 DEF RxStep
<1>8. QED  BY <1>3, <1>4, <1>5, <1>7, RStepIs

\* The card puts a packet on the wire.
LEMMA RTransmit == ASSUME RInv, R!Transmit PROVE RStep
<1> DEFINE m == TX_BUF_COUNT
           next == (tx_card + 1) % m
<1>1. /\ tx_buffers[tx_card] # NoPacket /\ wire' = tx_buffers[tx_card]
      /\ tx_buffers' = [tx_buffers EXCEPT ![tx_card] = NoPacket] /\ tx_card' = next
      /\ UNCHANGED <<stage, at, up, rx_buffer, rx_offset, capr, cbr, tx_cur, rewound, overrun>>
  BY DEF R!Transmit, R!rx, R!flaws
<1>2. stage = "up"
  <2>1. ~RTx(0)
    BY <1>1, RSizes, SlotZero DEF RTx
  <2>2. QED  BY <2>1 DEF RInv, REarly
<1>3. R!TypeOK'
  BY RTypeStep DEF RInv
<1>4. REarly'
  BY <1>1, <1>2 DEF REarly
<1>5. RxStep
  BY <1>1, RxIdle
<1>6. ASSUME ~overrun' PROVE TxStep
  <2>1. ~overrun
    BY <1>1, <1>6
  <2>2. PICK d \in Nat : RTx(d)
    BY <2>1 DEF RInv
  <2> DEFINE o == Queue(tx_buffers, m, tx_card, d)
             d2 == d - 1
  <2>3. /\ m \in Nat \ {0} /\ IsRing(tx_buffers, m, tx_card, d) /\ d \in 0 .. m
        /\ tx_card \in 0 .. m - 1 /\ tx_cur = (tx_card + d) % m
    BY <2>2, RSizes DEF RTx, IsRing
  <2>4. d > 0
    BY <1>1, <2>3, SlotZero
  <2>5. /\ tx_buffers[tx_card] \in PACKETS /\ o # <<>> /\ Head(o) = tx_buffers[tx_card]
        /\ IsRing(tx_buffers', m, next, d - 1) /\ Queue(tx_buffers', m, next, d - 1) = Tail(o)
    <3>1. tx_buffers[tx_card] \in PACKETS /\ o # <<>> /\ Head(o) = tx_buffers[tx_card]
      BY <2>3, <2>4, RingHead
    <3>2. ASSUME NEW s, s = [tx_buffers EXCEPT ![tx_card] = NoPacket],
                 NEW f, f = (tx_card + 1) % m, NEW c, c = d - 1
          PROVE  IsRing(s, m, f, c) /\ Queue(s, m, f, c) = Tail(o)
      <4>1. IsRing(s, m, f, c)
        BY <2>3, <2>4, <3>2, RingTake
      <4>2. Taken(tx_buffers, m, tx_card, d, s, f, c)
        BY <2>3, <2>4, <3>2, RingTake
      <4>3. QED  BY <4>1, <4>2 DEF Taken
    <3>3. QED  BY <1>1, <3>1, <3>2, Zenon
  <2>6. d2 \in Nat /\ RTx(d2)'
    <3>1. d - 1 \in Nat
      BY <2>4
    <3>2. tx_cur' = (tx_card' + (d - 1)) % m
      <4>1. d - 1 \in 0 .. m - 1 /\ (d - 1) + 1 = d
        BY <2>3, <2>4
      <4>2. (next + (d - 1)) % m = (tx_card + ((d - 1) + 1)) % m
        BY <2>3, <4>1, NextSlot
      <4>3. QED  BY <1>1, <2>3, <4>1, <4>2
    <3>3. IsRing(tx_buffers', m, tx_card', d - 1)
      BY <1>1, <2>5
    <3>4. QED  BY <3>1, <3>2, <3>3, Zenon DEF RTx
  <2>7. OutStep(o, Queue(tx_buffers', TX_BUF_COUNT, tx_card', d2))
    BY <1>1, <2>5 DEF OutStep
  <2> HIDE DEF d2
  <2>8. QED  BY <2>1, <2>2, <2>6, <2>7, TxIs
<1>7. TxStep
  BY <1>6 DEF TxStep
<1>8. QED  BY <1>3, <1>4, <1>5, <1>7, RStepIs

\* send fills a buffer.
LEMMA RSend == ASSUME RInv, NEW p \in PACKETS, R!Send(p) PROVE RStep
<1> DEFINE m == TX_BUF_COUNT
<1>1. /\ stage = "up"
      /\ tx_buffers' = [tx_buffers EXCEPT ![tx_cur] = p] /\ tx_cur' = (tx_cur + 1) % m
      /\ overrun' = (overrun \/ tx_buffers[tx_cur] # NoPacket)
      /\ UNCHANGED <<stage, at, up, wire, rx_buffer, rx_offset, capr, cbr, tx_card, rewound>>
  BY DEF R!Send, R!NextTx, R!rx
<1>2. R!TypeOK'
  BY RTypeStep DEF RInv
<1>3. REarly'
  BY <1>1 DEF REarly
<1>4. RxStep
  BY <1>1, RxIdle
<1>5. ASSUME ~overrun' PROVE TxStep
  <2>1. ~overrun /\ tx_buffers[tx_cur] = NoPacket
    BY <1>1, <1>5
  <2>2. PICK d \in Nat : RTx(d)
    BY <2>1 DEF RInv
  <2> DEFINE o == Queue(tx_buffers, m, tx_card, d)
             d2 == d + 1
  <2>3. /\ m \in Nat \ {0} /\ IsRing(tx_buffers, m, tx_card, d) /\ d \in 0 .. m
        /\ tx_card \in 0 .. m - 1 /\ tx_cur = (tx_card + d) % m /\ p # NoPacket
    BY <2>2, RSizes DEF RTx, IsRing
  <2>4. d < m /\ d \in 0 .. m - 1 /\ d2 \in 0 .. m
    <3>1. ASSUME d = m PROVE FALSE
      <4>1. (tx_card + m) % m = tx_card
        BY <2>3, NextSlot
      <4>2. tx_cur = tx_card
        BY <2>3, <3>1, <4>1
      <4>3. d > 0
        BY <2>3, <3>1
      <4>4. QED  BY <2>1, <2>3, <4>2, <4>3, SlotZero
    <3>2. QED  BY <2>3, <3>1
  <2>5. IsRing(tx_buffers', m, tx_card, d2) /\ Queue(tx_buffers', m, tx_card, d2) = Append(o, p)
    <3>1. ASSUME NEW s, s = [tx_buffers EXCEPT ![tx_cur] = p], NEW c, c = d + 1
          PROVE  IsRing(s, m, tx_card, c) /\ Queue(s, m, tx_card, c) = Append(o, p)
      <4>1. IsRing(s, m, tx_card, c)
        BY <2>3, <2>4, <3>1, RingPut
      <4>2. Put(tx_buffers, m, tx_card, d, s, c, p)
        BY <2>3, <2>4, <3>1, RingPut
      <4>3. QED  BY <4>1, <4>2 DEF Put
    <3>2. QED  BY <1>1, <3>1, Zenon
  <2>6. tx_cur' = (tx_card + (d + 1)) % m
    BY <1>1, <2>3, <2>4, SlotNext
  <2>7. d2 \in Nat /\ RTx(d2)'
    <3>1. d2 \in Nat
      BY <2>3
    <3>2. tx_cur' = (tx_card' + d2) % m
      BY <1>1, <2>6
    <3> HIDE DEF d2
    <3>3. QED  BY <1>1, <2>5, <3>1, <3>2 DEF RTx
  <2> HIDE DEF d2
  <2>8. OutStep(o, Queue(tx_buffers', TX_BUF_COUNT, tx_card', d2))
    BY <1>1, <2>5 DEF OutStep
  <2>9. QED  BY <2>1, <2>2, <2>7, <2>8, TxIs
<1>6. TxStep
  BY <1>5 DEF TxStep
<1>7. QED  BY <1>2, <1>3, <1>4, <1>6, RStepIs

-----------------------------------------------------------------------------
(* Both cards.                                                              *)

FlagsOK == rewound \in BOOLEAN /\ overrun \in BOOLEAN

IInv ==
    /\ card \in Cards /\ \E m \in MACHINES : card = net_init(m)
    /\ card = "e1000" => EInv
    /\ FlagsOK
    /\ card = "e1000" => ~rewound /\ ~overrun
    /\ card # "e1000" => RInv

LEMMA EUnmoved == ASSUME EInv, UNCHANGED vars PROVE EStep
<1>1. /\ UNCHANGED <<stage, at, up, wire, tx_cur, rx_descs, rx_cur, rdh, rdt, tx_descs, tdh>>
      /\ E!TypeOK
  BY DEF vars, e1000_only, EInv
<1>2. {icr, ims, handled, cleared}' \subseteq BOOLEAN
  BY <1>1, Zenon DEF vars, e1000_only, E!TypeOK
<1>3. E!TypeOK'
  <2>1. stage' \in {E!Stages[i] : i \in DOMAIN E!Stages} \cup {"failed"} /\ at' \in {"idle", "poll", "net"}
        /\ {up, wire}' \subseteq PACKETS \cup {NoPacket}
    BY <1>1 DEF E!TypeOK
  <2>2. /\ rx_descs' \in [E!RxRing -> PACKETS \cup {NoPacket}]
        /\ rx_cur' \in E!RxRing /\ rdh' \in E!RxRing /\ rdt' \in E!RxRing
        /\ tx_descs' \in [E!TxRing -> PACKETS \cup {NoPacket}]
        /\ tx_cur' \in E!TxRing /\ tdh' \in E!TxRing
    BY <1>1 DEF E!TypeOK
  <2>3. QED  BY <1>2, <2>1, <2>2, Zenon DEF E!TypeOK, E!RxRing, E!TxRing
<1>4. UNCHANGED <<E!rx, E!tx, up, wire>> /\ (at' = "net" <=> at = "net") /\ (ERunning' <=> ERunning)
  BY <1>1 DEF E!rx, E!tx, ERunning
<1>5. IF ERunning' THEN TRUE ELSE at' = "idle" /\ ~handled'
  BY <1>1, <1>4 DEF EInv, vars, e1000_only
<1>6. QED  BY <1>3, <1>4, <1>5, EQuiet

LEMMA RUnmoved == ASSUME RInv, UNCHANGED vars PROVE RStep
<1>1. UNCHANGED <<stage, at, up, wire, tx_cur, rx_buffer, rx_offset, capr, cbr, isr, imr, status,
                  tx_buffers, tx_card, rewound, overtaken, overrun>>
  BY DEF vars, rtl8139_only
<1>2. R!TypeOK'
  BY <1>1 DEF RInv, R!TypeOK
<1>3. RxStep /\ TxStep /\ (RTx(0) => RTx(0)')
  BY <1>1, RxIdle, TxIdle
<1>4. REarly'
  BY <1>1, <1>3 DEF RInv, REarly
<1>5. QED  BY <1>2, <1>3, <1>4, RStepIs

LEMMA FlagsFirst == ASSUME Init PROVE FlagsOK /\ ~rewound /\ ~overrun
BY Zenon DEF Init, R!Init, FlagsOK

LEMMA FlagsStay == RInv' => FlagsOK'
<1>1. RInv => FlagsOK
  <2>1. RInv => RTypeFlaws
    BY RTypeIs DEF RInv
  <2>2. QED  BY <2>1, Zenon DEF RTypeFlaws, FlagsOK
<1>2. QED  BY <1>1, PTL

LEMMA Initially == Init => IInv /\ In = <<>> /\ Out = <<>>
<1> SUFFICES ASSUME Init PROVE IInv /\ In = <<>> /\ Out = <<>>
  OBVIOUS
<1>1. card \in Cards /\ \E m \in MACHINES : card = net_init(m)
  <2>1. PICK m \in MACHINES : card = net_init(m)
    BY DEF Init
  <2>2. net_init(m) \in Cards
    BY DEF net_init, Cards
  <2>3. QED  BY <2>1, <2>2
<1>2. EInv /\ E!In = <<>> /\ E!Out = <<>>
  BY EInit
<1>3. RInv /\ R!In = <<>> /\ R!Out = <<>>
  BY RInitially
<1>4. QED  BY <1>1, <1>2, <1>3, FlagsFirst DEF IInv, In, Out

\* A step of Link in each direction.
ReceiveStep == ~rewound' => ~rewound /\ InStep(In, In')
SendStep == ~overrun' => ~overrun /\ OutStep(Out, Out')

LEMMA EFinish ==
    ASSUME IInv, card = "e1000", card' = card, UNCHANGED <<rewound, overrun>>, EStep
    PROVE  IInv' /\ ReceiveStep /\ SendStep
<1>1. FlagsOK' /\ ~rewound' /\ ~overrun' /\ ~rewound /\ ~overrun
  BY Zenon DEF IInv, FlagsOK
<1>2. EInv' /\ InStep(In, In') /\ OutStep(Out, Out')
  BY DEF EStep, LinkStep, In, Out
<1>3. card' \in Cards /\ \E m \in MACHINES : card' = net_init(m)
  BY DEF IInv
<1>4. IInv'
  BY <1>1, <1>2, <1>3 DEF IInv
<1>5. QED  BY <1>1, <1>2, <1>4 DEF ReceiveStep, SendStep

LEMMA Steps ==
    ASSUME IInv, [Next]_vars
    PROVE  IInv' /\ ReceiveStep /\ SendStep
<1>1. CASE card = "e1000"
  <2>1. EInv
    BY <1>1 DEF IInv
  <2>2. card' = card /\ UNCHANGED <<rewound, overrun>> /\ ~rewound /\ ~overrun
    BY <1>1 DEF Next, vars, rtl8139_only, Drives, Transmits, Receives, Sends, IInv
  <2>3. CASE Drives
    <3>1. E!Driver
      BY <1>1, <2>3 DEF Drives
    <3>2. EStep
      <4>1. CASE \/ E!e1000_init \/ E!Register \/ E!Unmask \/ E!ClearPending \/ E!Interrupted
                 \/ E!Poll /\ rx_descs[rx_cur] = NoPacket
        BY <2>1, <4>1, EQuietSteps
      <4>2. CASE E!InitRings
        BY <2>1, <4>2, EInitRings
      <4>3. CASE E!Poll /\ rx_descs[rx_cur] # NoPacket
        BY <2>1, <4>3, EHandUp
      <4>4. CASE E!Release
        BY <2>1, <4>4, ERelease
      <4>5. QED  BY <3>1, <4>1, <4>2, <4>3, <4>4 DEF E!Driver
    <3>3. QED  BY <1>1, <2>2, <3>2, EFinish
  <2>4. CASE Transmits
    <3>1. E!Transmit
      BY <1>1, <2>4 DEF Transmits
    <3>2. EStep
      BY <2>1, <3>1, ETransmit
    <3>3. QED  BY <1>1, <2>2, <3>2, EFinish
  <2>5. ASSUME NEW p \in PACKETS, Receives(p) \/ Sends(p)
        PROVE  IInv' /\ ReceiveStep /\ SendStep
    <3>1. E!Receive(p) \/ E!Send(p)
      BY <1>1, <2>5 DEF Receives, Sends
    <3>2. EStep
      BY <2>1, <3>1, EReceive, ESend
    <3>3. QED  BY <1>1, <2>2, <3>2, EFinish
  <2>6. CASE UNCHANGED vars
    <3>1. EStep
      BY <2>1, <2>6, EUnmoved
    <3>2. QED  BY <1>1, <2>2, <3>1, EFinish
  <2>7. QED  BY <2>3, <2>4, <2>5, <2>6 DEF Next
<1>2. CASE card # "e1000"
  <2>1. RInv
    BY <1>2 DEF IInv
  <2>2. card' = card /\ (RInv' => FlagsOK')
    BY FlagsStay DEF Next, vars, Drives, Transmits, Receives, Sends
  <2>3. CASE Drives
    <3>1. R!Driver
      BY <1>2, <2>3 DEF Drives
    <3>2. RStep
      <4>1. CASE \/ R!Enable \/ R!Register \/ R!Interrupted \/ R!Ack
                 \/ R!Poll /\ at' = "ack"
        BY <2>1, <4>1, RQuietSteps
      <4>2. CASE R!Reset \/ R!ResetOffset
        BY <2>1, <4>2, RReset, RResetOffset
      <4>3. CASE R!Poll /\ at' # "ack"
        BY <2>1, <4>3, RHandUp
      <4>4. CASE R!Advance
        BY <2>1, <4>4, RAdvance
      <4>5. QED  BY <3>1, <4>1, <4>2, <4>3, <4>4 DEF R!Driver
    <3>3. QED  BY <1>2, <2>2, <3>2 DEF RStep, RxStep, TxStep, IInv, In, Out, ReceiveStep, SendStep
  <2>4. CASE Transmits
    <3>1. R!Transmit
      BY <1>2, <2>4 DEF Transmits
    <3>2. QED  BY <1>2, <2>1, <2>2, <3>1, RTransmit DEF RStep, RxStep, TxStep, IInv, In, Out, ReceiveStep, SendStep
  <2>5. ASSUME NEW p \in PACKETS, Receives(p) \/ Sends(p)
        PROVE  IInv' /\ ReceiveStep /\ SendStep
    <3>1. R!Receive(p) \/ R!Send(p)
      BY <1>2, <2>5 DEF Receives, Sends
    <3>2. RStep
      BY <2>1, <3>1, RReceive, RSend
    <3>3. QED  BY <1>2, <2>2, <3>2 DEF RStep, RxStep, TxStep, IInv, In, Out, ReceiveStep, SendStep
  <2>6. CASE UNCHANGED vars
    BY <1>2, <2>1, <2>2, <2>6, RUnmoved DEF RStep, RxStep, TxStep, IInv, In, Out, ReceiveStep, SendStep
  <2>7. QED  BY <2>3, <2>4, <2>5, <2>6 DEF Next
<1>3. QED  BY <1>1, <1>2

LEMMA RoomFollows == ASSUME IInv PROVE RoomReturned
<1>1. ASSUME card = "e1000", E!Reached("rings"), at = "idle", E!In = <<>>
      PROVE  E!AllRoom
  <2> DEFINE m == NUM_RX_DESC
  <2>1. EInv /\ ERunning
    BY <1>1, ReachedIs DEF IInv
  <2>2. PICK d \in Nat : ERx(d)
    BY <2>1 DEF EInv
  <2>3. /\ m \in Nat \ {0} /\ m > 1 /\ rx_cur \in 0 .. m - 1 /\ rdh = (rx_cur + d) % m
        /\ IsRing(rx_descs, m, rx_cur, d) /\ rdt = (rx_cur + (m - 1)) % m
    BY <2>1, <2>2, ESizes DEF ERx, IsRing, EInv, ETail
  <2>4. d = 0
    <3>1. Queue(rx_descs, m, rx_cur, d) = <<>>
      BY <1>1, <2>2, EQueues DEF EIn
    <3>2. Len(Queue(rx_descs, m, rx_cur, d)) = d
      BY <2>3, QueueFacts
    <3>3. Len(<<>>) = 0
      OBVIOUS
    <3>4. QED  BY <3>1, <3>2, <3>3, Zenon
  <2>5. rdh = rx_cur
    <3>1. 0 \in 0 .. m - 1
      BY <2>3
    <3>2. QED  BY <2>3, <2>4, <3>1, NextSlot
  <2>6. rdt = IF rx_cur + (m - 1) < m THEN rx_cur + (m - 1) ELSE rx_cur + (m - 1) - m
    <3>1. m - 1 \in 0 .. m
      BY <2>3
    <3>2. QED  BY <2>3, <3>1, SumMod
  <2>7. \/ rdt - rdh = m * 0 + (m - 1)
        \/ rdt - rdh = m * (-1) + (m - 1)
    <3> HIDE DEF m
    <3>1. CASE rx_cur + (m - 1) < m
      BY <2>3, <2>5, <2>6, <3>1
    <3>2. CASE ~ (rx_cur + (m - 1) < m)
      BY <2>3, <2>5, <2>6, <3>2
    <3>3. QED  BY <3>1, <3>2
  <2>8. \A x : x = m * 0 + (m - 1) \/ x = m * (-1) + (m - 1) => x % m = m - 1
    <3> HIDE DEF m
    <3>1. m - 1 \in 0 .. m - 1
      BY <2>3
    <3>2. QED  BY <2>3, <3>1
  <2>9. QED  BY <2>7, <2>8 DEF E!AllRoom
<1>2. ASSUME card = "rtl8139", ~rewound, at = "idle", R!In = <<>>
      PROVE  R!AllRoom
  <2>1. RRx
    BY <1>2 DEF IInv, RInv
  <2>2. PICK q : Holds(rx_buffer, capr, cbr, q)
    BY <2>1 DEF RRx
  <2>3. q = <<>>
    BY <1>2, <2>1, <2>2, RInIs DEF RRx
  <2>4. capr = cbr
    BY <2>1, <2>2, <2>3, HoldsFacts DEF RRx, RInStep
  <2>5. QED  BY <2>4 DEF R!AllRoom, R!Room
<1>3. QED  BY <1>1, <1>2 DEF RoomReturned

-----------------------------------------------------------------------------
(* The theorems.                                                            *)

(* What holds of driver and card between any two steps: the descriptors or  *)
(* the bytes from the driver's position to the card's, and only those, hold *)
(* packets, and the E1000's tail is one behind the driver; of the RTL8139,  *)
(* in each direction, as long as its driver has not lost its place there.   *)
THEOREM InductiveInvariant == Spec => []IInv
<1>1. Init => IInv
  BY Initially
<1>2. IInv /\ [Next]_vars => IInv'
  BY Steps
<1>3. QED  BY <1>1, <1>2, PTL DEF Spec

(* Positions stay inside rings and buffer, and what is handed up and put on *)
(* the wire is packets, or bytes from inside one, also when a place is lost. *)
THEOREM TypeCorrect == Spec => []TypeOK
<1>1. IInv => TypeOK
  BY DEF IInv, TypeOK, EInv, RInv
<1>2. QED  BY <1>1, InductiveInvariant, PTL

(* The packet net_handle_packet reads in the card's memory stays what it    *)
(* was when it was handed up, however many packets come meanwhile, unless   *)
(* the RTL8139's driver has lost its place.                                 *)
THEOREM PacketIntactAlways == Spec => []PacketIntact
<1>1. IInv => PacketIntact
  BY DEF IInv, PacketIntact, EInv, EHandled, E!InUse, RInv, RRx, RHandled, RInStep, R!InUse
<1>2. QED  BY <1>1, InductiveInvariant, PTL

(* Once the driver has handed up all there is, the card may fill the whole  *)
(* ring but one descriptor, or the whole buffer if the driver has not lost  *)
(* its place in it.                                                         *)
THEOREM RoomReturnedAlways == Spec => []RoomReturned
<1>1. IInv => RoomReturned
  BY RoomFollows
<1>2. QED  BY <1>1, InductiveInvariant, PTL

(* Both drivers, with their cards, are the two queues of module Link: what  *)
(* the card accepts is handed up once each and in order, what send takes    *)
(* goes on the wire once each and in order, but that the RTL8139's may lose *)
(* its place in one queue, by rx_offset = 0 or by filling a waiting buffer. *)
THEOREM DriversImplementLink == Spec => ImplementsLink
<1>1. Init => L!Init
  BY Initially DEF L!Init, Init, E!Init, R!Init
<1>2. IInv /\ [Next]_vars => [L!Receiving]_(L!receiving) /\ [L!Sending]_(L!sending)
  <2> SUFFICES ASSUME IInv, [Next]_vars
               PROVE  [L!Receiving]_(L!receiving) /\ [L!Sending]_(L!sending)
    OBVIOUS
  <2>1. ReceiveStep /\ SendStep /\ FlagsOK /\ FlagsOK'
    BY Steps DEF IInv
  <2>2. [L!Receiving]_(L!receiving)
    <3>1. CASE rewound'
      BY <2>1, <3>1, Zenon DEF L!Receiving, L!Rewind, FlagsOK
    <3>2. CASE ~rewound'
      <4>1. rewound' = rewound /\ InStep(In, In')
        BY <2>1, <3>2, Zenon DEF ReceiveStep, FlagsOK
      <4>2. QED  BY <4>1 DEF InStep, L!Receiving, L!Receive, L!HandUp, L!receiving
    <3>3. QED  BY <3>1, <3>2
  <2>3. [L!Sending]_(L!sending)
    <3>1. CASE overrun'
      BY <2>1, <3>1, Zenon DEF L!Sending, L!Overrun, FlagsOK
    <3>2. CASE ~overrun'
      <4>1. overrun' = overrun /\ OutStep(Out, Out')
        BY <2>1, <3>2, Zenon DEF SendStep, FlagsOK
      <4>2. QED  BY <4>1 DEF OutStep, L!Sending, L!Send, L!Transmit, L!sending
    <3>3. QED  BY <3>1, <3>2
  <2>4. QED  BY <2>2, <2>3
<1>3. QED  BY <1>1, <1>2, InductiveInvariant, PTL DEF Spec, ImplementsLink, L!Spec

=============================================================================
