------------------------ MODULE TrafficReplay_proofs ------------------------
(***************************************************************************)
(* For any number of senders, addresses, lines and tasks: the generator    *)
(* maps addresses one to one into the networks of their senders, its files *)
(* hold only packets for other senders, numbered without a gap, as long as *)
(* the networks suffice, and the tag of a packet tells what the sender put *)
(* into it.                                                                *)
(***************************************************************************)
EXTENDS TrafficReplay, TLAPS

(* Facts about \div and % for any divisor. *)
LEMMA Division ==
  ASSUME NEW n \in Nat, NEW p \in Nat \ {0}
  PROVE  /\ n \div p \in Nat /\ n % p \in 0 .. p - 1
         /\ n = p * (n \div p) + (n % p)
<1>1. n \div p \in Nat
  OBVIOUS
<1>2. n % p \in 0 .. p - 1
  OBVIOUS
<1>3. n = p * (n \div p) + (n % p)
  OBVIOUS
<1> QED
  BY <1>1, <1>2, <1>3

(* Of two numbers in different blocks of p the later is p or more larger   *)
(* than the start of the earlier.                                          *)
LEMMA BlocksApart ==
  ASSUME NEW p \in Nat \ {0}, NEW x \in Nat, NEW y \in Nat,
         NEW r \in 0 .. p - 1, NEW s \in 0 .. p - 1, x < y
  PROVE  p * x + r < p * y + s
<1>1. p * (x + 1) <= p * y
  OBVIOUS
<1>2. p * (x + 1) = p * x + p
  OBVIOUS
<1>3. p * x \in Nat /\ p * y \in Nat
  OBVIOUS
<1> QED
  BY <1>1, <1>2, <1>3

LEMMA BlocksEqual ==
  ASSUME NEW p \in Nat \ {0}, NEW x \in Nat, NEW y \in Nat,
         NEW r \in 0 .. p - 1, NEW s \in 0 .. p - 1, p * x + r = p * y + s
  PROVE  x = y /\ r = s
<1>1. p * x \in Nat /\ p * y \in Nat
  OBVIOUS
<1>2. ~ (x < y)
  <2>1. SUFFICES ASSUME x < y PROVE FALSE
    OBVIOUS
  <2>2. p * x + r < p * y + s
    BY <2>1, BlocksApart
  <2> QED
    BY <2>2, <1>1
<1>3. ~ (y < x)
  <2>1. SUFFICES ASSUME y < x PROVE FALSE
    OBVIOUS
  <2>2. p * y + s < p * x + r
    BY <2>1, BlocksApart
  <2> QED
    BY <2>2, <1>1
<1>4. x = y
  BY <1>2, <1>3
<1> QED
  BY <1>4, <1>1

LEMMA DivisionOf ==
  ASSUME NEW p \in Nat \ {0}, NEW x \in Nat, NEW r \in 0 .. p - 1
  PROVE  (p * x + r) \div p = x
<1> DEFINE n == p * x + r
           d == n \div p
           e == n % p
<1>1. n \in Nat
  <2>1. p * x \in Nat
    OBVIOUS
  <2> QED
    BY <2>1
<1>2. d \in Nat /\ e \in 0 .. p - 1 /\ n = p * d + e
  <2> HIDE DEF n
  <2> QED
    BY <1>1, Division
<1>3. p * d + e = p * x + r
  BY <1>2
<1> HIDE DEF d, e
<1>4. d = x
  BY <1>2, <1>3, BlocksEqual
<1> QED
  BY <1>4 DEF d
-----------------------------------------------------------------------------
Capacity == NumSenders * SenderIps

(* The n-th address is address (n - 1) \div NumSenders of its node's       *)
(* network.                                                                *)
LEMMA Place ==
  ASSUME NEW n \in Nat \ {0}, n <= Capacity
  PROVE  /\ NodeOf(n) \in Node
         /\ (n - 1) \div NumSenders \in 0 .. SenderIps - 1
         /\ IpOf(n) = SenderIps * (FirstPrefix + NodeOf(n)) + ((n - 1) \div NumSenders)
         /\ IpOf(n) \in Addr
         /\ SenderIdx(IpOf(n)) = NodeOf(n)
<1>0. /\ NumSenders \in Nat \ {0} /\ SenderIps \in Nat \ {0} /\ FirstPrefix \in Nat
      /\ IntMod \in Nat /\ 2 * ((FirstPrefix + NumSenders) * SenderIps) <= IntMod
  BY GeneratorAssumption
<1> DEFINE i == NodeOf(n)
           q == (n - 1) \div NumSenders
           e == (n - 1) % NumSenders
           x == FirstPrefix + i
<1>1. i \in 0 .. NumSenders - 1
  BY <1>0, Division DEF NodeOf
<1>2. q \in Nat /\ e \in 0 .. NumSenders - 1 /\ n - 1 = NumSenders * q + e
  <2>1. n - 1 \in Nat
    OBVIOUS
  <2> QED
    BY <2>1, <1>0, Division
<1> HIDE DEF i, q, e
<1>3. q < SenderIps
  <2>1. SUFFICES ASSUME SenderIps <= q PROVE FALSE
    BY <1>0, <1>2
  <2>2. NumSenders * SenderIps <= NumSenders * q
    BY <2>1, <1>0, <1>2
  <2>3. NumSenders * SenderIps \in Nat /\ NumSenders * q \in Nat
    BY <1>0, <1>2
  <2> QED
    BY <2>2, <2>3, <1>2 DEF Capacity
<1>4. x \in Nat /\ x < FirstPrefix + NumSenders
  BY <1>0, <1>1
<1> HIDE DEF x
<1>5. SenderIps * x + q < SenderIps * (FirstPrefix + NumSenders) + 0
  BY <1>0, <1>2, <1>3, <1>4, BlocksApart
<1>6. SenderIps * x \in Nat /\ SenderIps * (FirstPrefix + NumSenders) \in Nat
  BY <1>0, <1>4
<1>7. (FirstPrefix + NumSenders) * SenderIps = SenderIps * (FirstPrefix + NumSenders)
  BY <1>0
<1>8. SenderIps * x + q \in 0 .. IntMod - 1
  BY <1>0, <1>2, <1>5, <1>6, <1>7
<1>9. (SenderIps * x + q) % IntMod = SenderIps * x + q
  <2> DEFINE z == SenderIps * x + q
  <2> HIDE DEF z
  <2>1. z \in 0 .. IntMod - 1
    BY <1>8 DEF z
  <2>2. z % IntMod = z
    BY <2>1, <1>0
  <2> QED
    BY <2>2 DEF z
<1>10. x * SenderIps = SenderIps * x
  BY <1>0, <1>4
<1>11. IpOf(n) = SenderIps * x + q
  <2>1. StartIp(NodeOf(n)) = x * SenderIps
    BY DEF StartIp, x, i
  <2>2. IpOf(n) = (x * SenderIps + q) % IntMod
    BY <2>1 DEF IpOf, q
  <2> QED
    BY <2>2, <1>9, <1>10
<1>12. (SenderIps * x + q) \div SenderIps = x
  BY <1>0, <1>2, <1>3, <1>4, DivisionOf
<1>13. SenderIdx(IpOf(n)) = i
  BY <1>11, <1>12, <1>0, <1>1 DEF SenderIdx, x
<1>14. IpOf(n) \in Addr
  BY <1>11, <1>8 DEF Addr
<1>15. NodeOf(n) \in Node
  BY <1>1 DEF Node, i
<1>16. (n - 1) \div NumSenders \in 0 .. SenderIps - 1
  <2>1. q \in 0 .. SenderIps - 1
    BY <1>0, <1>2, <1>3
  <2> QED
    BY <2>1 DEF q
<1>17. IpOf(n) = SenderIps * (FirstPrefix + NodeOf(n)) + ((n - 1) \div NumSenders)
  BY <1>11 DEF q, x, i
<1>18. SenderIdx(IpOf(n)) = NodeOf(n)
  BY <1>13 DEF i
<1> QED
  BY <1>14, <1>15, <1>16, <1>17, <1>18

(* No two numbers give one address. *)
LEMMA PlacesDiffer ==
  ASSUME NEW n \in Nat \ {0}, NEW k \in Nat \ {0}, n <= Capacity, k <= Capacity,
         IpOf(n) = IpOf(k)
  PROVE  n = k
<1>0. NumSenders \in Nat \ {0} /\ SenderIps \in Nat \ {0} /\ FirstPrefix \in Nat
  BY GeneratorAssumption
<1>1. NodeOf(n) = NodeOf(k)
  BY Place
<1>2. (n - 1) \div NumSenders = (k - 1) \div NumSenders
  <2> DEFINE q == (n - 1) \div NumSenders
             r == (k - 1) \div NumSenders
             x == FirstPrefix + NodeOf(n)
  <2>1. q \in 0 .. SenderIps - 1 /\ r \in 0 .. SenderIps - 1 /\ x \in Nat
    BY Place, <1>0 DEF Node
  <2>2. SenderIps * x + q = SenderIps * x + r
    BY Place, <1>1
  <2> HIDE DEF q, r, x
  <2>3. q = r
    BY <2>1, <2>2, <1>0, BlocksEqual
  <2> QED
    BY <2>3 DEF q, r
<1> DEFINE q == (n - 1) \div NumSenders
           e == (n - 1) % NumSenders
           f == (k - 1) % NumSenders
           a == n \div NumSenders
           b == k \div NumSenders
           r == n % NumSenders
<1>3. q \in Nat /\ e \in 0 .. NumSenders - 1 /\ n - 1 = NumSenders * q + e
  <2>1. n - 1 \in Nat
    OBVIOUS
  <2> QED
    BY <2>1, <1>0, Division
<1>4. f \in 0 .. NumSenders - 1 /\ k - 1 = NumSenders * q + f
  <2>1. k - 1 \in Nat
    OBVIOUS
  <2> QED
    BY <2>1, <1>0, <1>2, Division
<1>5. a \in Nat /\ r \in 0 .. NumSenders - 1 /\ n = NumSenders * a + r
  BY <1>0, Division
<1>6. b \in Nat /\ k = NumSenders * b + r
  BY <1>0, <1>1, Division DEF NodeOf
<1> HIDE DEF q, e, f, a, b, r
<1>7. NumSenders * q \in Nat /\ NumSenders * a \in Nat /\ NumSenders * b \in Nat
  BY <1>0, <1>3, <1>5, <1>6
<1>8. n - k = e - f
  BY <1>3, <1>4, <1>7
<1>9. ~ (a < b)
  <2>1. SUFFICES ASSUME a < b PROVE FALSE
    OBVIOUS
  <2>2. NumSenders * (a + 1) <= NumSenders * b
    BY <2>1, <1>0, <1>5, <1>6
  <2>3. NumSenders * (a + 1) = NumSenders * a + NumSenders
    BY <1>0, <1>5
  <2> QED
    BY <2>2, <2>3, <1>0, <1>3, <1>4, <1>5, <1>6, <1>7, <1>8
<1>10. ~ (b < a)
  <2>1. SUFFICES ASSUME b < a PROVE FALSE
    OBVIOUS
  <2>2. NumSenders * (b + 1) <= NumSenders * a
    BY <2>1, <1>0, <1>5, <1>6
  <2>3. NumSenders * (b + 1) = NumSenders * b + NumSenders
    BY <1>0, <1>6
  <2> QED
    BY <2>2, <2>3, <1>0, <1>3, <1>4, <1>5, <1>6, <1>7, <1>8
<1>11. a = b
  BY <1>5, <1>6, <1>9, <1>10
<1> QED
  BY <1>5, <1>6, <1>11
-----------------------------------------------------------------------------
(* Every number gives a node and an address, whether or not the networks   *)
(* suffice.                                                                *)
LEMMA PlaceType ==
  ASSUME NEW n \in Nat \ {0}
  PROVE  NodeOf(n) \in Node /\ IpOf(n) \in Addr
<1>0. /\ NumSenders \in Nat \ {0} /\ SenderIps \in Nat \ {0} /\ FirstPrefix \in Nat
      /\ IntMod \in Nat /\ 2 * ((FirstPrefix + NumSenders) * SenderIps) <= IntMod
  BY GeneratorAssumption
<1>1. NodeOf(n) \in Node
  BY <1>0, Division DEF NodeOf, Node
<1>2. IntMod \in Nat \ {0}
  <2>1. (FirstPrefix + NumSenders) * SenderIps \in Nat \ {0}
    BY <1>0
  <2> QED
    BY <1>0, <2>1
<1>3. StartIp(NodeOf(n)) + ((n - 1) \div NumSenders) \in Nat
  <2>1. NodeOf(n) \in Nat
    BY <1>0, <1>1 DEF Node
  <2>2. StartIp(NodeOf(n)) \in Nat
    BY <1>0, <2>1 DEF StartIp
  <2>3. n - 1 \in Nat
    OBVIOUS
  <2>4. (n - 1) \div NumSenders \in Nat
    BY <2>3, <1>0, Division
  <2> QED
    BY <2>2, <2>4
<1>4. IpOf(n) \in Addr
  BY <1>2, <1>3, Division DEF IpOf, Addr
<1> QED
  BY <1>1, <1>4

MapRec == [idx : [Ip -> Node \cup {Absent}], ip : [Ip -> Addr \cup {Absent}],
           num : Nat]

(* What holds of the maps after any number of look-ups: an address has     *)
(* both of its entries or none, they are those of a number that was given  *)
(* out, and no address was given twice while the networks sufficed.        *)
PlacedOK(m, a) ==
  /\ m.ip[a] \in Addr
  /\ \E n \in 1 .. m.num : m.idx[a] = NodeOf(n) /\ m.ip[a] = IpOf(n)
MapOK(m) ==
  /\ m \in MapRec
  /\ \A a \in Ip : m.idx[a] = Absent => m.ip[a] = Absent
  /\ \A a \in Ip : m.idx[a] # Absent => PlacedOK(m, a)
  /\ m.num <= Capacity =>
       \A a, b \in Ip : (a # b /\ m.idx[a] # Absent) => m.ip[a] # m.ip[b]

LEMMA CapacityNat == Capacity \in Nat
<1>1. NumSenders \in Nat /\ SenderIps \in Nat
  BY GeneratorAssumption
<1> QED
  BY <1>1 DEF Capacity

(* One look-up keeps that, finds the address afterwards and leaves the     *)
(* others alone.                                                           *)
LEMMA LookUp ==
  ASSUME NEW m, MapOK(m), NEW a \in Ip
  PROVE  /\ MapOK(Mapped(m, a))
         /\ Mapped(m, a).idx[a] # Absent
         /\ Mapped(m, a).num >= m.num
         /\ \A b \in Ip : m.idx[b] # Absent => Mapped(m, a).idx[b] # Absent
<1>0. m \in MapRec /\ m.num \in Nat
  BY DEF MapOK, MapRec
<1>1. CASE m.idx[a] # Absent
  BY <1>0, <1>1 DEF Mapped
<1>2. CASE m.idx[a] = Absent
  <2> DEFINE n == m.num + 1
             w == Mapped(m, a)
  <2>1. w = [idx |-> [m.idx EXCEPT ![a] = NodeOf(n)],
             ip  |-> [m.ip EXCEPT ![a] = IpOf(n)], num |-> n]
    BY <1>2 DEF Mapped
  <2>2. n \in Nat \ {0}
    BY <1>0
  <2>3. NodeOf(n) \in Node /\ IpOf(n) \in Addr
    BY <2>2, PlaceType
  <2>4. NodeOf(n) # Absent /\ IpOf(n) # Absent
    <3>1. Node \subseteq Nat /\ Addr \subseteq Nat
      BY GeneratorAssumption DEF Node, Addr
    <3> QED
      BY <3>1, <2>3 DEF Absent
  <2>5. m.idx \in [Ip -> Node \cup {Absent}] /\ m.ip \in [Ip -> Addr \cup {Absent}]
    BY <1>0 DEF MapRec
  <2>6. /\ w.num = n
        /\ \A b \in Ip : /\ w.idx[b] = IF b = a THEN NodeOf(n) ELSE m.idx[b]
                         /\ w.ip[b] = IF b = a THEN IpOf(n) ELSE m.ip[b]
    BY <2>1, <2>5
  <2>7. w \in MapRec
    <3>1. [m.idx EXCEPT ![a] = NodeOf(n)] \in [Ip -> Node \cup {Absent}]
      BY <2>3, <2>5
    <3>2. [m.ip EXCEPT ![a] = IpOf(n)] \in [Ip -> Addr \cup {Absent}]
      BY <2>3, <2>5
    <3> QED
      BY <3>1, <3>2, <2>1, <2>2 DEF MapRec
  <2> HIDE DEF n, w
  <2>8. \A b \in Ip : w.idx[b] = Absent => w.ip[b] = Absent
    BY <2>4, <2>6 DEF MapOK
  <2>9. \A b \in Ip : w.idx[b] # Absent => PlacedOK(w, b)
    <3>1. SUFFICES ASSUME NEW b \in Ip, w.idx[b] # Absent PROVE PlacedOK(w, b)
      OBVIOUS
    <3>2. CASE b = a
      <4>1. n \in 1 .. w.num
        BY <2>2, <2>6
      <4> QED
        BY <4>1, <3>2, <2>3, <2>6 DEF PlacedOK
    <3>3. CASE b # a
      <4>1. PlacedOK(m, b)
        BY <3>1, <3>3, <2>6 DEF MapOK
      <4>2. PICK k \in 1 .. m.num : m.idx[b] = NodeOf(k) /\ m.ip[b] = IpOf(k)
        BY <4>1 DEF PlacedOK
      <4>3. k \in 1 .. w.num
        BY <2>6, <1>0 DEF n
      <4> QED
        BY <4>1, <4>2, <4>3, <3>3, <2>6 DEF PlacedOK
    <3> QED
      BY <3>2, <3>3
  <2>10. ASSUME n <= Capacity, NEW b \in Ip, m.idx[b] # Absent
         PROVE  m.ip[b] # IpOf(n)
    <3>1. PICK k \in 1 .. m.num : m.ip[b] = IpOf(k)
      BY <2>10 DEF MapOK, PlacedOK
    <3>2. k \in Nat \ {0} /\ k # n /\ k <= n
      BY <1>0 DEF n
    <3>3. k <= Capacity
      BY <3>2, <2>2, <2>10, CapacityNat
    <3> QED
      BY <3>1, <3>2, <3>3, <2>2, <2>10, PlacesDiffer
  <2>11. ASSUME w.num <= Capacity, NEW b \in Ip, NEW c \in Ip, b # c,
                w.idx[b] # Absent
         PROVE  w.ip[b] # w.ip[c]
    <3>1. n <= Capacity /\ m.num <= Capacity
      BY <2>11, <2>6, <1>0, CapacityNat DEF n
    <3>2. CASE b = a
      <4>1. CASE m.idx[c] = Absent
        BY <4>1, <3>2, <2>4, <2>6, <2>11 DEF MapOK
      <4>2. CASE m.idx[c] # Absent
        BY <4>2, <3>1, <3>2, <2>6, <2>10, <2>11
      <4> QED
        BY <4>1, <4>2
    <3>3. CASE c = a
      <4>1. m.idx[b] # Absent
        BY <3>3, <2>6, <2>11
      <4> QED
        BY <4>1, <3>1, <3>3, <2>6, <2>10, <2>11
    <3>4. CASE b # a /\ c # a
      BY <3>1, <3>4, <2>6, <2>11 DEF MapOK
    <3> QED
      BY <3>2, <3>3, <3>4
  <2>12. MapOK(w)
    BY <2>7, <2>8, <2>9, <2>11 DEF MapOK
  <2>13. w.num >= m.num
    BY <2>6, <1>0 DEF n
  <2>14. w.idx[a] # Absent /\ \A b \in Ip : m.idx[b] # Absent => w.idx[b] # Absent
    BY <2>4, <2>6
  <2> QED
    BY <2>12, <2>13, <2>14 DEF w
<1> QED
  BY <1>1, <1>2
-----------------------------------------------------------------------------
CurrentMaps == [idx |-> srcip_to_node_idx_map, ip |-> srcip_to_node_srcip_map,
                num |-> unique_ip_num]
KeyOf(p) == <<p.srcip, p.rest>>

(* The number stored under a key is that of its last packet, and a key is  *)
(* stored only if it has a packet.                                         *)
LastStored ==
  NetworksSuffice =>
    \A i \in Node : \A j \in 1 .. Len(files[i]) :
      (\A h \in 1 .. Len(files[i]) : KeyOf(files[i][h]) = KeyOf(files[i][j]) => h <= j)
        => /\ KeyOf(files[i][j]) \in DOMAIN flow_seqid_hashmap
           /\ flow_seqid_hashmap[KeyOf(files[i][j])] = files[i][j].seqid
StoredHasPacket ==
  NetworksSuffice =>
    \A k \in DOMAIN flow_seqid_hashmap :
      \E i \in Node : \E j \in 1 .. Len(files[i]) : KeyOf(files[i][j]) = k
HashType ==
  /\ DOMAIN flow_seqid_hashmap \subseteq Key
  /\ \A k \in DOMAIN flow_seqid_hashmap : flow_seqid_hashmap[k] \in 0 .. SeqMod - 1
FileType == files \in [Node -> Seq(Packet)]

GenInv ==
  /\ MapOK(CurrentMaps)
  /\ HashType /\ FileType /\ read_num_lines \in Nat
  /\ FilesAreReplayable /\ SeqidsCount /\ LastStored /\ StoredHasPacket

LEMMA InNetwork ==
  ASSUME NEW m, MapOK(m), m.num <= Capacity, NEW a \in Ip, m.idx[a] # Absent
  PROVE  SenderIdx(m.ip[a]) = m.idx[a] /\ m.idx[a] \in Node
<1>1. PICK n \in 1 .. m.num : m.idx[a] = NodeOf(n) /\ m.ip[a] = IpOf(n)
  BY DEF MapOK, PlacedOK
<1>2. m.num \in Nat
  BY DEF MapOK, MapRec
<1>3. n \in Nat \ {0} /\ n <= Capacity
  BY <1>2, CapacityNat
<1> QED
  BY <1>1, <1>3, Place

LEMMA InjectiveFromMaps ==
  ASSUME MapOK(CurrentMaps)
  PROVE  MappingIsInjective
<1> DEFINE m == CurrentMaps
<1>1. /\ m.idx = srcip_to_node_idx_map /\ m.ip = srcip_to_node_srcip_map
      /\ m.num = unique_ip_num
  BY DEF CurrentMaps
<1> HIDE DEF m
<1>2. MapOK(m)
  BY DEF m
<1>3. SUFFICES ASSUME NetworksSuffice, NEW a \in Ip, m.idx[a] # Absent
               PROVE  /\ SenderIdx(m.ip[a]) = m.idx[a]
                      /\ \A b \in Ip : b # a => m.ip[b] # m.ip[a]
  BY <1>1 DEF MappingIsInjective
<1>4. m.num <= Capacity
  BY <1>1, <1>3 DEF NetworksSuffice, Capacity
<1>5. SenderIdx(m.ip[a]) = m.idx[a]
  BY <1>2, <1>3, <1>4, InNetwork
<1>6. \A b \in Ip : b # a => m.ip[b] # m.ip[a]
  BY <1>2, <1>3, <1>4 DEF MapOK
<1> QED
  BY <1>5, <1>6

(* The maps after both look-ups of a line. *)
LEMMA LineLookUps ==
  ASSUME MapOK(CurrentMaps), NEW l \in Line
  PROVE  LET m == LineMaps(l)
         IN  /\ MapOK(m)
             /\ m.idx[l.src] # Absent /\ m.idx[l.dst] # Absent
             /\ m.idx[l.src] \in Node
             /\ m.ip[l.src] \in Addr /\ m.ip[l.dst] \in Addr
             /\ m.num \in Nat /\ m.num >= unique_ip_num
<1>1. l.src \in Ip /\ l.dst \in Ip
  BY DEF Line
<1> DEFINE v == Mapped(CurrentMaps, l.src)
           m == Mapped(v, l.dst)
<1>2. m = LineMaps(l)
  BY DEF LineMaps, CurrentMaps
<1>3. CurrentMaps.num = unique_ip_num
  BY DEF CurrentMaps
<1>4. /\ MapOK(v) /\ v.idx[l.src] # Absent /\ v.num >= unique_ip_num
  BY <1>1, <1>3, LookUp
<1> HIDE DEF v
<1>5. /\ MapOK(m) /\ m.idx[l.dst] # Absent /\ m.num >= v.num
      /\ m.idx[l.src] # Absent
  BY <1>1, <1>4, LookUp
<1> HIDE DEF m
<1>6. m.num \in Nat /\ v.num \in Nat /\ unique_ip_num \in Nat
  BY <1>3, <1>4, <1>5 DEF MapOK, MapRec
<1>7. m.ip[l.src] \in Addr /\ m.ip[l.dst] \in Addr
  BY <1>1, <1>5 DEF MapOK, PlacedOK
<1>8. m.idx[l.src] \in Node
  BY <1>1, <1>5 DEF MapOK, MapRec
<1>9. m.num >= unique_ip_num
  BY <1>4, <1>5, <1>6
<1> QED
  BY <1>2, <1>5, <1>6, <1>7, <1>8, <1>9

LEMMA StoredMaps ==
  ASSUME NEW m, MapOK(m), StoreMaps(m)
  PROVE  MapOK(CurrentMaps)'
<1>1. m \in MapRec
  BY DEF MapOK
<1>2. CurrentMaps' = m
  BY <1>1 DEF CurrentMaps, StoreMaps, MapRec
<1>3. MapOK(CurrentMaps')
  BY <1>2
<1> QED
  BY <1>3 DEF MapOK, PlacedOK
-----------------------------------------------------------------------------
(* get_seqid_of_flow(): the number after v, the one that is stored. *)
LEMMA NumberAfter ==
  ASSUME HashType, NEW k
  PROVE  /\ NextSeqid(k) \in 1 .. SeqMod - 1
         /\ k \notin DOMAIN flow_seqid_hashmap => NextSeqid(k) = 1
         /\ k \in DOMAIN flow_seqid_hashmap =>
              LET v == flow_seqid_hashmap[k]
              IN  NextSeqid(k) = IF 2 * v >= SeqMod THEN 1 ELSE v + 1
<1>1. SeqMod \in Nat \ {0, 1}
  BY GeneratorAssumption
<1>2. CASE k \notin DOMAIN flow_seqid_hashmap
  <2>1. Stored(k) = -1
    BY <1>2 DEF Stored, Absent
  <2>2. AsInt(-1) = -1
    BY <1>1 DEF AsInt
  <2>3. NextSeqid(k) = 1
    BY <2>1, <2>2 DEF NextSeqid
  <2> QED
    BY <1>1, <1>2, <2>3
<1>3. CASE k \in DOMAIN flow_seqid_hashmap
  <2> DEFINE v == flow_seqid_hashmap[k]
  <2>1. v \in 0 .. SeqMod - 1
    BY <1>3 DEF HashType
  <2>2. NextSeqid(k) = (IF AsInt(v) < 0 THEN 0 ELSE AsInt(v)) + 1
    BY <1>3 DEF NextSeqid, Stored
  <2> HIDE DEF v
  <2>3. AsInt(v) = IF 2 * v >= SeqMod THEN v - SeqMod ELSE v
    BY DEF AsInt
  <2>4. NextSeqid(k) = IF 2 * v >= SeqMod THEN 1 ELSE v + 1
    BY <2>1, <2>2, <2>3, <1>1
  <2>5. NextSeqid(k) \in 1 .. SeqMod - 1
    BY <2>1, <2>4, <1>1
  <2> QED
    BY <1>3, <2>4, <2>5 DEF v
<1> QED
  BY <1>2, <1>3

(* Packets are added to files without moving the earlier ones. *)
LEMMA Appended ==
  ASSUME NEW f \in Seq(Packet), NEW p \in Packet
  PROVE  /\ Append(f, p) \in Seq(Packet)
         /\ Len(Append(f, p)) = Len(f) + 1
         /\ Len(f) \in Nat
         /\ \A j \in 1 .. Len(f) : Append(f, p)[j] = f[j]
         /\ Append(f, p)[Len(f) + 1] = p
  OBVIOUS

LEMMA WriteKeepsInv ==
  ASSUME GenInv, NEW l \in Line, NEW rest \in Garbage, WritePacket(l, rest),
         read_num_lines' \in Nat
  PROVE  GenInv'
<1> DEFINE m == LineMaps(l)
           k == <<m.ip[l.src], rest>>
           i == m.idx[l.src]
           p == [srcip |-> m.ip[l.src], dstip |-> m.ip[l.dst],
                 seqid |-> NextSeqid(k), rest |-> rest, len |-> l.len % LenMod]
<1>0. l.src \in Ip /\ l.dst \in Ip /\ l.len \in Nat
  BY GeneratorAssumption DEF Line
<1>1. /\ MapOK(m)
      /\ m.idx[l.src] # Absent /\ m.idx[l.dst] # Absent
      /\ i \in Node
      /\ m.ip[l.src] \in Addr /\ m.ip[l.dst] \in Addr
      /\ m.num \in Nat /\ m.num >= unique_ip_num
  BY LineLookUps DEF GenInv
<1>2. /\ WellFormed(l) /\ ~ SameSender(m.ip[l.src], m.ip[l.dst]) /\ StoreMaps(m)
      /\ flow_seqid_hashmap' =
           [x \in DOMAIN flow_seqid_hashmap \cup {k} |->
              IF x = k THEN p.seqid ELSE flow_seqid_hashmap[x]]
      /\ files' = [files EXCEPT ![i] = Append(@, p)]
  BY DEF WritePacket
<1>3. HashType /\ FileType /\ FilesAreReplayable /\ SeqidsCount /\ LastStored
      /\ StoredHasPacket
  BY DEF GenInv
<1>4. MapOK(CurrentMaps)'
  BY <1>1, <1>2, StoredMaps
<1>5. p.seqid \in 1 .. SeqMod - 1
  BY <1>3, NumberAfter
<1>6. p \in Packet
  <2>1. l.len % LenMod \in 0 .. LenMod - 1
    BY <1>0, GeneratorAssumption, Division
  <2>2. NextSeqid(k) \in 0 .. SeqMod - 1
    BY <1>5
  <2> QED
    BY <1>1, <2>1, <2>2 DEF Packet
<1>7. KeyOf(p) = k
  BY DEF KeyOf
<1>8. p.srcip = m.ip[l.src] /\ p.dstip = m.ip[l.dst] /\ p.len = l.len % LenMod
      /\ p.seqid = NextSeqid(k) /\ p.rest = rest
  OBVIOUS
<1>9. unique_ip_num' = m.num
  BY <1>2 DEF StoreMaps
<1>10. unique_ip_num \in Nat
  BY DEF GenInv, MapOK, MapRec, CurrentMaps
<1>11. NetworksSuffice' => NetworksSuffice /\ m.num <= Capacity
  BY <1>1, <1>9, <1>10, CapacityNat DEF NetworksSuffice, Capacity
<1>12. k \in Key
  BY <1>1 DEF Key
<1> DEFINE f == files[i]
           g == files'[i]
<1>13. f \in Seq(Packet) /\ files \in [Node -> Seq(Packet)]
  BY <1>1, <1>3 DEF FileType
<1>14. g = Append(f, p) /\ \A h \in Node : h # i => files'[h] = files[h]
  BY <1>1, <1>2, <1>13
<1> HIDE DEF m, k, p, i
<1>15. /\ g \in Seq(Packet) /\ Len(g) = Len(f) + 1 /\ Len(f) \in Nat
       /\ \A j \in 1 .. Len(f) : g[j] = f[j]
       /\ g[Len(f) + 1] = p
  BY <1>6, <1>13, <1>14, Appended
<1>16. FileType'
  <2>1. \A h \in Node : files'[h] \in Seq(Packet)
    BY <1>13, <1>14, <1>15
  <2>2. files' = [h \in Node |-> files'[h]]
    BY <1>2, <1>13
  <2>3. files' \in [Node -> Seq(Packet)]
    BY <2>1, <2>2
  <2> QED
    BY <2>3 DEF FileType
<1>17. /\ DOMAIN flow_seqid_hashmap' = DOMAIN flow_seqid_hashmap \cup {k}
       /\ flow_seqid_hashmap'[k] = p.seqid
       /\ \A x \in DOMAIN flow_seqid_hashmap :
            x # k => flow_seqid_hashmap'[x] = flow_seqid_hashmap[x]
  BY <1>2
<1>18. HashType'
  BY <1>3, <1>5, <1>12, <1>17, GeneratorAssumption DEF HashType
<1> HIDE DEF f, g
<1>19. ASSUME NetworksSuffice'
       PROVE  /\ SenderIdx(p.srcip) = i /\ SenderIdx(p.dstip) \in Node \ {i}
              /\ p.len <= MaxPayload
  <2>1. SenderIdx(m.ip[l.src]) = i
    BY <1>0, <1>1, <1>11, <1>19, InNetwork DEF i
  <2>2. SenderIdx(m.ip[l.dst]) \in Node
    BY <1>0, <1>1, <1>11, <1>19, InNetwork
  <2>3. SenderIdx(m.ip[l.dst]) # i
    BY <2>1, <1>2 DEF SameSender
  <2> QED
    BY <2>1, <2>2, <2>3, <1>2, <1>8 DEF WellFormed
<1>20. FilesAreReplayable'
  <2>1. SUFFICES ASSUME NetworksSuffice', NEW h \in Node, NEW j \in 1 .. Len(files'[h])
                 PROVE  /\ SenderIdx(files'[h][j].srcip) = h
                        /\ SenderIdx(files'[h][j].dstip) \in Node \ {h}
                        /\ files'[h][j].len <= MaxPayload
    BY DEF FilesAreReplayable, SenderIdx
  <2>2. NetworksSuffice
    BY <2>1, <1>11
  <2>3. CASE h # i
    <3>1. j \in 1 .. Len(files[h]) /\ files'[h][j] = files[h][j]
      BY <2>1, <2>3, <1>14
    <3> QED
      BY <3>1, <2>1, <2>2, <1>3 DEF FilesAreReplayable
  <2>4. CASE h = i /\ j = Len(f) + 1
    BY <2>1, <2>4, <1>15, <1>19 DEF g
  <2>5. CASE h = i /\ j # Len(f) + 1
    <3>1. j \in 1 .. Len(f) /\ g[j] = f[j]
      BY <2>1, <2>5, <1>15 DEF g
    <3> QED
      BY <3>1, <2>1, <2>2, <2>5, <1>3 DEF FilesAreReplayable, f, g
  <2> QED
    BY <2>3, <2>4, <2>5
<1>21. ASSUME NetworksSuffice, NetworksSuffice', NEW h \in Node, h # i,
              NEW j \in 1 .. Len(files[h])
       PROVE  KeyOf(files[h][j]) # k
  <2>1. SenderIdx(files[h][j].srcip) = h
    BY <1>3, <1>21 DEF FilesAreReplayable
  <2>2. SenderIdx(p.srcip) = i
    BY <1>19, <1>21
  <2>3. k = <<p.srcip, p.rest>>
    BY <1>7 DEF KeyOf
  <2> QED
    BY <2>1, <2>2, <2>3, <1>21 DEF KeyOf
<1>22. ASSUME NetworksSuffice'
       PROVE  /\ (\A h \in 1 .. Len(f) : KeyOf(f[h]) # k) => p.seqid = 1
              /\ \A h \in 1 .. Len(f) :
                   (/\ KeyOf(f[h]) = k
                    /\ \A e \in 1 .. Len(f) : KeyOf(f[e]) = k => e <= h) =>
                   p.seqid = IF 2 * f[h].seqid >= SeqMod THEN 1 ELSE f[h].seqid + 1
  <2>1. NetworksSuffice
    BY <1>11, <1>22
  <2>2. ASSUME \A h \in 1 .. Len(f) : KeyOf(f[h]) # k
        PROVE  p.seqid = 1
    <3>1. k \notin DOMAIN flow_seqid_hashmap
      <4>1. SUFFICES ASSUME k \in DOMAIN flow_seqid_hashmap PROVE FALSE
        OBVIOUS
      <4>2. PICK h \in Node : \E j \in 1 .. Len(files[h]) : KeyOf(files[h][j]) = k
        BY <4>1, <2>1, <1>3 DEF StoredHasPacket
      <4>3. h = i
        BY <4>2, <2>1, <1>21, <1>22
      <4> QED
        BY <4>2, <4>3, <2>2 DEF f
    <3> QED
      BY <3>1, <1>3, <1>8, NumberAfter
  <2>3. ASSUME NEW h \in 1 .. Len(f), KeyOf(f[h]) = k,
               \A e \in 1 .. Len(f) : KeyOf(f[e]) = k => e <= h
        PROVE  p.seqid = IF 2 * f[h].seqid >= SeqMod THEN 1 ELSE f[h].seqid + 1
    <3>1. k \in DOMAIN flow_seqid_hashmap /\ flow_seqid_hashmap[k] = f[h].seqid
      BY <2>1, <2>3, <1>1, <1>3 DEF LastStored, f
    <3> QED
      BY <3>1, <1>3, <1>8, NumberAfter
  <2> QED
    BY <2>2, <2>3
<1>23. SeqidsCount'
  <2> DEFINE Earlier(s, j) == {h \in 1 .. j - 1 : SameKey(s[h], s[j])}
             Good(s, j) == /\ Earlier(s, j) = {} => s[j].seqid = 1
                           /\ \A h \in Earlier(s, j) :
                                (\A e \in Earlier(s, j) : e <= h) =>
                                s[j].seqid = IF 2 * s[h].seqid >= SeqMod THEN 1
                                             ELSE s[h].seqid + 1
  <2>1. SUFFICES ASSUME NetworksSuffice', NEW h \in Node, NEW j \in 1 .. Len(files'[h])
                 PROVE  Good(files'[h], j)
    BY DEF SeqidsCount, SameKey
  <2>2. NetworksSuffice
    BY <2>1, <1>11
  <2>3. \A n \in Node : \A b \in 1 .. Len(files[n]) : Good(files[n], b)
    BY <2>2, <1>3 DEF SeqidsCount, SameKey
  <2>4. CASE h # i
    <3> HIDE DEF Good
    <3>1. files'[h] = files[h]
      BY <2>4, <1>14
    <3>2. Good(files[h], j)
      BY <3>1, <2>1, <2>3
    <3> QED
      BY <3>1, <3>2
  <2>5. CASE h = i /\ j # Len(f) + 1
    <3>1. j \in 1 .. Len(f) /\ \A e \in 1 .. j : g[e] = f[e]
      BY <2>1, <2>5, <1>15 DEF g
    <3>2. Earlier(g, j) = Earlier(f, j)
      BY <3>1
    <3>3. Good(f, j)
      BY <3>1, <2>3, <1>1 DEF f
    <3>4. \A e \in Earlier(f, j) : g[e] = f[e]
      BY <3>1
    <3>5. g[j] = f[j]
      BY <3>1
    <3> HIDE DEF Earlier
    <3>6. Good(g, j)
      BY <3>2, <3>3, <3>4, <3>5
    <3> QED
      BY <3>6, <2>5 DEF g
  <2>6. CASE h = i /\ j = Len(f) + 1
    <3>1. g[j] = p /\ \A e \in 1 .. Len(f) : g[e] = f[e]
      BY <2>6, <1>15
    <3>2. j - 1 = Len(f)
      BY <2>6, <1>15
    <3>3. \A q \in Packet : SameKey(q, p) <=> KeyOf(q) = k
      BY <1>7 DEF SameKey, KeyOf
    <3>4. \A e \in 1 .. Len(f) : f[e] \in Packet
      BY <1>13 DEF f
    <3>5. Earlier(g, j) = {e \in 1 .. Len(f) : KeyOf(f[e]) = k}
      BY <3>1, <3>2, <3>3, <3>4
    <3> HIDE DEF Earlier
    <3>6. Earlier(g, j) = {} => p.seqid = 1
      BY <3>5, <1>22, <2>1
    <3>7. ASSUME NEW e \in Earlier(g, j), \A x \in Earlier(g, j) : x <= e
          PROVE  p.seqid = IF 2 * g[e].seqid >= SeqMod THEN 1 ELSE g[e].seqid + 1
      <4>1. e \in 1 .. Len(f) /\ KeyOf(f[e]) = k /\ g[e] = f[e]
        BY <3>1, <3>5, <3>7
      <4>2. \A x \in 1 .. Len(f) : KeyOf(f[x]) = k => x <= e
        BY <3>5, <3>7
      <4> QED
        BY <4>1, <4>2, <1>22, <2>1
    <3>8. Good(g, j)
      BY <3>1, <3>6, <3>7
    <3> QED
      BY <3>8, <2>6 DEF g
  <2> QED
    BY <2>4, <2>5, <2>6
<1>24. LastStored'
  <2> DEFINE Last(s, j) == \A h \in 1 .. Len(s) : KeyOf(s[h]) = KeyOf(s[j]) => h <= j
  <2>1. SUFFICES ASSUME NetworksSuffice', NEW h \in Node, NEW j \in 1 .. Len(files'[h]),
                        Last(files'[h], j)
                 PROVE  /\ KeyOf(files'[h][j]) \in DOMAIN flow_seqid_hashmap'
                        /\ flow_seqid_hashmap'[KeyOf(files'[h][j])] = files'[h][j].seqid
    BY DEF LastStored, KeyOf
  <2>2. NetworksSuffice
    BY <2>1, <1>11
  <2>3. \A n \in Node : \A b \in 1 .. Len(files[n]) : Last(files[n], b) =>
          /\ KeyOf(files[n][b]) \in DOMAIN flow_seqid_hashmap
          /\ flow_seqid_hashmap[KeyOf(files[n][b])] = files[n][b].seqid
    BY <2>2, <1>3 DEF LastStored
  <2>4. CASE h # i
    <3>1. j \in 1 .. Len(files[h]) /\ files'[h] = files[h]
      BY <2>1, <2>4, <1>14
    <3>2. KeyOf(files[h][j]) # k
      BY <3>1, <2>1, <2>2, <2>4, <1>21
    <3> QED
      BY <3>1, <3>2, <2>1, <2>3, <1>17
  <2>5. CASE h = i /\ j = Len(f) + 1
    BY <2>5, <1>7, <1>15, <1>17 DEF g
  <2>6. CASE h = i /\ j # Len(f) + 1
    <3>1. j \in 1 .. Len(f) /\ g[j] = f[j]
      BY <2>1, <2>6, <1>15 DEF g
    <3>2. Last(g, j)
      BY <2>1, <2>6 DEF g
    <3>3. KeyOf(f[j]) # k
      <4>1. Len(f) + 1 \in 1 .. Len(g) /\ KeyOf(g[Len(f) + 1]) = k /\ ~ (Len(f) + 1 <= j)
        BY <3>1, <1>7, <1>15
      <4> QED
        BY <4>1, <3>1, <3>2
    <3>4. Last(f, j)
      BY <3>1, <3>2, <1>15
    <3>5. /\ KeyOf(f[j]) \in DOMAIN flow_seqid_hashmap
          /\ flow_seqid_hashmap[KeyOf(f[j])] = f[j].seqid
      BY <3>1, <3>4, <2>3, <1>1 DEF f
    <3> QED
      BY <3>1, <3>3, <3>5, <2>6, <1>17 DEF g
  <2> QED
    BY <2>4, <2>5, <2>6
<1>25. StoredHasPacket'
  <2>1. SUFFICES ASSUME NetworksSuffice', NEW x \in DOMAIN flow_seqid_hashmap'
                 PROVE  \E h \in Node : \E j \in 1 .. Len(files'[h]) :
                          KeyOf(files'[h][j]) = x
    BY DEF StoredHasPacket, KeyOf
  <2>2. NetworksSuffice
    BY <2>1, <1>11
  <2>3. CASE x = k
    <3>1. Len(f) + 1 \in 1 .. Len(g) /\ KeyOf(g[Len(f) + 1]) = k
      BY <1>7, <1>15
    <3> QED
      BY <3>1, <2>3, <1>1 DEF g
  <2>4. CASE x # k
    <3>1. PICK h \in Node : \E j \in 1 .. Len(files[h]) : KeyOf(files[h][j]) = x
      BY <2>1, <2>2, <2>4, <1>3, <1>17 DEF StoredHasPacket
    <3>2. CASE h = i
      <4>1. PICK j \in 1 .. Len(f) : KeyOf(f[j]) = x
        BY <3>1, <3>2 DEF f
      <4>2. j \in 1 .. Len(g) /\ KeyOf(g[j]) = x
        BY <4>1, <1>15
      <4> QED
        BY <4>2, <1>1 DEF g
    <3>3. CASE h # i
      BY <3>1, <3>3, <1>14
    <3> QED
      BY <3>2, <3>3
  <2> QED
    BY <2>3, <2>4
<1> QED
  BY <1>4, <1>16, <1>18, <1>20, <1>23, <1>24, <1>25 DEF GenInv
-----------------------------------------------------------------------------
LEMMA GenInit == GeneratorInit => GenInv
<1> SUFFICES ASSUME GeneratorInit PROVE GenInv
  OBVIOUS
<1>1. \A i \in Node : files[i] = <<>> /\ Len(files[i]) = 0
  BY DEF GeneratorInit
<1>2. DOMAIN flow_seqid_hashmap = {}
  BY DEF GeneratorInit
<1>3. MapOK(CurrentMaps)
  <2>1. CurrentMaps \in MapRec
    BY DEF GeneratorInit, CurrentMaps, MapRec
  <2>2. \A a \in Ip : CurrentMaps.idx[a] = Absent /\ CurrentMaps.ip[a] = Absent
    BY DEF GeneratorInit, CurrentMaps
  <2> QED
    BY <2>1, <2>2 DEF MapOK
<1>4. HashType
  BY <1>2 DEF HashType
<1>5. FileType
  BY DEF GeneratorInit, FileType
<1>6. read_num_lines \in Nat
  BY DEF GeneratorInit
<1>7. FilesAreReplayable
  BY <1>1 DEF FilesAreReplayable
<1>8. SeqidsCount
  BY <1>1 DEF SeqidsCount
<1>9. LastStored
  BY <1>1 DEF LastStored
<1>10. StoredHasPacket
  BY <1>2 DEF StoredHasPacket
<1> QED
  BY <1>3, <1>4, <1>5, <1>6, <1>7, <1>8, <1>9, <1>10 DEF GenInv

(* A line that writes nothing may add addresses. *)
LEMMA NoWriteKeepsInv ==
  ASSUME GenInv, MapOK(CurrentMaps)', unique_ip_num' \in Nat,
         unique_ip_num' >= unique_ip_num,
         UNCHANGED <<flow_seqid_hashmap, files>>, read_num_lines' \in Nat
  PROVE  GenInv'
<1>1. unique_ip_num \in Nat
  BY DEF GenInv, MapOK, MapRec, CurrentMaps
<1>2. NetworksSuffice' => NetworksSuffice
  BY <1>1, CapacityNat DEF NetworksSuffice, Capacity
<1>3. HashType' /\ FileType'
  BY DEF GenInv, HashType, FileType
<1>4. FilesAreReplayable'
  BY <1>2 DEF GenInv, FilesAreReplayable, SenderIdx
<1>5. SeqidsCount'
  BY <1>2 DEF GenInv, SeqidsCount, SameKey
<1>6. LastStored' /\ StoredHasPacket'
  BY <1>2 DEF GenInv, LastStored, StoredHasPacket, KeyOf
<1> QED
  BY <1>3, <1>4, <1>5, <1>6 DEF GenInv

LEMMA ReadLineKeepsInv == GenInv /\ ReadLine => GenInv'
<1> SUFFICES ASSUME GenInv, ReadLine PROVE GenInv'
  OBVIOUS
<1>1. read_num_lines' \in Nat
  BY DEF GenInv, ReadLine
<1>2. PICK l \in Line : \/ SkipLine(l) \/ DropSelfTraffic(l)
                        \/ \E rest \in Garbage : WritePacket(l, rest)
  BY DEF ReadLine
<1>3. CASE SkipLine(l)
  <2>1. UNCHANGED <<srcip_to_node_idx_map, srcip_to_node_srcip_map, unique_ip_num,
                    flow_seqid_hashmap, files>>
    BY <1>3 DEF SkipLine, maps
  <2>2. MapOK(CurrentMaps) /\ unique_ip_num \in Nat
    BY DEF GenInv, MapOK, MapRec, CurrentMaps
  <2>3. CurrentMaps' = CurrentMaps
    BY <2>1 DEF CurrentMaps
  <2>4. MapOK(CurrentMaps')
    BY <2>2, <2>3
  <2>5. MapOK(CurrentMaps)'
    BY <2>4 DEF MapOK, PlacedOK
  <2> QED
    BY <2>1, <2>2, <2>5, <1>1, NoWriteKeepsInv
<1>4. CASE DropSelfTraffic(l)
  <2> DEFINE m == LineMaps(l)
  <2>1. MapOK(m) /\ m.num \in Nat /\ m.num >= unique_ip_num
    BY LineLookUps DEF GenInv
  <2>2. StoreMaps(m) /\ UNCHANGED <<flow_seqid_hashmap, files>>
    BY <1>4 DEF DropSelfTraffic
  <2> HIDE DEF m
  <2>3. MapOK(CurrentMaps)'
    BY <2>1, <2>2, StoredMaps
  <2>4. unique_ip_num' = m.num
    BY <2>2 DEF StoreMaps
  <2> QED
    BY <2>1, <2>2, <2>3, <2>4, <1>1, NoWriteKeepsInv
<1>5. CASE \E rest \in Garbage : WritePacket(l, rest)
  BY <1>1, <1>5, WriteKeepsInv
<1> QED
  BY <1>2, <1>3, <1>4, <1>5

LEMMA GenUnchanged == GenInv /\ UNCHANGED generator => GenInv'
<1> SUFFICES ASSUME GenInv, UNCHANGED generator PROVE GenInv'
  OBVIOUS
<1>1. UNCHANGED <<srcip_to_node_idx_map, srcip_to_node_srcip_map, unique_ip_num,
                  flow_seqid_hashmap, files, read_num_lines>>
  BY DEF generator, maps
<1>2. MapOK(CurrentMaps) /\ unique_ip_num \in Nat /\ read_num_lines \in Nat
  BY DEF GenInv, MapOK, MapRec, CurrentMaps
<1>3. CurrentMaps' = CurrentMaps
  BY <1>1 DEF CurrentMaps
<1>4. MapOK(CurrentMaps')
  BY <1>2, <1>3
<1>5. MapOK(CurrentMaps)'
  BY <1>4 DEF MapOK, PlacedOK
<1> QED
  BY <1>1, <1>2, <1>5, NoWriteKeepsInv

LEMMA GenStep == GenInv /\ [Next]_vars => GenInv'
<1> SUFFICES ASSUME GenInv, [Next]_vars PROVE GenInv'
  OBVIOUS
<1>1. ReadLine \/ UNCHANGED generator
  BY DEF Next, vars, Generate, StartSender, ReadTaskLine, TasksRead, ReplayPacket,
         SendCondition
<1> QED
  BY <1>1, ReadLineKeepsInv, GenUnchanged

(* get_mapped_info(): for any number of senders, size of the networks and  *)
(* trace, no two captured addresses become one address while the networks  *)
(* suffice, and every address lies in the network of its node.             *)
THEOREM AddressesStayDistinct == Spec => []MappingIsInjective
<1>1. Init => GenInv
  BY GenInit DEF Init
<1>2. GenInv => MappingIsInjective
  BY InjectiveFromMaps DEF GenInv
<1> QED
  BY <1>1, <1>2, GenStep, PTL DEF Spec

(* main() of the generator: for any trace, a sender's file holds only      *)
(* packets from its own network to another sender's.                       *)
THEOREM FilesReplayable == Spec => []FilesAreReplayable
<1>1. Init => GenInv
  BY GenInit DEF Init
<1>2. GenInv => FilesAreReplayable
  BY DEF GenInv
<1> QED
  BY <1>1, <1>2, GenStep, PTL DEF Spec

(* get_seqid_of_flow(): for any trace, whatever the unassigned part of a   *)
(* key holds, the packets of one key are numbered from 1 without a gap     *)
(* until the stored number no longer fits into an int.                     *)
THEOREM NumbersAscend == Spec => []SeqidsCount
<1>1. Init => GenInv
  BY GenInit DEF Init
<1>2. GenInv => SeqidsCount
  BY DEF GenInv
<1> QED
  BY <1>1, <1>2, GenStep, PTL DEF Spec
-----------------------------------------------------------------------------
(* The bits of a tag.                                                      *)
LEMMA SwitchBits ==
  ASSUME NEW s \in Switch, NEW t \in Switch
  PROVE  /\ SwitchBit(s - 1) \in {3} \cup 5 .. 15
         /\ SwitchBit(s - 1) = SwitchBit(t - 1) => s = t
<1>1. s \in 1 .. 12 /\ t \in 1 .. 12
  BY TaskAssumption
<1> QED
  BY <1>1 DEF SwitchBit

LEMMA LevelsAsBits ==
  /\ LevelBits(0) = {} /\ LevelBits(1) = {1} /\ LevelBits(2) = {2}
<1>1. /\ 0 % 2 = 0 /\ 1 % 2 = 1 /\ 2 % 2 = 0
      /\ 0 \div 2 = 0 /\ 1 \div 2 = 0 /\ 2 \div 2 = 1
  OBVIOUS
<1> QED
  BY <1>1 DEF LevelBits

(* What the switches read from the tag of a packet with a task. *)
PacketTag(mon, sampled, level) ==
  tag_selected_flow_level(tag_packet_as_sampled(
    tag_packet_for_switches({}, mon), sampled), level)

LEMMA PacketTagBits ==
  ASSUME NEW mon \in SUBSET Switch, NEW sampled \in BOOLEAN, NEW level \in 0 .. 2
  PROVE  LET tag == PacketTag(mon, sampled, level)
         IN  /\ Monitors(tag) = mon
             /\ (SampledBit \in tag) = sampled
             /\ GET_VLAN_SELECTED_FLOW_VAL(tag) = level
             /\ 4 \notin tag /\ tag \subseteq Field
<1> DEFINE w == {SwitchBit(s - 1) : s \in mon}
           z == IF sampled THEN {0} ELSE {}
           b == LevelBits(level)
           tag == PacketTag(mon, sampled, level)
<1>1. w \subseteq {3} \cup 5 .. 15
  BY SwitchBits
<1>2. w \cap Field = w
  BY <1>1 DEF Field
<1>3. b = IF level = 0 THEN {} ELSE {level}
  BY LevelsAsBits
<1>4. tag = w \cup z \cup b
  <2>1. tag_packet_for_switches({}, mon) = w
    BY <1>2 DEF tag_packet_for_switches
  <2>2. tag_packet_as_sampled(w, sampled) = w \cup z
    BY DEF tag_packet_as_sampled, SampledBit
  <2> QED
    BY <2>1, <2>2 DEF PacketTag, tag_selected_flow_level
<1>5. \A s \in Switch : SwitchBit(s - 1) \in tag <=> s \in mon
  <2> SUFFICES ASSUME NEW s \in Switch
               PROVE  SwitchBit(s - 1) \in tag <=> s \in mon
    OBVIOUS
  <2>1. SwitchBit(s - 1) \in {3} \cup 5 .. 15
    BY SwitchBits
  <2>2. SwitchBit(s - 1) \notin z /\ SwitchBit(s - 1) \notin b
    BY <2>1, <1>3
  <2>3. SwitchBit(s - 1) \in w <=> s \in mon
    BY SwitchBits
  <2> QED
    BY <1>4, <2>2, <2>3
<1>6. Monitors(tag) = mon
  BY <1>5 DEF Monitors
<1> HIDE DEF tag, w, b
<1>7. 0 \in tag <=> sampled
  BY <1>1, <1>3, <1>4
<1>8. (SampledBit \in tag) = sampled
  <2>1. SampledBit \in tag <=> sampled
    BY <1>7 DEF SampledBit
  <2> QED
    BY <2>1
<1>9. (1 \in tag <=> level = 1) /\ (2 \in tag <=> level = 2)
  BY <1>1, <1>3, <1>4
<1>10. GET_VLAN_SELECTED_FLOW_VAL(tag) = level
  BY <1>9 DEF GET_VLAN_SELECTED_FLOW_VAL
<1>11. 4 \notin tag /\ tag \subseteq Field
  BY <1>1, <1>3, <1>4 DEF Field
<1> QED
  BY <1>6, <1>8, <1>10, <1>11 DEF tag

LEMMA ConditionTagBits ==
  ASSUME NEW field, NEW level \in 0 .. 2
  PROVE  LET tag == tag_packet_selected_level(field, level)
         IN  /\ Monitors(tag) = {} /\ SampledBit \notin tag
             /\ GET_VLAN_SELECTED_FLOW_VAL(tag) = level
             /\ 4 \notin tag /\ tag \subseteq Field
<1> DEFINE tag == tag_packet_selected_level(field, level)
<1>1. tag = IF level = 0 THEN {} ELSE {level}
  BY LevelsAsBits DEF tag_packet_selected_level
<1> HIDE DEF tag
<1>2. \A s \in Switch : SwitchBit(s - 1) \notin tag
  <2> SUFFICES ASSUME NEW s \in Switch PROVE SwitchBit(s - 1) \notin tag
    OBVIOUS
  <2>1. SwitchBit(s - 1) \in {3} \cup 5 .. 15
    BY SwitchBits
  <2> QED
    BY <2>1, <1>1
<1>3. Monitors(tag) = {}
  BY <1>2 DEF Monitors
<1>4. (1 \in tag <=> level = 1) /\ (2 \in tag <=> level = 2)
  BY <1>1
<1>5. GET_VLAN_SELECTED_FLOW_VAL(tag) = level
  BY <1>4 DEF GET_VLAN_SELECTED_FLOW_VAL
<1>6. 4 \notin tag /\ tag \subseteq Field /\ SampledBit \notin tag
  BY <1>1 DEF Field, SampledBit
<1> QED
  BY <1>3, <1>5, <1>6 DEF tag

LEMMA NoMonitors == Monitors({}) = {}
BY DEF Monitors

(* The prefix of a host is that of an address iff the address lies in the  *)
(* network of the host's node.                                             *)
LEMMA PrefixMatch ==
  ASSUME NEW host \in Host, NEW ip \in Addr
  PROVE  Prefix(host) = Masked(ip) <=> host = SenderIdx(ip) + 1
<1>0. NumSenders \in Nat \ {0} /\ SenderIps \in Nat \ {0} /\ FirstPrefix \in Nat
  BY GeneratorAssumption
<1> DEFINE d == ip \div SenderIps
           x == FirstPrefix + (host - 1)
<1>1. ip \in Nat
  BY GeneratorAssumption DEF Addr
<1>2. d \in Nat
  BY <1>0, <1>1, Division
<1>3. host \in Nat \ {0} /\ x \in Nat
  BY <1>0 DEF Host
<1>4. Prefix(host) = x * SenderIps /\ Masked(ip) = d * SenderIps
  BY DEF Prefix, StartIp, Masked
<1>5. SenderIdx(ip) = d - FirstPrefix
  BY DEF SenderIdx
<1> HIDE DEF d
<1>6. x = d <=> host = SenderIdx(ip) + 1
  BY <1>0, <1>2, <1>3, <1>5
<1> HIDE DEF x
<1>7. x * SenderIps = d * SenderIps => x = d
  <2>1. SUFFICES ASSUME x * SenderIps = d * SenderIps PROVE x = d
    OBVIOUS
  <2>2. SenderIps * x + 0 = SenderIps * d + 0
    BY <2>1, <1>0, <1>2, <1>3
  <2>3. 0 \in 0 .. SenderIps - 1
    BY <1>0
  <2> QED
    BY <2>2, <2>3, <1>0, <1>2, <1>3, BlocksEqual
<1> QED
  BY <1>4, <1>6, <1>7
-----------------------------------------------------------------------------
(* The lines of the task file that this sender keeps. *)
Ours(i) == task_file[i] # Comment /\ task_file[i].sender_host = hostid

(* The list of tasks holds the sender's lines of the part of the task file *)
(* that was read, each at most once and with monitors, and all of them     *)
(* unless reading failed.                                                  *)
KeptOnly ==
  \A j \in 1 .. Len(tasks) :
    \E i \in 1 .. next_line - 1 : Ours(i) /\ tasks[j] = task_file[i]
KeptOnce ==
  \A j, h \in 1 .. Len(tasks) :
    j # h => tasks[j].receiver_host # tasks[h].receiver_host
KeptAll ==
  sender # "failed" =>
    \A i \in 1 .. next_line - 1 :
      Ours(i) => \E j \in 1 .. Len(tasks) : tasks[j] = task_file[i]

ReplayType ==
  /\ sender \in {"off", "reading", "replaying", "failed"}
  /\ hostid \in Host
  /\ task_file \in TaskFiles
  /\ next_line \in 1 .. Len(task_file) + 1
  /\ tasks \in Seq(Task)

(* Nothing is sent before the whole task file was read. *)
SentWhenReplaying ==
  /\ sender # "replaying" => replayed = 0 /\ sent = Nothing
  /\ sender = "replaying" => next_line = Len(task_file) + 1

ReplayInv ==
  /\ GenInv /\ ReplayType /\ SentWhenReplaying
  /\ KeptOnly /\ KeptOnce /\ KeptAll
  /\ replayed \in 0 .. Len(files[hostid - 1])
  /\ sent = Nothing \/ sent.tag \subseteq Field
  /\ TagReadsBack

LEMMA HostNode ==
  ASSUME NEW h \in Host
  PROVE  h - 1 \in Node
BY GeneratorAssumption DEF Host, Node

(* A task file as the code's comment promises it. *)
LEMMA TaskLines ==
  ASSUME ReplayType, NEW i \in 1 .. Len(task_file), task_file[i] # Comment
  PROVE  task_file[i] \in Task
<1>1. task_file \in Seq(Task \cup {Comment})
  BY TaskAssumption DEF ReplayType
<1> QED
  BY <1>1

LEMMA OneLinePerPair ==
  ASSUME ReplayType, NEW i \in 1 .. Len(task_file), NEW j \in 1 .. Len(task_file),
         Ours(i), Ours(j), task_file[i].receiver_host = task_file[j].receiver_host
  PROVE  i = j
<1>1. OneTaskPerPair(task_file) /\ task_file \in Seq(Task \cup {Comment})
  BY TaskAssumption DEF ReplayType
<1>2. DOMAIN task_file = 1 .. Len(task_file)
  BY <1>1
<1> QED
  BY <1>1, <1>2 DEF OneTaskPerPair, Ours

(* get_task_of_traffic() returns at most one task, one of the list. *)
LEMMA TaskOfOne ==
  ASSUME ReplayType, NEW p
  PROVE  TaskOf(p) = {} \/ \E t \in Task : TaskOf(p) = {t}
<1> DEFINE J == {j \in 1 .. Len(tasks) :
                   Matches(j, p) /\ \A h \in 1 .. j - 1 : ~ Matches(h, p)}
<1>1. Len(tasks) \in Nat /\ \A j \in 1 .. Len(tasks) : tasks[j] \in Task
  BY DEF ReplayType
<1>2. \A i, j \in J : i = j
  <2> SUFFICES ASSUME NEW i \in J, NEW j \in J, i < j PROVE FALSE
    BY <1>1
  <2>1. i \in 1 .. j - 1
    BY <1>1
  <2> QED
    BY <2>1
<1>3. TaskOf(p) = {tasks[i] : i \in J}
  BY DEF TaskOf
<1>4. CASE J = {}
  BY <1>3, <1>4
<1>5. CASE J # {}
  <2>1. PICK i \in J : TRUE
    BY <1>5
  <2>2. tasks[i] \in Task
    BY <1>1
  <2> HIDE DEF J
  <2>3. TaskOf(p) = {tasks[i]}
    BY <1>2, <1>3, <2>1
  <2> QED
    BY <2>2, <2>3
<1> QED
  BY <1>4, <1>5

(* With the whole file read and a packet between two networks, it returns  *)
(* the task that the file names for the two hosts.                         *)
Named(p) == {i \in DOMAIN task_file :
               Ours(i) /\ task_file[i].receiver_host = SenderIdx(p.dstip) + 1}

LEMMA TaskOfNamed ==
  ASSUME ReplayType, KeptOnly, KeptOnce, KeptAll, sender = "replaying",
         next_line = Len(task_file) + 1, NEW p \in Packet,
         SenderIdx(p.srcip) = hostid - 1
  PROVE  TaskOf(p) = {task_file[i] : i \in Named(p)}
<1>1. /\ task_file \in Seq(Task \cup {Comment}) /\ tasks \in Seq(Task)
      /\ DOMAIN task_file = 1 .. Len(task_file) /\ Len(task_file) \in Nat
      /\ Len(tasks) \in Nat /\ next_line - 1 = Len(task_file)
  BY TaskAssumption DEF ReplayType
<1>2. hostid \in Host /\ p.srcip \in Addr /\ p.dstip \in Addr
  BY DEF ReplayType, Packet
<1>3. SenderIdx(p.srcip) + 1 = hostid
  BY <1>2 DEF Host
<1>4. \A j \in 1 .. Len(tasks) : tasks[j].sender_host = hostid /\ tasks[j] \in Task
  BY <1>1 DEF KeptOnly, Ours
<1>5. \A j \in 1 .. Len(tasks) :
        Matches(j, p) <=> tasks[j].receiver_host = SenderIdx(p.dstip) + 1
  <2> SUFFICES ASSUME NEW j \in 1 .. Len(tasks)
               PROVE  Matches(j, p) <=> tasks[j].receiver_host = SenderIdx(p.dstip) + 1
    OBVIOUS
  <2>1. tasks[j].sender_host = hostid /\ tasks[j].receiver_host \in Host
    BY <1>4 DEF Task
  <2>2. Prefix(hostid) = Masked(p.srcip)
    BY <1>2, <1>3, PrefixMatch
  <2>3. Prefix(tasks[j].receiver_host) = Masked(p.dstip)
          <=> tasks[j].receiver_host = SenderIdx(p.dstip) + 1
    BY <2>1, <1>2, PrefixMatch
  <2> QED
    BY <2>1, <2>2, <2>3 DEF Matches
<1>6. \A j \in 1 .. Len(tasks) : Matches(j, p) =>
        \A h \in 1 .. j - 1 : ~ Matches(h, p)
  <2> SUFFICES ASSUME NEW j \in 1 .. Len(tasks), Matches(j, p),
                      NEW h \in 1 .. j - 1, Matches(h, p)
               PROVE  FALSE
    OBVIOUS
  <2>1. h \in 1 .. Len(tasks) /\ h # j
    BY <1>1
  <2>2. tasks[h].receiver_host = tasks[j].receiver_host
    BY <1>5, <2>1
  <2> QED
    BY <2>1, <2>2 DEF KeptOnce
<1>7. TaskOf(p) = {tasks[j] : j \in {h \in 1 .. Len(tasks) : Matches(h, p)}}
  BY <1>6 DEF TaskOf
<1>8. ASSUME NEW t, t \in TaskOf(p) PROVE \E i \in Named(p) : t = task_file[i]
  <2>1. PICK j \in 1 .. Len(tasks) : Matches(j, p) /\ t = tasks[j]
    BY <1>7, <1>8
  <2>2. PICK i \in 1 .. next_line - 1 : Ours(i) /\ tasks[j] = task_file[i]
    BY DEF KeptOnly
  <2>3. i \in Named(p)
    BY <1>1, <1>5, <2>1, <2>2 DEF Named
  <2> QED
    BY <2>1, <2>2, <2>3
<1>9. ASSUME NEW i \in Named(p) PROVE task_file[i] \in TaskOf(p)
  <2>1. i \in 1 .. next_line - 1 /\ Ours(i)
        /\ task_file[i].receiver_host = SenderIdx(p.dstip) + 1
    BY <1>1 DEF Named
  <2>2. PICK j \in 1 .. Len(tasks) : tasks[j] = task_file[i]
    BY <2>1 DEF KeptAll
  <2>3. Matches(j, p)
    BY <1>5, <2>1, <2>2
  <2> QED
    BY <1>7, <2>2, <2>3
<1> QED
  BY <1>8, <1>9
-----------------------------------------------------------------------------
(* The tag of a replayed packet. *)
LEMMA PacketTold ==
  ASSUME ReplayInv, NEW sampled \in BOOLEAN, NEW level \in 0 .. 2,
         ReplayPacket(sampled, level)
  PROVE  TagReadsBack' /\ sent'.tag \subseteq Field
<1> DEFINE p == files[hostid - 1][replayed + 1]
           tag == UNION {PacketTag(t.monitors, sampled, level) : t \in TaskOf(p)}
<1>1. /\ sent' = [kind |-> "packet", packet |-> p, sampled |-> sampled,
                  level |-> level, tag |-> tag]
      /\ sender = "replaying" /\ replayed < Len(files[hostid - 1])
      /\ UNCHANGED <<hostid, task_file, unique_ip_num>>
  BY DEF ReplayPacket, PacketTag, generator, maps
<1>2. /\ sent'.kind = "packet" /\ sent'.packet = p /\ sent'.sampled = sampled
      /\ sent'.level = level /\ sent'.tag = tag
  BY <1>1
<1>3. hostid - 1 \in Node
  BY HostNode DEF ReplayInv, ReplayType
<1>4. replayed + 1 \in 1 .. Len(files[hostid - 1]) /\ p \in Packet
  <2>1. files[hostid - 1] \in Seq(Packet)
    BY <1>3 DEF ReplayInv, GenInv, FileType
  <2>2. replayed + 1 \in 1 .. Len(files[hostid - 1])
    BY <1>1, <2>1 DEF ReplayInv
  <2> QED
    BY <2>1, <2>2
<1> HIDE DEF p, tag
<1>5. \/ TaskOf(p) = {} /\ tag = {}
      \/ \E t \in Task : /\ TaskOf(p) = {t}
                         /\ tag = PacketTag(t.monitors, sampled, level)
  <2>1. CASE TaskOf(p) = {}
    BY <2>1 DEF tag
  <2>2. CASE \E t \in Task : TaskOf(p) = {t}
    <3>1. PICK t \in Task : TaskOf(p) = {t}
      BY <2>2
    <3>2. tag = PacketTag(t.monitors, sampled, level)
      BY <3>1 DEF tag
    <3> QED
      BY <3>1, <3>2
  <2> QED
    BY <2>1, <2>2, TaskOfOne DEF ReplayInv
<1>6. /\ Monitors(tag) # {} =>
           (SampledBit \in tag) = sampled /\ GET_VLAN_SELECTED_FLOW_VAL(tag) = level
      /\ 4 \notin tag /\ tag \subseteq Field
      /\ Monitors(tag) = UNION {t.monitors : t \in TaskOf(p)}
  <2>1. CASE TaskOf(p) = {} /\ tag = {}
    BY <2>1, NoMonitors
  <2>2. CASE \E t \in Task : /\ TaskOf(p) = {t}
                             /\ tag = PacketTag(t.monitors, sampled, level)
    <3>1. PICK t \in Task : /\ TaskOf(p) = {t}
                            /\ tag = PacketTag(t.monitors, sampled, level)
      BY <2>2
    <3>2. t.monitors \in SUBSET Switch
      BY DEF Task
    <3> DEFINE mon == t.monitors
    <3>3. mon \in SUBSET Switch
      BY <3>2
    <3> HIDE DEF mon
    <3>4. /\ Monitors(PacketTag(mon, sampled, level)) = mon
          /\ (SampledBit \in PacketTag(mon, sampled, level)) = sampled
          /\ GET_VLAN_SELECTED_FLOW_VAL(PacketTag(mon, sampled, level)) = level
          /\ 4 \notin PacketTag(mon, sampled, level)
          /\ PacketTag(mon, sampled, level) \subseteq Field
      BY <3>3, PacketTagBits
    <3>5. tag = PacketTag(mon, sampled, level)
      BY <3>1 DEF mon
    <3>6. /\ Monitors(tag) = t.monitors
          /\ (SampledBit \in tag) = sampled
          /\ GET_VLAN_SELECTED_FLOW_VAL(tag) = level
          /\ 4 \notin tag /\ tag \subseteq Field
      BY <3>4, <3>5 DEF mon
    <3> QED
      BY <3>1, <3>6
  <2> QED
    BY <1>5, <2>1, <2>2
<1>7. TagTellsSelection'
  <2>1. Monitors(sent.tag)' = Monitors(tag)
    BY <1>2 DEF Monitors, SwitchBit
  <2>2. GET_VLAN_SELECTED_FLOW_VAL(sent.tag)' = GET_VLAN_SELECTED_FLOW_VAL(tag)
    BY <1>2 DEF GET_VLAN_SELECTED_FLOW_VAL
  <2> QED
    BY <2>1, <2>2, <1>2, <1>6 DEF TagTellsSelection, SampledBit
<1>8. TagTellsMonitors'
  <2>1. SUFFICES ASSUME NetworksSuffice'
                 PROVE  /\ Monitors(tag) = UNION {task_file[i].monitors : i \in Named(p)}
                        /\ Named(p) = {} => tag = {}
    <3>1. Monitors(sent.tag)' = Monitors(tag)
      BY <1>2 DEF Monitors, SwitchBit
    <3>2. {i \in DOMAIN task_file :
             /\ task_file[i] # Comment
             /\ task_file[i].sender_host = hostid
             /\ task_file[i].receiver_host = SenderIdx(sent.packet.dstip) + 1}'
          = Named(p)
      BY <1>1, <1>2 DEF Named, Ours, SenderIdx
    <3>3. UNION {task_file'[i].monitors : i \in Named(p)}
          = UNION {task_file[i].monitors : i \in Named(p)}
      BY <1>1
    <3> QED
      BY <1>2, <3>1, <3>2, <3>3 DEF TagTellsMonitors
  <2>2. NetworksSuffice
    BY <2>1, <1>1 DEF NetworksSuffice
  <2>3. SenderIdx(p.srcip) = hostid - 1
    BY <2>2, <1>3, <1>4 DEF p, ReplayInv, GenInv, FilesAreReplayable
  <2>4. TaskOf(p) = {task_file[i] : i \in Named(p)}
    <3>1. next_line = Len(task_file) + 1
      BY <1>1 DEF ReplayInv, SentWhenReplaying
    <3> QED
      BY <3>1, <2>3, <1>1, <1>4, TaskOfNamed DEF ReplayInv
  <2>5. Monitors(tag) = UNION {task_file[i].monitors : i \in Named(p)}
    BY <1>6, <2>4
  <2>6. Named(p) = {} => tag = {}
    BY <1>5, <2>4
  <2> QED
    BY <2>5, <2>6
<1>9. sent'.tag \subseteq Field
  BY <1>2, <1>6
<1> QED
  BY <1>7, <1>8, <1>9 DEF TagReadsBack

LEMMA ConditionTold ==
  ASSUME NEW field, NEW level \in 0 .. 2, SendCondition(field, level)
  PROVE  TagReadsBack' /\ sent'.tag \subseteq Field
<1> DEFINE tag == tag_packet_selected_level(field, level)
<1>1. sent' = [kind |-> "condition", level |-> level, tag |-> tag]
  BY DEF SendCondition
<1>2. sent'.kind = "condition" /\ sent'.level = level /\ sent'.tag = tag
  BY <1>1
<1>3. /\ Monitors(tag) = {} /\ SampledBit \notin tag
      /\ GET_VLAN_SELECTED_FLOW_VAL(tag) = level
      /\ 4 \notin tag /\ tag \subseteq Field
  BY ConditionTagBits
<1> HIDE DEF tag
<1>4. Monitors(sent.tag)' = Monitors(tag)
  BY <1>2 DEF Monitors, SwitchBit
<1>5. GET_VLAN_SELECTED_FLOW_VAL(sent.tag)' = GET_VLAN_SELECTED_FLOW_VAL(tag)
  BY <1>2 DEF GET_VLAN_SELECTED_FLOW_VAL
<1>6. TagTellsSelection'
  BY <1>2, <1>3, <1>4, <1>5 DEF TagTellsSelection, SampledBit
<1>7. TagTellsMonitors'
  BY <1>2 DEF TagTellsMonitors
<1> QED
  BY <1>2, <1>3, <1>6, <1>7 DEF TagReadsBack

LEMMA NothingTold ==
  ASSUME sent = Nothing
  PROVE  TagReadsBack
BY DEF Nothing, TagReadsBack, TagTellsMonitors, TagTellsSelection

LEMMA ToldBefore ==
  ASSUME TagReadsBack, UNCHANGED <<sent, task_file, hostid, unique_ip_num>>
  PROVE  TagReadsBack'
BY DEF TagReadsBack, TagTellsMonitors, TagTellsSelection, NetworksSuffice, Monitors,
       SwitchBit, GET_VLAN_SELECTED_FLOW_VAL, SampledBit, SenderIdx
-----------------------------------------------------------------------------
LEMMA ReplayInit == Init => ReplayInv
<1> SUFFICES ASSUME Init PROVE ReplayInv
  OBVIOUS
<1>1. GenInv
  BY GenInit DEF Init
<1>2. ReplayType /\ SentWhenReplaying
  <2>1. task_file \in Seq(Task \cup {Comment})
    BY TaskAssumption DEF Init
  <2>2. Len(task_file) \in Nat
    BY <2>1
  <2> QED
    BY <2>2 DEF Init, ReplayType, SentWhenReplaying
<1>3. KeptOnly /\ KeptOnce /\ KeptAll
  <2>1. Len(tasks) = 0 /\ next_line = 1
    BY DEF Init
  <2> QED
    BY <2>1 DEF KeptOnly, KeptOnce, KeptAll
<1>4. replayed \in 0 .. Len(files[hostid - 1])
  <2>1. hostid - 1 \in Node
    BY HostNode DEF Init
  <2>2. Len(files[hostid - 1]) = 0
    BY <2>1 DEF Init, GeneratorInit
  <2> QED
    BY <2>2 DEF Init
<1>5. sent = Nothing
  BY DEF Init
<1> QED
  BY <1>1, <1>2, <1>3, <1>4, <1>5, NothingTold DEF ReplayInv

(* What the parts of the invariant need of a step that leaves them alone. *)
LEMMA TasksKept ==
  ASSUME ReplayType, KeptOnly, KeptOnce, KeptAll,
         UNCHANGED <<hostid, task_file, next_line, tasks>>,
         sender' \in {"off", "reading", "replaying", "failed"},
         sender = "failed" => sender' = "failed"
  PROVE  ReplayType' /\ KeptOnly' /\ KeptOnce' /\ KeptAll'
<1>1. ReplayType'
  BY DEF ReplayType
<1>2. KeptOnly' /\ KeptOnce'
  BY DEF KeptOnly, KeptOnce, Ours
<1>3. KeptAll'
  BY DEF KeptAll, Ours
<1> QED
  BY <1>1, <1>2, <1>3

(* One more line of the task file. *)
LEMMA LineRead ==
  ASSUME ReplayInv, ReadTaskLine
  PROVE  ReplayType' /\ KeptOnly' /\ KeptOnce' /\ KeptAll'
<1> DEFINE n == next_line
           t == task_file[n]
<1>1. /\ sender = "reading" /\ n <= Len(task_file) /\ next_line' = n + 1
      /\ UNCHANGED <<hostid, task_file>>
  BY DEF ReadTaskLine
<1>2. /\ ReplayType /\ KeptOnly /\ KeptOnce /\ KeptAll
      /\ task_file \in Seq(Task \cup {Comment}) /\ Len(task_file) \in Nat
      /\ n \in 1 .. Len(task_file) /\ tasks \in Seq(Task) /\ Len(tasks) \in Nat
  BY <1>1, TaskAssumption DEF ReplayInv, ReplayType
<1>3. \A i : Ours(i)' <=> Ours(i)
  BY <1>1 DEF Ours
<1>4. \A i \in 1 .. next_line' - 1 : i \in 1 .. n - 1 \/ i = n
  BY <1>1, <1>2
<1>5. n \in 1 .. next_line' - 1 /\ \A i \in 1 .. n - 1 : i \in 1 .. next_line' - 1
  BY <1>1, <1>2
<1>6. next_line' \in 1 .. Len(task_file') + 1
  BY <1>1, <1>2
<1>7. CASE tasks' = tasks /\ sender' \in {"reading", "failed"}
           /\ (sender' # "failed" => ~ Ours(n))
  <2>1. ReplayType'
    BY <1>1, <1>2, <1>6, <1>7 DEF ReplayType
  <2>2. KeptOnly'
    BY <1>1, <1>2, <1>3, <1>5, <1>7 DEF KeptOnly
  <2>3. KeptOnce'
    BY <1>2, <1>7 DEF KeptOnce
  <2>4. KeptAll'
    BY <1>1, <1>2, <1>3, <1>4, <1>7 DEF KeptAll
  <2> QED
    BY <2>1, <2>2, <2>3, <2>4
<1>8. CASE tasks' = Append(tasks, t) /\ sender' = sender /\ Ours(n)
  <2>1. t \in Task
    BY <1>2, <1>8, TaskLines DEF Ours
  <2> DEFINE k == Len(tasks) + 1
  <2>2. /\ tasks' \in Seq(Task) /\ Len(tasks') = k /\ tasks'[k] = t
        /\ \A j \in 1 .. Len(tasks) : tasks'[j] = tasks[j]
    BY <1>2, <1>8, <2>1
  <2>3. \A j \in 1 .. Len(tasks') : j \in 1 .. Len(tasks) \/ j = k
    BY <1>2, <2>2
  <2>4. k \in 1 .. Len(tasks') /\ \A j \in 1 .. Len(tasks) : j \in 1 .. Len(tasks')
    BY <1>2, <2>2
  <2> HIDE DEF k
  <2>5. ReplayType'
    BY <1>1, <1>2, <1>6, <1>8, <2>2 DEF ReplayType
  <2>6. KeptOnly'
    <3> SUFFICES ASSUME NEW j \in 1 .. Len(tasks')
                 PROVE  \E i \in 1 .. next_line' - 1 :
                          Ours(i)' /\ tasks'[j] = task_file'[i]
      BY DEF KeptOnly
    <3>1. CASE j = k
      BY <3>1, <1>1, <1>3, <1>5, <1>8, <2>2
    <3>2. CASE j \in 1 .. Len(tasks)
      <4>1. PICK i \in 1 .. n - 1 : Ours(i) /\ tasks[j] = task_file[i]
        BY <3>2, <1>2 DEF KeptOnly
      <4> QED
        BY <4>1, <3>2, <1>1, <1>3, <1>5, <2>2
    <3> QED
      BY <3>1, <3>2, <2>3
  <2>7. \A j \in 1 .. Len(tasks) : tasks[j].receiver_host # t.receiver_host
    <3> SUFFICES ASSUME NEW j \in 1 .. Len(tasks),
                        tasks[j].receiver_host = t.receiver_host
                 PROVE  FALSE
      OBVIOUS
    <3>1. PICK i \in 1 .. n - 1 : Ours(i) /\ tasks[j] = task_file[i]
      BY <1>2 DEF KeptOnly
    <3>2. i \in 1 .. Len(task_file) /\ i # n
      BY <1>2
    <3> QED
      BY <3>1, <3>2, <1>2, <1>8, OneLinePerPair
  <2>8. KeptOnce'
    <3> SUFFICES ASSUME NEW j \in 1 .. Len(tasks'), NEW h \in 1 .. Len(tasks'), j # h
                 PROVE  tasks'[j].receiver_host # tasks'[h].receiver_host
      BY DEF KeptOnce
    <3>1. CASE j = k \/ h = k
      BY <3>1, <2>2, <2>3, <2>7
    <3>2. CASE j # k /\ h # k
      BY <3>2, <1>2, <2>2, <2>3 DEF KeptOnce
    <3> QED
      BY <3>1, <3>2
  <2>9. KeptAll'
    <3> SUFFICES ASSUME NEW i \in 1 .. next_line' - 1, Ours(i)
                 PROVE  \E j \in 1 .. Len(tasks') : tasks'[j] = task_file[i]
      BY <1>1, <1>3 DEF KeptAll
    <3>1. CASE i = n
      BY <3>1, <2>2, <2>4
    <3>2. CASE i \in 1 .. n - 1
      <4>1. PICK j \in 1 .. Len(tasks) : tasks[j] = task_file[i]
        BY <3>2, <1>1, <1>2 DEF KeptAll
      <4> QED
        BY <4>1, <2>2, <2>4
    <3> QED
      BY <3>1, <3>2, <1>4
  <2> QED
    BY <2>5, <2>6, <2>8, <2>9
<1>9. \/ tasks' = tasks /\ sender' \in {"reading", "failed"}
         /\ (sender' # "failed" => ~ Ours(n))
      \/ tasks' = Append(tasks, t) /\ sender' = sender /\ Ours(n)
  BY <1>1 DEF ReadTaskLine, Keep, Ours
<1> QED
  BY <1>7, <1>8, <1>9
-----------------------------------------------------------------------------
LEMMA ReplayStep == ReplayInv /\ [Next]_vars => ReplayInv'
<1> SUFFICES ASSUME ReplayInv, [Next]_vars PROVE ReplayInv'
  OBVIOUS
<1>1. GenInv'
  BY GenStep DEF ReplayInv
<1>2. /\ ReplayType /\ SentWhenReplaying /\ KeptOnly /\ KeptOnce /\ KeptAll
      /\ TagReadsBack /\ replayed \in 0 .. Len(files[hostid - 1])
      /\ sent = Nothing \/ sent.tag \subseteq Field
  BY DEF ReplayInv
<1>3. hostid \in Host /\ hostid - 1 \in Node
  BY <1>2, HostNode DEF ReplayType
<1>4. ASSUME UNCHANGED hostid PROVE Len(files'[hostid' - 1]) \in Nat
  <2>1. files' \in [Node -> Seq(Packet)]
    BY <1>1 DEF GenInv, FileType
  <2>2. files'[hostid' - 1] \in Seq(Packet)
    BY <2>1, <1>3, <1>4
  <2> QED
    BY <2>2
<1>5. CASE Generate
  <2>1. /\ sender = "off" /\ replayed = 0 /\ sent = Nothing
        /\ UNCHANGED <<sender, hostid, task_file, next_line, tasks, replayed, sent>>
    BY <1>2, <1>5 DEF Generate, replay, SentWhenReplaying
  <2>2. ReplayType' /\ KeptOnly' /\ KeptOnce' /\ KeptAll'
    BY <1>2, <2>1, TasksKept
  <2>3. SentWhenReplaying'
    BY <2>1 DEF SentWhenReplaying, Nothing
  <2>4. replayed' \in 0 .. Len(files'[hostid' - 1])
    BY <1>4, <2>1
  <2>5. sent' = Nothing
    BY <2>1
  <2>6. TagReadsBack'
    BY <2>5 DEF Nothing, TagReadsBack, TagTellsMonitors, TagTellsSelection
  <2> QED
    BY <1>1, <2>2, <2>3, <2>4, <2>5, <2>6 DEF ReplayInv, Nothing
<1>6. ASSUME UNCHANGED <<unique_ip_num, files, hostid, task_file, replayed, sent>>,
             ReplayType' /\ KeptOnly' /\ KeptOnce' /\ KeptAll', SentWhenReplaying'
      PROVE  ReplayInv'
  <2>1. TagReadsBack'
    BY <1>2, <1>6, ToldBefore
  <2> QED
    BY <1>1, <1>2, <1>6, <2>1 DEF ReplayInv, Nothing
<1>7. CASE StartSender
  <2>1. /\ sender = "off" /\ sender' = "reading"
        /\ UNCHANGED <<unique_ip_num, files, hostid, task_file, next_line, tasks,
                       replayed, sent>>
    BY <1>7 DEF StartSender, generator, maps
  <2>2. ReplayType' /\ KeptOnly' /\ KeptOnce' /\ KeptAll'
    BY <1>2, <2>1, TasksKept
  <2>3. SentWhenReplaying'
    BY <1>2, <2>1 DEF SentWhenReplaying, Nothing
  <2> QED
    BY <1>6, <2>1, <2>2, <2>3
<1>8. CASE ReadTaskLine
  <2>1. /\ sender = "reading" /\ sender' \in {"reading", "failed"}
        /\ UNCHANGED <<unique_ip_num, files, hostid, task_file, replayed, sent>>
    BY <1>8 DEF ReadTaskLine, generator, maps
  <2>2. ReplayType' /\ KeptOnly' /\ KeptOnce' /\ KeptAll'
    BY <1>8, LineRead
  <2>3. SentWhenReplaying'
    BY <1>2, <2>1 DEF SentWhenReplaying, Nothing
  <2> QED
    BY <1>6, <2>1, <2>2, <2>3
<1>9. CASE TasksRead
  <2>1. /\ sender = "reading" /\ sender' = "replaying" /\ next_line > Len(task_file)
        /\ UNCHANGED <<unique_ip_num, files, hostid, task_file, next_line, tasks,
                       replayed, sent>>
    BY <1>9 DEF TasksRead, generator, maps
  <2>2. ReplayType' /\ KeptOnly' /\ KeptOnce' /\ KeptAll'
    BY <1>2, <2>1, TasksKept
  <2>3. next_line' = Len(task_file') + 1
    <3>1. task_file \in Seq(Task \cup {Comment})
      BY <1>2, TaskAssumption DEF ReplayType
    <3>2. Len(task_file) \in Nat
      BY <3>1
    <3> QED
      BY <3>2, <1>2, <2>1 DEF ReplayType
  <2>4. SentWhenReplaying'
    BY <2>1, <2>3 DEF SentWhenReplaying
  <2> QED
    BY <1>6, <2>1, <2>2, <2>4
<1>10. ASSUME sender = "replaying", TagReadsBack', sent'.tag \subseteq Field,
              UNCHANGED <<sender, files, hostid, task_file, next_line, tasks>>,
              replayed' \in 0 .. Len(files[hostid - 1])
       PROVE  ReplayInv'
  <2>1. ReplayType' /\ KeptOnly' /\ KeptOnce' /\ KeptAll'
    BY <1>2, <1>10, TasksKept
  <2>2. SentWhenReplaying'
    BY <1>2, <1>10 DEF SentWhenReplaying
  <2> QED
    BY <1>1, <1>10, <2>1, <2>2 DEF ReplayInv
<1>11. ASSUME NEW level \in 0 .. 2, NEW sampled \in BOOLEAN, ReplayPacket(sampled, level)
       PROVE  ReplayInv'
  <2>1. /\ sender = "replaying" /\ replayed < Len(files[hostid - 1])
        /\ replayed' = replayed + 1
        /\ UNCHANGED <<sender, files, hostid, task_file, next_line, tasks>>
    BY <1>11 DEF ReplayPacket, generator
  <2>2. replayed' \in 0 .. Len(files[hostid - 1])
    <3>1. files[hostid - 1] \in Seq(Packet)
      BY <1>3 DEF ReplayInv, GenInv, FileType
    <3>2. Len(files[hostid - 1]) \in Nat
      BY <3>1
    <3> QED
      BY <3>2, <2>1, <1>2
  <2>3. TagReadsBack' /\ sent'.tag \subseteq Field
    BY <1>11, PacketTold
  <2> QED
    BY <1>10, <2>1, <2>2, <2>3
<1>12. ASSUME NEW level \in 0 .. 2, NEW field, SendCondition(field, level)
       PROVE  ReplayInv'
  <2>1. /\ sender = "replaying"
        /\ UNCHANGED <<sender, files, hostid, task_file, next_line, tasks, replayed>>
    BY <1>12 DEF SendCondition, generator
  <2>2. TagReadsBack' /\ sent'.tag \subseteq Field
    BY <1>12, ConditionTold
  <2> QED
    BY <1>2, <1>10, <2>1, <2>2
<1>13. CASE UNCHANGED vars
  <2>1. UNCHANGED <<unique_ip_num, files, sender, hostid, task_file, next_line, tasks,
                    replayed, sent>>
    BY <1>13 DEF vars, generator, maps, replay
  <2>2. ReplayType' /\ KeptOnly' /\ KeptOnce' /\ KeptAll'
    BY <1>2, <2>1, TasksKept DEF ReplayType
  <2>3. SentWhenReplaying'
    BY <1>2, <2>1 DEF SentWhenReplaying, Nothing
  <2> QED
    BY <1>6, <2>1, <2>2, <2>3
<1> QED
  BY <1>5, <1>7, <1>8, <1>9, <1>11, <1>12, <1>13 DEF Next

(* Type correctness of the generator and the sender. *)
THEOREM TypeCorrect == Spec => []TypeOK
<1>1. ReplayInv => TypeOK
  <2> SUFFICES ASSUME ReplayInv PROVE TypeOK
    OBVIOUS
  <2>1. MapType
    BY DEF ReplayInv, GenInv, MapOK, MapRec, CurrentMaps, MapType
  <2>2. GeneratorTypeOK
    BY <2>1 DEF ReplayInv, GenInv, HashType, FileType, GeneratorTypeOK
  <2> QED
    BY <2>2 DEF ReplayInv, ReplayType, TypeOK
<1> QED
  BY <1>1, ReplayInit, ReplayStep, PTL DEF Spec

(* get_task_of_traffic(), vlan_tag.c: for any trace, task file with one    *)
(* task per pair of hosts and number of senders, a replayed packet's tag   *)
(* names exactly the monitors that the file names for its two hosts and    *)
(* gives back its selection; a condition packet's gives back its level.    *)
THEOREM TagsReadBack == Spec => []TagReadsBack
<1>1. ReplayInv => TagReadsBack
  BY DEF ReplayInv
<1> QED
  BY <1>1, ReplayInit, ReplayStep, PTL DEF Spec
=============================================================================
