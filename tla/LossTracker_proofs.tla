------------------------- MODULE LossTracker_proofs -------------------------
(***************************************************************************)
(* Machine-checked proofs about LossTracker.                               *)
(***************************************************************************)
EXTENDS LossTracker, SeqLemmas, FiniteSetTheorems

(* The packets of f on their way to its receiver, and those still pending. *)
OnWire == [f \in Flow |-> ElementsOf(wire[Dst[f]][f])]
Pending == [f \in Flow |-> ElementsOf(pkt_list[f])]

(***************************************************************************)
(* What holds whatever the network does.  A new seqid is counted nowhere   *)
(* yet because it is larger than every recorded one (Fresh); a report      *)
(* reaches the sender of a delivered packet (ReportsDelivered) because     *)
(* packets reach only the receivers at the two ends of a flow (OnPath).    *)
(***************************************************************************)
Fresh == \A f \in Flow : \A s \in recorded[f] : s <= seqno[Src[f]]

OnPath ==
  \A f \in Flow : \A h \in Host \ {Src[f], Dst[f]} : wire[h][f] = <<>>

ReportsDelivered ==
  \A h \in Host : \A i \in 1 .. Len(fifo[h]) :
    /\ Src[fifo[h][i].flow] = h
    /\ fifo[h][i].seqid \in delivered[fifo[h][i].flow]

QInv ==
  /\ TypeOK /\ ListIsQueue /\ EachPacketCountedOnce /\ ReceivedWasDelivered
  /\ Fresh /\ OnPath /\ ReportsDelivered

(***************************************************************************)
(* What holds when the network keeps the order of each flow.  Along the    *)
(* path FIFO - wire - main thread the seqids of a flow ascend and all of   *)
(* them are pending, so a report frees only packets that have left the     *)
(* path (WireOrder, FifoOrder, HandOrder); a delivered packet is either    *)
(* counted as received or still has its report in the FIFO.                *)
(***************************************************************************)
WireOrder ==
  \A f \in Flow : Ascending(wire[Dst[f]][f]) /\ OnWire[f] \subseteq Pending[f]

FifoOrder ==
  \A h \in Host : \A i \in 1 .. Len(fifo[h]) :
    LET r == fifo[h][i]
    IN  /\ r.seqid \in Pending[r.flow]
        /\ \A j \in 1 .. i - 1 :
             fifo[h][j].flow = r.flow => fifo[h][j].seqid < r.seqid
        /\ \A x \in OnWire[r.flow] : r.seqid < x

HandOrder ==
  \A h \in Host : main[h].pc # "idle" =>
    /\ main[h].seqid \in Pending[main[h].flow]
    /\ \A x \in OnWire[main[h].flow] : x < main[h].seqid
    /\ \A i \in 1 .. Len(fifo[h]) :
         fifo[h][i].flow = main[h].flow => fifo[h][i].seqid < main[h].seqid

DeliveredKnown ==
  \A f \in Flow : \A s \in delivered[f] \ received[f] :
    \E i \in 1 .. Len(fifo[Src[f]]) :
      fifo[Src[f]][i].flow = f /\ fifo[Src[f]][i].seqid = s

EntryKnown == \A f \in Flow : pkt_list[f] # <<>> => f \in entries

HasVolume ==
  /\ \A f \in Flow : wire[Dst[f]][f] # <<>> => volume[FlowSrcOf[f]] > 0
  /\ \A h \in Host : \A i \in 1 .. Len(fifo[h]) :
       volume[FlowSrcOf[fifo[h][i].flow]] > 0
  /\ \A h \in Host : main[h].pc = "accounted" =>
       volume[FlowSrcOf[main[h].flow]] > 0
  /\ \A h \in Host : updator[h].pc = "apply" =>
       volume[FlowSrcOf[updator[h].flow]] > 0

OInv ==
  /\ WireOrder /\ FifoOrder /\ HandOrder /\ DeliveredKnown /\ EntryKnown
  /\ HasVolume /\ NoErrorReported
-----------------------------------------------------------------------------
(* An ascending list stays ascending when a greater seqid is appended. *)
LEMMA AppendAscending ==
  ASSUME NEW q \in Seq(Nat), Ascending(q), NEW s \in Nat,
         \A x \in ElementsOf(q) : x < s
  PROVE  /\ Ascending(Append(q, s))
         /\ ElementsOf(Append(q, s)) = ElementsOf(q) \cup {s}
<1> DEFINE p == Append(q, s)
<1>1. /\ p \in Seq(Nat) /\ Len(p) = Len(q) + 1 /\ p[Len(p)] = s
      /\ \A i \in 1 .. Len(q) : p[i] = q[i]
  BY AppendProperties
<1>2. Len(q) \in Nat
  OBVIOUS
<1> HIDE DEF p
<1>3. Ascending(p)
  <2> SUFFICES ASSUME NEW i \in 1 .. Len(p), NEW j \in 1 .. i - 1
               PROVE  p[j] < p[i]
    BY DEF Ascending
  <2>1. j \in 1 .. Len(q) /\ p[j] = q[j] /\ q[j] \in ElementsOf(q)
    BY <1>1, <1>2 DEF ElementsOf
  <2>2. CASE i = Len(p)
    BY <2>1, <2>2, <1>1
  <2>3. CASE i # Len(p)
    <3>1. Len(p) = Len(q) + 1 /\ Len(q) \in Nat
      BY <1>1, <1>2
    <3>2. i \in 1 .. Len(q)
      BY <2>3, <3>1
    <3>3. p[i] = q[i]
      BY <3>2, <1>1
    <3>4. q[j] < q[i]
      BY <3>2 DEF Ascending
    <3> QED
      BY <3>3, <3>4, <2>1
  <2> QED
    BY <2>2, <2>3
<1>4. ElementsOf(p) = ElementsOf(q) \cup {s}
  <2>1. ASSUME NEW x \in ElementsOf(p) PROVE x \in ElementsOf(q) \cup {s}
    <3>1. PICK i \in 1 .. Len(p) : x = p[i]
      BY DEF ElementsOf
    <3>2. i \in 1 .. Len(q) \/ i = Len(p)
      BY <1>1, <1>2
    <3> QED
      BY <3>1, <3>2, <1>1 DEF ElementsOf
  <2>2. ASSUME NEW x \in ElementsOf(q) PROVE x \in ElementsOf(p)
    <3>1. PICK i \in 1 .. Len(q) : x = q[i]
      BY DEF ElementsOf
    <3>2. i \in 1 .. Len(p) /\ p[i] = x
      BY <3>1, <1>1, <1>2
    <3> QED
      BY <3>2 DEF ElementsOf
  <2>3. s \in ElementsOf(p)
    <3>1. Len(p) \in 1 .. Len(p)
      BY <1>1, <1>2
    <3> QED
      BY <3>1, <1>1 DEF ElementsOf
  <2> QED
    BY <2>1, <2>2, <2>3
<1> QED
  BY <1>3, <1>4 DEF p

(* Removing the packet at a position removes no other packet's seqid, and  *)
(* removing the first one leaves only greater ones.                        *)
LEMMA RemoveAscending ==
  ASSUME NEW q \in Seq(Nat), Ascending(q), NEW n \in 1 .. Len(q)
  PROVE  /\ Ascending(RemoveAt(q, n))
         /\ ElementsOf(RemoveAt(q, n)) \subseteq ElementsOf(q)
         /\ n = 1 => \A x \in ElementsOf(RemoveAt(q, n)) : q[1] < x
<1> DEFINE p == RemoveAt(q, n)
<1>1. /\ p \in Seq(Nat) /\ Len(p) = Len(q) - 1
      /\ \A j \in 1 .. Len(q) - 1 : p[j] = IF j < n THEN q[j] ELSE q[j + 1]
  BY RemoveAtProperties
<1>2. Len(q) \in Nat
  OBVIOUS
<1> HIDE DEF p
<1> DEFINE at(j) == IF j < n THEN j ELSE j + 1
<1>3. ASSUME NEW j \in 1 .. Len(p)
      PROVE  at(j) \in 1 .. Len(q) /\ p[j] = q[at(j)]
  <2>1. j \in 1 .. Len(q) - 1
    BY <1>1
  <2>2. p[j] = q[at(j)]
    BY <2>1, <1>1
  <2>3. at(j) \in 1 .. Len(q)
    BY <2>1, <1>2
  <2> QED
    BY <2>2, <2>3
<1>4. Ascending(p)
  <2> SUFFICES ASSUME NEW i \in 1 .. Len(p), NEW j \in 1 .. i - 1
               PROVE  p[j] < p[i]
    BY DEF Ascending
  <2>1. j \in 1 .. Len(p) /\ at(j) \in 1 .. at(i) - 1
    BY <1>1, <1>2
  <2>2. at(i) \in 1 .. Len(q) /\ p[i] = q[at(i)] /\ p[j] = q[at(j)]
    BY <2>1, <1>3
  <2> QED
    BY <2>1, <2>2 DEF Ascending
<1>5. ElementsOf(p) \subseteq ElementsOf(q)
  BY <1>3 DEF ElementsOf
<1>6. ASSUME n = 1, NEW x \in ElementsOf(p) PROVE q[1] < x
  <2>1. PICK j \in 1 .. Len(p) : x = p[j]
    BY DEF ElementsOf
  <2>2. j + 1 \in 1 .. Len(q) /\ x = q[j + 1] /\ 1 \in 1 .. (j + 1) - 1
    BY <2>1, <1>6, <1>1, <1>2
  <2> QED
    BY <2>2 DEF Ascending
<1> QED
  BY <1>4, <1>5, <1>6 DEF p

(* The walk down an ascending packet list splits it at the reported seqid: *)
(* smaller ones are popped as lost, the reported one is found if it is in  *)
(* the list, and the greater ones remain, in order.                        *)
LEMMA PopSplits ==
  ASSUME NEW q \in Seq(Seqid), Ascending(q), NEW s \in Seqid
  PROVE  LET k     == PopUpTo(q, s)
             found == k <= Len(q) /\ q[k] = s
             rest  == Remaining(q, k, found)
         IN  /\ k \in 1 .. Len(q) + 1
             /\ found <=> s \in ElementsOf(q)
             /\ {q[j] : j \in 1 .. k - 1} = {x \in ElementsOf(q) : x < s}
             /\ rest \in Seq(Seqid)
             /\ Ascending(rest)
             /\ ElementsOf(rest) = {x \in ElementsOf(q) : x > s}
             /\ rest # <<>> => rest[Len(rest)] = q[Len(q)]
<1> DEFINE k == PopUpTo(q, s)
           found == k <= Len(q) /\ q[k] = s
           rest == Remaining(q, k, found)
           n == Len(q)
           T == {i \in 1 .. n + 1 : i <= n => q[i] >= s}
<1>1. n \in Nat /\ \A i \in 1 .. n : q[i] \in Nat \ {0}
  BY DEF Seqid
<1>2. n + 1 \in T /\ T \in SUBSET Nat
  BY <1>1
<1>3. PICK m \in T : \A j \in T : m <= j
  BY <1>2, LeastNat
<1>4. /\ m \in 1 .. n + 1
      /\ m <= n => q[m] >= s
      /\ \A j \in 1 .. m - 1 : q[j] < s
  <2>1. ASSUME NEW j \in 1 .. m - 1 PROVE q[j] < s
    <3>1. j \in 1 .. n /\ j \notin T
      BY <1>1, <1>3
    <3> QED
      BY <3>1, <1>1 DEF Seqid
  <2> QED
    BY <2>1, <1>3
<1>5. /\ k \in 1 .. n + 1
      /\ k <= n => q[k] >= s
      /\ \A j \in 1 .. k - 1 : q[j] < s
  BY <1>4 DEF PopUpTo
<1> HIDE DEF k
<1>6. ASSUME NEW j \in k + 1 .. n PROVE q[j] > s
  <2>1. j \in 1 .. n /\ k \in 1 .. n /\ k \in 1 .. j - 1
    BY <1>1, <1>5
  <2>2. q[k] < q[j]
    BY <2>1 DEF Ascending
  <2> QED
    BY <2>1, <2>2, <1>5, <1>1 DEF Seqid
<1>7. found <=> s \in ElementsOf(q)
  <2>1. ASSUME found PROVE s \in ElementsOf(q)
    BY <2>1, <1>5, <1>1 DEF ElementsOf
  <2>2. ASSUME s \in ElementsOf(q) PROVE found
    <3>1. PICK j \in 1 .. n : q[j] = s
      BY <2>2 DEF ElementsOf
    <3>2. ~ (j \in 1 .. k - 1) /\ ~ (j \in k + 1 .. n)
      BY <3>1, <1>1, <1>5, <1>6 DEF Seqid
    <3>3. j = k
      BY <3>2, <1>1, <1>5
    <3> QED
      BY <3>1, <3>3, <1>1
  <2> QED
    BY <2>1, <2>2
<1>8. {q[j] : j \in 1 .. k - 1} = {x \in ElementsOf(q) : x < s}
  <2>1. ASSUME NEW j \in 1 .. k - 1 PROVE q[j] \in ElementsOf(q) /\ q[j] < s
    <3>1. j \in 1 .. n
      BY <1>5, <1>1
    <3> QED
      BY <3>1, <1>5 DEF ElementsOf
  <2>2. ASSUME NEW x \in ElementsOf(q), x < s
        PROVE  \E j \in 1 .. k - 1 : x = q[j]
    <3>1. PICK j \in 1 .. n : q[j] = x
      BY DEF ElementsOf
    <3>2. ~ (j \in k + 1 .. n) /\ j # k
      BY <3>1, <2>2, <1>1, <1>5, <1>6 DEF Seqid
    <3>3. j \in 1 .. k - 1
      BY <3>2, <1>1, <1>5
    <3> QED
      BY <3>1, <3>3
  <2> QED
    BY <2>1, <2>2
<1> DEFINE b == IF found THEN k + 1 ELSE k
<1>9. b \in 1 .. n + 1 /\ \A j \in b .. n : j \in 1 .. n /\ q[j] > s
  BY <1>1, <1>5, <1>6 DEF Seqid
<1>10. /\ rest \in Seq(Seqid) /\ Len(rest) = n - b + 1
       /\ \A j \in 1 .. n - b + 1 : rest[j] = q[b + j - 1]
  <2> HIDE DEF b
  <2>1. rest = SubSeq(q, b, n)
    BY DEF Remaining, b
  <2>2. b \in Int /\ n \in Int /\ \A i \in b .. n : q[i] \in Seqid
    BY <1>1, <1>9
  <2> HIDE DEF n, rest
  <2>3. /\ rest \in Seq(Seqid) /\ Len(rest) = IF b <= n THEN n - b + 1 ELSE 0
        /\ \A j \in 1 .. n - b + 1 : rest[j] = q[b + j - 1]
    BY <2>1, <2>2, SubSeqProperties
  <2> QED
    BY <2>3, <1>1, <1>9
<1>11. \A x \in ElementsOf(q) : x > s => \E j \in b .. n : x = q[j]
  <2> SUFFICES ASSUME NEW x \in ElementsOf(q), x > s
               PROVE  \E j \in b .. n : x = q[j]
    OBVIOUS
  <2>1. PICK j \in 1 .. n : q[j] = x
    BY DEF ElementsOf
  <2>2. ~ (j \in 1 .. k - 1) /\ (found => j # k)
    BY <2>1, <1>1, <1>5 DEF Seqid
  <2>3. j \in b .. n
    BY <2>2, <1>1, <1>5
  <2> QED
    BY <2>1, <2>3
<1> HIDE DEF b, rest, found
<1>12. Ascending(rest)
  <2> SUFFICES ASSUME NEW i \in 1 .. Len(rest), NEW j \in 1 .. i - 1
               PROVE  rest[j] < rest[i]
    BY DEF Ascending
  <2>1. /\ i \in 1 .. n - b + 1 /\ j \in 1 .. n - b + 1
        /\ b + i - 1 \in 1 .. n /\ b + j - 1 \in 1 .. (b + i - 1) - 1
    BY <1>1, <1>9, <1>10
  <2>2. q[b + j - 1] < q[b + i - 1]
    BY <2>1 DEF Ascending
  <2> QED
    BY <2>1, <2>2, <1>10
<1>13. ElementsOf(rest) = {x \in ElementsOf(q) : x > s}
  <2>1. ASSUME NEW i \in 1 .. Len(rest)
        PROVE  rest[i] \in ElementsOf(q) /\ rest[i] > s
    <3>1. i \in 1 .. n - b + 1 /\ b + i - 1 \in b .. n
      BY <1>1, <1>9, <1>10
    <3>2. rest[i] = q[b + i - 1] /\ b + i - 1 \in 1 .. n /\ q[b + i - 1] > s
      BY <3>1, <1>9, <1>10
    <3> QED
      BY <3>2 DEF ElementsOf
  <2>2. ASSUME NEW x \in ElementsOf(q), x > s
        PROVE  \E i \in 1 .. Len(rest) : x = rest[i]
    <3>1. PICK j \in b .. n : x = q[j]
      BY <2>2, <1>11
    <3>2. j - b + 1 \in 1 .. n - b + 1 /\ b + (j - b + 1) - 1 = j
      BY <3>1, <1>1, <1>9
    <3>3. rest[j - b + 1] = q[j]
      BY <3>2, <1>10
    <3> QED
      BY <3>1, <3>2, <3>3, <1>10
  <2> QED
    BY <2>1, <2>2 DEF ElementsOf
<1>14. rest # <<>> => rest[Len(rest)] = q[n]
  <2> SUFFICES ASSUME rest # <<>> PROVE rest[Len(rest)] = q[n]
    OBVIOUS
  <2>1. Len(rest) # 0
    BY <1>10, EmptySeq
  <2>2. Len(rest) \in 1 .. n - b + 1 /\ b + Len(rest) - 1 = n
    BY <2>1, <1>1, <1>9, <1>10
  <2> QED
    BY <2>2, <1>10
<1> QED
  BY <1>5, <1>7, <1>8, <1>10, <1>12, <1>13, <1>14 DEF k, found, rest
-----------------------------------------------------------------------------
(* An empty sequence has no elements and ascends. *)
LEMMA EmptyFacts == Ascending(<<>>) /\ ElementsOf(<<>>) = {}
BY DEF Ascending, ElementsOf

(* Where the wires of a flow lead: Src and Dst are hosts. *)
LEMMA Ends ==
  ASSUME NEW f \in Flow
  PROVE  Src[f] \in Host /\ Dst[f] \in Host /\ Src[f] # Dst[f]
         /\ FlowSrcOf[f] \in FlowSrc
BY FlowAssumption

(* What a FIFO holds are reports. *)
LEMMA ReportAt ==
  ASSUME FifoType, NEW h \in Host, NEW i \in 1 .. Len(fifo[h])
  PROVE  fifo[h][i].flow \in Flow /\ fifo[h][i].seqid \in Seqid
<1>1. fifo[h] \in Seq([flow : Flow, seqid : Seqid])
  BY DEF FifoType
<1> DEFINE q == fifo[h]
           r == q[i]
<1> HIDE DEF q
<1>2. r \in [flow : Flow, seqid : Seqid]
  BY <1>1, ElementOfSeq DEF q
<1> HIDE DEF r
<1>3. r.flow \in Flow /\ r.seqid \in Seqid
  BY <1>2
<1> QED
  BY <1>3 DEF q, r

LEMMA QInit == Init => QInv
<1> SUFFICES ASSUME Init PROVE QInv
  OBVIOUS
<1>1. TypeOK
  <2>1. SeqnoType /\ ListType /\ WireType /\ FifoType /\ VolumeType /\ ErrorsType
    BY DEF Init, SeqnoType, ListType, WireType, FifoType, VolumeType, ErrorsType
  <2>2. MainType
    BY DEF Init, MainType, Idle, Doing, Task
  <2>3. UpdatorType
    BY DEF Init, UpdatorType, Reading
  <2>4. HistoryType
    BY DEF Init, HistoryType
  <2> QED
    BY <2>1, <2>2, <2>3, <2>4 DEF TypeOK
<1>2. ListIsQueue /\ EachPacketCountedOnce
  BY EmptyFacts DEF Init, ListIsQueue, EachPacketCountedOnce
<1>3. ReceivedWasDelivered /\ Fresh /\ OnPath /\ ReportsDelivered
  BY Ends DEF Init, ReceivedWasDelivered, Fresh, OnPath, ReportsDelivered
<1> QED
  BY <1>1, <1>2, <1>3 DEF QInv

(* The effect of recording a packet: it is appended to its flow's list. *)
LEMMA RecordEffect ==
  ASSUME QInv, NEW h \in Host, NEW f \in Flow, RecordPacket(h, f)
  PROVE  LET s == seqno[h] + 1
         IN  /\ h = Src[f] /\ s \in Seqid
             /\ \A x \in recorded[f] : x < s
             /\ pkt_list' = [pkt_list EXCEPT ![f] = Append(pkt_list[f], s)]
             /\ newest_pkt' = [newest_pkt EXCEPT ![f] = s]
             /\ Ascending(Append(pkt_list[f], s))
             /\ ElementsOf(Append(pkt_list[f], s)) = Pending[f] \cup {s}
             /\ Append(pkt_list[f], s) \in Seq(Seqid)
             /\ Len(Append(pkt_list[f], s)) > 0
             /\ Append(pkt_list[f], s)[Len(Append(pkt_list[f], s))] = s
<1> DEFINE s == seqno[h] + 1
           q == pkt_list[f]
<1>1. h = Src[f] /\ seqno[h] \in Nat /\ s \in Nat /\ s \in Seqid
  BY DEF QInv, TypeOK, SeqnoType, RecordPacket, Seqid
<1>2. \A x \in recorded[f] : x \in Nat /\ x < s
  BY <1>1 DEF QInv, TypeOK, HistoryType, Fresh, Seqid
<1>3. q \in Seq(Seqid) /\ q \in Seq(Nat) /\ Ascending(q)
  <2>1. q \in Seq(Seqid) /\ Ascending(q)
    BY DEF QInv, TypeOK, ListType, ListIsQueue
  <2>2. \A i \in 1 .. Len(q) : q[i] \in Nat
    BY <2>1 DEF Seqid
  <2> QED
    BY <2>1, <2>2
<1>4. \A x \in ElementsOf(q) : x < s
  BY <1>2 DEF QInv, EachPacketCountedOnce
<1>5. newest_pkt[f] = IF q = <<>> THEN 0 ELSE q[Len(q)]
  BY DEF QInv, ListIsQueue
<1>6. /\ pkt_list' = [pkt_list EXCEPT ![f] =
                        IF q = <<>> THEN <<s>>
                        ELSE IF newest_pkt[f] = q[Len(q)] THEN Append(q, s) ELSE q]
      /\ newest_pkt' = [newest_pkt EXCEPT ![f] = s]
  BY DEF RecordPacket, AppendPkt, Last
<1> HIDE DEF s, q
<1>7. q = <<>> => <<s>> = Append(q, s)
  BY <1>1
<1>8. pkt_list' = [pkt_list EXCEPT ![f] = Append(q, s)]
  BY <1>5, <1>6, <1>7
<1>9. /\ Append(q, s) \in Seq(Seqid) /\ Len(Append(q, s)) > 0
      /\ Append(q, s)[Len(Append(q, s))] = s
  BY <1>1, <1>3, AppendProperties
<1>10. /\ Ascending(Append(q, s))
       /\ ElementsOf(Append(q, s)) = ElementsOf(q) \cup {s}
  BY <1>1, <1>3, <1>4, AppendAscending
<1> QED
  BY <1>1, <1>2, <1>6, <1>8, <1>9, <1>10 DEF s, q, Pending

LEMMA RecordQ ==
  ASSUME QInv, NEW h \in Host, NEW f \in Flow, RecordPacket(h, f)
  PROVE  QInv'
<1> DEFINE s == seqno[h] + 1
           p == Append(pkt_list[f], s)
<1>1. /\ h = Src[f] /\ s \in Seqid /\ \A x \in recorded[f] : x < s
      /\ pkt_list' = [pkt_list EXCEPT ![f] = p]
      /\ newest_pkt' = [newest_pkt EXCEPT ![f] = s]
      /\ Ascending(p) /\ ElementsOf(p) = Pending[f] \cup {s}
      /\ p \in Seq(Seqid) /\ Len(p) > 0 /\ p[Len(p)] = s
  BY RecordEffect
<1>2. /\ seqno' = [seqno EXCEPT ![h] = s]
      /\ entries' = entries \cup {f}
      /\ recorded' = [recorded EXCEPT ![f] = @ \cup {s}]
      /\ main' = [main EXCEPT ![h] = Doing("recorded", f, s)]
      /\ UNCHANGED <<volume, volume_sent, netVars, updatorVars>>
  BY DEF RecordPacket
<1>3. /\ seqno \in [Host -> Nat] /\ seqno[h] \in Nat /\ s = seqno[h] + 1
      /\ ListType /\ HistoryType
  BY DEF QInv, TypeOK, SeqnoType
<1> HIDE DEF s, p
<1>5. TypeOK'
  <2>1. MainType'
    BY <1>1, <1>2 DEF QInv, TypeOK, MainType, Doing, Task, Seqid
  <2>2. SeqnoType'
    BY <1>2, <1>3 DEF SeqnoType
  <2>3. ListType'
    BY <1>1, <1>2, <1>3 DEF ListType, Seqid
  <2>4. HistoryType'
    BY <1>1, <1>2, <1>3 DEF HistoryType, netVars, updatorVars
  <2>5. WireType' /\ FifoType' /\ UpdatorType' /\ VolumeType' /\ ErrorsType'
    BY <1>2 DEF QInv, TypeOK, WireType, FifoType, UpdatorType, VolumeType,
                ErrorsType, netVars, updatorVars
  <2> QED
    BY <2>1, <2>2, <2>3, <2>4, <2>5 DEF TypeOK
<1>6. ListIsQueue'
  <2> SUFFICES ASSUME NEW g \in Flow
               PROVE  /\ Ascending(pkt_list'[g])
                      /\ newest_pkt'[g] = IF pkt_list'[g] = <<>> THEN 0
                                          ELSE pkt_list'[g][Len(pkt_list'[g])]
    BY DEF ListIsQueue
  <2>1. CASE g = f
    <3>1. pkt_list'[g] = p /\ newest_pkt'[g] = s
      BY <2>1, <1>1, <1>3 DEF ListType
    <3>2. p # <<>>
      BY <1>1
    <3> QED
      BY <3>1, <3>2, <1>1
  <2>2. CASE g # f
    BY <2>2, <1>1, <1>3 DEF QInv, ListType, ListIsQueue
  <2> QED
    BY <2>1, <2>2
<1>7. EachPacketCountedOnce'
  <2> SUFFICES ASSUME NEW g \in Flow
               PROVE  /\ recorded'[g] = ElementsOf(pkt_list'[g]) \cup received[g] \cup lost[g]
                      /\ ElementsOf(pkt_list'[g]) \cap received[g] = {}
                      /\ ElementsOf(pkt_list'[g]) \cap lost[g] = {}
                      /\ received[g] \cap lost[g] = {}
    BY <1>2 DEF EachPacketCountedOnce, updatorVars
  <2>1. /\ recorded[g] = ElementsOf(pkt_list[g]) \cup received[g] \cup lost[g]
        /\ ElementsOf(pkt_list[g]) \cap received[g] = {}
        /\ ElementsOf(pkt_list[g]) \cap lost[g] = {}
        /\ received[g] \cap lost[g] = {}
    BY DEF QInv, EachPacketCountedOnce
  <2>2. CASE g = f
    <3>1. /\ recorded'[g] = recorded[g] \cup {s}
          /\ ElementsOf(pkt_list'[g]) = ElementsOf(pkt_list[g]) \cup {s}
      BY <2>2, <1>1, <1>2, <1>3 DEF ListType, HistoryType, Pending
    <3>2. s \notin recorded[g]
      BY <2>2, <1>1, <1>3 DEF Seqid
    <3> QED
      BY <3>1, <3>2, <2>1
  <2>3. CASE g # f
    <3>1. recorded'[g] = recorded[g] /\ pkt_list'[g] = pkt_list[g]
      BY <2>3, <1>1, <1>2, <1>3 DEF ListType, HistoryType
    <3> QED
      BY <3>1, <2>1
  <2> QED
    BY <2>2, <2>3
<1>8. Fresh'
  <2> SUFFICES ASSUME NEW g \in Flow, NEW x \in recorded'[g]
               PROVE  x <= seqno'[Src[g]]
    BY DEF Fresh
  <2>1. (x = s /\ g = f) \/ x \in recorded[g]
    BY <1>2, <1>3 DEF HistoryType
  <2>2. Src[g] \in Host /\ seqno[Src[g]] \in Nat
    BY <1>3, Ends
  <2>3. seqno[Src[g]] <= seqno'[Src[g]] /\ seqno'[Src[g]] \in Nat
    BY <1>2, <1>3, <2>2
  <2>4. CASE x = s /\ g = f
    BY <2>4, <1>1, <1>2, <1>3
  <2>5. CASE x \in recorded[g]
    BY <2>5, <2>2, <2>3, <1>3 DEF QInv, Fresh, HistoryType, Seqid
  <2> QED
    BY <2>1, <2>4, <2>5
<1>9. ReceivedWasDelivered' /\ OnPath' /\ ReportsDelivered'
  BY <1>2 DEF QInv, ReceivedWasDelivered, OnPath, ReportsDelivered, netVars, updatorVars
<1> QED
  BY <1>5, <1>6, <1>7, <1>8, <1>9 DEF QInv

LEMMA VolumeQ ==
  ASSUME QInv, NEW h \in Host, UpdateVolume(h)
  PROVE  QInv'
<1>1. /\ main[h].pc # "idle"
      /\ main' = [main EXCEPT ![h] = Doing("accounted", main[h].flow, main[h].seqid)]
      /\ volume' = [volume EXCEPT ![FlowSrcOf[main[h].flow]] = @ + 1]
      /\ volume_sent' = [volume_sent EXCEPT ![h] = @ + 1]
      /\ UNCHANGED <<seqno, recorded, listVars, netVars, updatorVars>>
  BY DEF UpdateVolume
<1>2. MainType /\ VolumeType
  BY DEF QInv, TypeOK
<1>3. MainType'
  BY <1>1, <1>2 DEF MainType, Doing, Task
<1>4. VolumeType'
  <2>1. volume' \in [FlowSrc -> Nat]
    <3>1. FlowSrcOf[main[h].flow] \in FlowSrc /\ volume \in [FlowSrc -> Nat]
      BY <1>1, <1>2, Ends DEF MainType, VolumeType
    <3>2. volume[FlowSrcOf[main[h].flow]] + 1 \in Nat
      BY <3>1
    <3> QED
      BY <1>1, <3>1, <3>2
  <2>2. volume_sent' \in [Host -> Nat]
    BY <1>1, <1>2 DEF VolumeType
  <2> QED
    BY <1>1, <1>2, <2>1, <2>2 DEF VolumeType, updatorVars
<1>5. TypeOK'
  BY <1>1, <1>3, <1>4 DEF QInv, TypeOK, SeqnoType, ListType, WireType, FifoType,
     UpdatorType, ErrorsType, HistoryType, listVars, netVars, updatorVars
<1> QED
  BY <1>1, <1>5 DEF QInv, ListIsQueue, EachPacketCountedOnce, ReceivedWasDelivered,
     Fresh, OnPath, ReportsDelivered, listVars, netVars, updatorVars

LEMMA LossQ ==
  ASSUME QInv, NEW h \in Host, UpdateLoss(h)
  PROVE  QInv'
<1>1. /\ updator[h].pc = "apply"
      /\ updator' = [updator EXCEPT ![h] = Reading]
      /\ volume_lost' = [volume_lost EXCEPT ![h] = @ + updator[h].lost]
      /\ UNCHANGED <<mainVars, listVars, netVars, lost, received>>
      /\ \/ loss' = loss
            /\ errors' = errors \cup {"FATAL: flow_volume = 0 while loss_volume > 0"}
         \/ loss' = [loss EXCEPT ![FlowSrcOf[updator[h].flow]] = @ + updator[h].lost]
            /\ errors' = errors
  BY DEF UpdateLoss
<1>2. UpdatorType /\ VolumeType /\ ErrorsType
  BY DEF QInv, TypeOK
<1>3. UpdatorType'
  BY <1>1, <1>2 DEF UpdatorType, Reading
<1>4. VolumeType'
  <2>1. updator[h].lost \in Nat
    BY <1>2 DEF UpdatorType
  <2>2. loss' \in [FlowSrc -> Nat]
    <3>1. FlowSrcOf[updator[h].flow] \in FlowSrc /\ loss \in [FlowSrc -> Nat]
      BY <1>1, <1>2, Ends DEF UpdatorType, VolumeType
    <3>2. loss[FlowSrcOf[updator[h].flow]] + updator[h].lost \in Nat
      BY <2>1, <3>1
    <3> QED
      BY <1>1, <3>1, <3>2
  <2>3. volume_lost' \in [Host -> Nat]
    <3>1. volume_lost \in [Host -> Nat] /\ volume_lost[h] + updator[h].lost \in Nat
      BY <1>2, <2>1 DEF VolumeType
    <3> QED
      BY <1>1, <3>1
  <2> QED
    BY <1>1, <1>2, <2>2, <2>3 DEF VolumeType, mainVars
<1>5. ErrorsType'
  BY <1>1, <1>2 DEF ErrorsType
<1>6. TypeOK'
  BY <1>1, <1>3, <1>4, <1>5 DEF QInv, TypeOK, SeqnoType, ListType, MainType,
     WireType, FifoType, HistoryType, mainVars, listVars, netVars
<1> QED
  BY <1>1, <1>6 DEF QInv, ListIsQueue, EachPacketCountedOnce, ReceivedWasDelivered,
     Fresh, OnPath, ReportsDelivered, mainVars, listVars, netVars

(* The effect of sending: the packet is appended to both captures or lost. *)
LEMMA SendEffect ==
  ASSUME QInv, NEW h \in Host, SendPacket(h)
  PROVE  LET f == main[h].flow
             s == main[h].seqid
         IN  /\ main[h].pc = "accounted" /\ f \in Flow /\ h = Src[f] /\ s \in Seqid
             /\ main' = [main EXCEPT ![h] = Idle]
             /\ \/ wire' = wire
                \/ /\ wire'[Dst[f]][f] = Append(wire[Dst[f]][f], s)
                   /\ \A g \in Flow : \A x \in Host :
                        x \notin {Src[f], Dst[f]} \/ g # f =>
                          wire'[x][g] = wire[x][g]
             /\ WireType'
             /\ UNCHANGED <<seqno, recorded, volume, volume_sent, listVars, fifo,
                            delivered, updatorVars>>
<1> DEFINE f == main[h].flow
           s == main[h].seqid
<1>1. /\ main[h].pc = "accounted"
      /\ main' = [main EXCEPT ![h] = Idle]
      /\ \/ wire' = [wire EXCEPT ![Dst[f]][f] = Append(@, s),
                                 ![h][f] = Append(@, s)]
         \/ wire' = wire
      /\ UNCHANGED <<seqno, recorded, volume, volume_sent, listVars, fifo,
                     delivered, updatorVars>>
  BY DEF SendPacket, SendPoint
<1>2. f \in Flow /\ h = Src[f] /\ s \in Seqid
  BY <1>1 DEF QInv, TypeOK, MainType
<1> HIDE DEF f, s
<1>3. Dst[f] \in Host /\ Dst[f] # h
  BY <1>2, Ends
<1>4. wire \in [Host -> [Flow -> Seq(Seqid)]]
  BY DEF QInv, TypeOK, WireType
<1>5. CASE wire' = [wire EXCEPT ![Dst[f]][f] = Append(@, s),
                                ![h][f] = Append(@, s)]
  <2> DEFINE p == Append(wire[Dst[f]][f], s)
             q == Append(wire[h][f], s)
  <2>3. p \in Seq(Seqid) /\ q \in Seq(Seqid)
    BY <1>2, <1>3, <1>4, AppendProperties
  <2>4. wire' = [x \in Host |->
                   IF x = Dst[f] THEN [wire[x] EXCEPT ![f] = p]
                   ELSE IF x = h THEN [wire[x] EXCEPT ![f] = q] ELSE wire[x]]
    BY <1>2, <1>3, <1>4, <1>5
  <2> HIDE DEF p, q
  <2>5. \A x \in Host : wire'[x] \in [Flow -> Seq(Seqid)]
    BY <1>2, <1>4, <2>3, <2>4
  <2>1. /\ wire' \in [Host -> [Flow -> Seq(Seqid)]]
        /\ wire'[Dst[f]][f] = p
    BY <1>2, <1>3, <1>4, <2>4, <2>5
  <2>2. \A g \in Flow : \A x \in Host :
          x \notin {Src[f], Dst[f]} \/ g # f => wire'[x][g] = wire[x][g]
    BY <1>2, <1>3, <1>4, <1>5
  <2> QED
    BY <1>1, <1>2, <2>1, <2>2 DEF WireType, f, s, p
<1>6. CASE wire' = wire
  BY <1>1, <1>2, <1>4, <1>6 DEF WireType, f, s
<1> QED
  BY <1>1, <1>5, <1>6

LEMMA SendQ ==
  ASSUME QInv, NEW h \in Host, SendPacket(h)
  PROVE  QInv'
<1> DEFINE f == main[h].flow
           s == main[h].seqid
<1>1. /\ f \in Flow /\ h = Src[f] /\ s \in Seqid
      /\ main' = [main EXCEPT ![h] = Idle]
      /\ \/ wire' = wire
         \/ /\ \A g \in Flow : \A x \in Host :
                 x \notin {Src[f], Dst[f]} \/ g # f => wire'[x][g] = wire[x][g]
      /\ WireType'
      /\ UNCHANGED <<seqno, recorded, volume, volume_sent, listVars, fifo,
                     delivered, updatorVars>>
  BY SendEffect
<1> HIDE DEF f, s
<1>2. MainType'
  BY <1>1 DEF QInv, TypeOK, MainType, Idle, Doing, Task
<1>3. TypeOK'
  BY <1>1, <1>2 DEF QInv, TypeOK, SeqnoType, ListType, FifoType, UpdatorType,
     VolumeType, ErrorsType, HistoryType, listVars, updatorVars
<1>4. OnPath'
  BY <1>1 DEF QInv, OnPath
<1> QED
  BY <1>1, <1>3, <1>4 DEF QInv, ListIsQueue, EachPacketCountedOnce,
     ReceivedWasDelivered, Fresh, ReportsDelivered, listVars, updatorVars

(* Taking one packet off a wire leaves every other wire alone. *)
LEMMA TakeOff ==
  ASSUME QInv, NEW h \in Host, NEW f \in Flow, NEW i \in 1 .. Len(wire[h][f]),
         wire' = [wire EXCEPT ![h][f] = RemoveAt(@, i)]
  PROVE  /\ h \in {Src[f], Dst[f]}
         /\ WireType' /\ OnPath'
         /\ wire'[h][f] = RemoveAt(wire[h][f], i)
         /\ \A x \in Host : \A g \in Flow :
              x # h \/ g # f => wire'[x][g] = wire[x][g]
<1>1. wire \in [Host -> [Flow -> Seq(Seqid)]] /\ wire[h][f] \in Seq(Seqid)
  BY DEF QInv, TypeOK, WireType
<1>2. h \in {Src[f], Dst[f]}
  <2>1. wire[h][f] # <<>>
    OBVIOUS
  <2> QED
    BY <2>1 DEF QInv, OnPath
<1> DEFINE p == RemoveAt(wire[h][f], i)
<1>3. p \in Seq(Seqid)
  BY <1>1, RemoveAtProperties
<1>4. wire' = [wire EXCEPT ![h][f] = p]
  OBVIOUS
<1> HIDE DEF p
<1>5. WireType' /\ wire'[h][f] = p
  BY <1>1, <1>3, <1>4 DEF WireType
<1>6. \A x \in Host : \A g \in Flow : x # h \/ g # f => wire'[x][g] = wire[x][g]
  BY <1>1, <1>4
<1>7. OnPath'
  BY <1>2, <1>6 DEF QInv, OnPath
<1> QED
  BY <1>2, <1>5, <1>6, <1>7 DEF p

LEMMA DropQ ==
  ASSUME QInv, NEW h \in Host, NEW f \in Flow, Drop(h, f)
  PROVE  QInv'
<1>1. PICK i \in 1 .. Len(wire[h][f]) :
        wire' = [wire EXCEPT ![h][f] = RemoveAt(@, i)]
  BY DEF Drop
<1>2. WireType' /\ OnPath'
  BY <1>1, TakeOff
<1>3. UNCHANGED <<mainVars, listVars, fifo, delivered, updatorVars>>
  BY DEF Drop
<1>4. TypeOK'
  BY <1>2, <1>3 DEF QInv, TypeOK, SeqnoType, ListType, MainType, FifoType,
     UpdatorType, VolumeType, ErrorsType, HistoryType, mainVars, listVars,
     updatorVars
<1> QED
  BY <1>2, <1>3, <1>4 DEF QInv, ListIsQueue, EachPacketCountedOnce,
     ReceivedWasDelivered, Fresh, ReportsDelivered, mainVars, listVars,
     updatorVars

(* The effect of got_packet(): a packet of another host becomes a report   *)
(* at the end of its sender's FIFO.                                        *)
LEMMA GotEffect ==
  ASSUME QInv, NEW h \in Host, NEW f \in Flow, GotPacket(h, f)
  PROVE  \E i \in 1 .. Len(wire[h][f]) :
           /\ InOrder => i = 1
           /\ wire' = [wire EXCEPT ![h][f] = RemoveAt(@, i)]
           /\ UNCHANGED <<mainVars, listVars, updatorVars>>
           /\ \/ h = Src[f] /\ UNCHANGED <<fifo, delivered>>
              \/ /\ h = Dst[f]
                 /\ fifo' = [fifo EXCEPT ![Src[f]] =
                               Append(@, Report(f, wire[h][f][i]))]
                 /\ delivered' = [delivered EXCEPT ![f] =
                                    @ \cup {wire[h][f][i]}]
<1>1. PICK i \in Arrivals(wire[h][f]) :
        /\ wire' = [wire EXCEPT ![h][f] = RemoveAt(@, i)]
        /\ IF SentByUs(h, f)
           THEN UNCHANGED <<fifo, delivered>>
           ELSE /\ fifo' = [fifo EXCEPT ![SenderFifo(f)] =
                              Append(@, Report(f, wire[h][f][i]))]
                /\ delivered' = IF h = Dst[f]
                                THEN [delivered EXCEPT ![f] =
                                        @ \cup {wire[h][f][i]}]
                                ELSE delivered
        /\ UNCHANGED <<mainVars, listVars, updatorVars>>
  BY DEF GotPacket
<1>2. wire[h][f] \in Seq(Seqid)
  BY DEF QInv, TypeOK, WireType
<1>3. i \in 1 .. Len(wire[h][f]) /\ (InOrder => i = 1)
  BY <1>2, OrderAssumption DEF Arrivals
<1>4. h \in {Src[f], Dst[f]}
  BY <1>1, <1>3, TakeOff
<1> QED
  BY <1>1, <1>3, <1>4, Ends DEF SentByUs, SenderFifo

LEMMA GotQ ==
  ASSUME QInv, NEW h \in Host, NEW f \in Flow, GotPacket(h, f)
  PROVE  QInv'
<1>1. PICK i \in 1 .. Len(wire[h][f]) :
        /\ wire' = [wire EXCEPT ![h][f] = RemoveAt(@, i)]
        /\ UNCHANGED <<mainVars, listVars, updatorVars>>
        /\ \/ h = Src[f] /\ UNCHANGED <<fifo, delivered>>
           \/ /\ h = Dst[f]
              /\ fifo' = [fifo EXCEPT ![Src[f]] =
                            Append(@, Report(f, wire[h][f][i]))]
              /\ delivered' = [delivered EXCEPT ![f] = @ \cup {wire[h][f][i]}]
  BY GotEffect
<1> DEFINE s == wire[h][f][i]
<1>2. WireType' /\ OnPath'
  BY <1>1, TakeOff
<1>3. s \in Seqid
  <2>1. wire[h][f] \in Seq(Seqid)
    BY DEF QInv, TypeOK, WireType
  <2> QED
    BY <2>1
<1> HIDE DEF s
<1>4. Src[f] \in Host
  BY Ends
<1>5. FifoType /\ HistoryType /\ ReportsDelivered /\ ReceivedWasDelivered
  BY DEF QInv, TypeOK
<1>6. FifoType' /\ HistoryType' /\ ReportsDelivered' /\ ReceivedWasDelivered'
  <2>1. CASE UNCHANGED <<fifo, delivered>>
    BY <2>1, <1>1, <1>5 DEF FifoType, HistoryType, ReportsDelivered,
       ReceivedWasDelivered, mainVars, updatorVars
  <2>2. CASE /\ fifo' = [fifo EXCEPT ![Src[f]] = Append(@, Report(f, s))]
             /\ delivered' = [delivered EXCEPT ![f] = @ \cup {s}]
    <3> DEFINE r == Report(f, s)
               q == fifo[Src[f]]
               p == Append(q, r)
    <3>1. r \in [flow : Flow, seqid : Seqid] /\ r.flow = f /\ r.seqid = s
      BY <1>3 DEF Report
    <3>2. q \in Seq([flow : Flow, seqid : Seqid])
      BY <1>4, <1>5 DEF FifoType
    <3> HIDE DEF r, q
    <3>3. /\ p \in Seq([flow : Flow, seqid : Seqid]) /\ Len(p) = Len(q) + 1
          /\ \A j \in 1 .. Len(q) : p[j] = q[j]
          /\ p[Len(q) + 1] = r
      BY <3>1, <3>2, AppendProperties
    <3>4. fifo' = [fifo EXCEPT ![Src[f]] = p]
      BY <2>2 DEF q, r
    <3> HIDE DEF p
    <3>5. FifoType'
      BY <3>3, <3>4, <1>5 DEF FifoType
    <3>6. HistoryType'
      BY <2>2, <1>1, <1>3, <1>5 DEF HistoryType, mainVars, updatorVars
    <3>7. \A g \in Flow : delivered[g] \subseteq delivered'[g]
      BY <2>2, <1>5 DEF HistoryType
    <3>8. s \in delivered'[f]
      BY <2>2, <1>5 DEF HistoryType
    <3>9. ReceivedWasDelivered'
      BY <3>7, <1>1, <1>5 DEF ReceivedWasDelivered, updatorVars
    <3>10. ReportsDelivered'
      <4> SUFFICES ASSUME NEW x \in Host, NEW j \in 1 .. Len(fifo'[x])
                   PROVE  /\ Src[fifo'[x][j].flow] = x
                          /\ fifo'[x][j].seqid \in delivered'[fifo'[x][j].flow]
        BY DEF ReportsDelivered
      <4>1. CASE x = Src[f]
        <5>1. fifo'[x] = p
          BY <4>1, <3>4, <1>4, <1>5 DEF FifoType
        <5>2. Len(q) \in Nat /\ (j \in 1 .. Len(q) \/ j = Len(q) + 1)
          BY <5>1, <3>2, <3>3
        <5>3. CASE j = Len(q) + 1
          BY <5>1, <5>3, <4>1, <3>1, <3>3, <3>8
        <5>4. CASE j \in 1 .. Len(q)
          <6>1. fifo'[x][j] = fifo[x][j] /\ j \in 1 .. Len(fifo[x])
            BY <5>1, <5>4, <4>1, <3>3 DEF q
          <6>2. fifo[x][j].flow \in Flow
            BY <6>1, <1>5, ReportAt
          <6> QED
            BY <6>1, <6>2, <3>7, <1>5 DEF ReportsDelivered
        <5> QED
          BY <5>2, <5>3, <5>4
      <4>2. CASE x # Src[f]
        <5>1. fifo'[x] = fifo[x]
          BY <4>2, <3>4, <1>5 DEF FifoType
        <5>2. fifo[x][j].flow \in Flow
          BY <5>1, <1>5, ReportAt
        <5> QED
          BY <5>1, <5>2, <3>7, <1>5 DEF ReportsDelivered
      <4> QED
        BY <4>1, <4>2
    <3> QED
      BY <3>5, <3>6, <3>9, <3>10
  <2> QED
    BY <2>1, <2>2, <1>1 DEF s
<1>7. TypeOK'
  BY <1>1, <1>2, <1>6 DEF QInv, TypeOK, SeqnoType, ListType, MainType,
     UpdatorType, VolumeType, ErrorsType, mainVars, listVars, updatorVars
<1> QED
  BY <1>1, <1>2, <1>6, <1>7 DEF QInv, ListIsQueue, EachPacketCountedOnce,
     Fresh, mainVars, listVars, updatorVars

(* The report at the head of a FIFO, and what is left behind it. *)
LEMMA HeadReport ==
  ASSUME QInv, NEW h \in Host, fifo[h] # <<>>
  PROVE  /\ Len(fifo[h]) \in Nat /\ 1 \in 1 .. Len(fifo[h])
         /\ Head(fifo[h]) = fifo[h][1]
         /\ Head(fifo[h]).flow \in Flow /\ Head(fifo[h]).seqid \in Seqid
         /\ Src[Head(fifo[h]).flow] = h
         /\ Head(fifo[h]).seqid \in delivered[Head(fifo[h]).flow]
         /\ Tail(fifo[h]) \in Seq([flow : Flow, seqid : Seqid])
         /\ Len(Tail(fifo[h])) = Len(fifo[h]) - 1
         /\ \A i \in 1 .. Len(Tail(fifo[h])) :
              Tail(fifo[h])[i] = fifo[h][i + 1] /\ i + 1 \in 1 .. Len(fifo[h])
<1> DEFINE q == fifo[h]
<1>1. q \in Seq([flow : Flow, seqid : Seqid])
  BY DEF QInv, TypeOK, FifoType
<1> HIDE DEF q
<1>2. q # <<>>
  BY DEF q
<1>3. /\ Len(q) \in Nat /\ 1 \in 1 .. Len(q) /\ Head(q) = q[1]
      /\ Tail(q) \in Seq([flow : Flow, seqid : Seqid])
      /\ Len(Tail(q)) = Len(q) - 1
      /\ \A i \in 1 .. Len(Tail(q)) : Tail(q)[i] = q[i + 1]
  BY <1>1, <1>2, HeadTailProperties
<1>4. \A i \in 1 .. Len(Tail(q)) : i + 1 \in 1 .. Len(q)
  BY <1>3
<1>5. q[1].flow \in Flow /\ q[1].seqid \in Seqid
  BY <1>3, ReportAt DEF QInv, TypeOK, q
<1>6. Src[q[1].flow] = h /\ q[1].seqid \in delivered[q[1].flow]
  BY <1>3 DEF QInv, ReportsDelivered, q
<1> QED
  BY <1>3, <1>4, <1>5, <1>6 DEF q

(* The effect of a report (f, s): smaller pending seqids are lost, s is    *)
(* received if it is pending, greater ones stay.                           *)
LEMMA ReadEffect ==
  ASSUME QInv, NEW h \in Host, ReadReport(h)
  PROVE  LET f == Head(fifo[h]).flow
             s == Head(fifo[h]).seqid
         IN  /\ fifo[h] # <<>> /\ f \in Flow /\ s \in Seqid /\ Src[f] = h
             /\ s \in delivered[f]
             /\ fifo' = [fifo EXCEPT ![h] = Tail(@)]
             /\ UNCHANGED <<mainVars, wire, delivered, loss, volume_lost, entries>>
             /\ \/ /\ f \notin entries
                   /\ errors' = errors \cup {"FAIL: flow not in hashmap"}
                   /\ UNCHANGED <<pkt_list, newest_pkt, updator, lost, received>>
                \/ \E rest \in Seq(Seqid), n \in Nat :
                     /\ f \in entries
                     /\ errors' = errors \cup
                          (IF s \in Pending[f] THEN {}
                           ELSE {"FATAL ERROR: packet received not set!"})
                     /\ Ascending(rest)
                     /\ ElementsOf(rest) = {x \in Pending[f] : x > s}
                     /\ rest # <<>> => rest[Len(rest)] =
                                         pkt_list[f][Len(pkt_list[f])]
                     /\ pkt_list' = [pkt_list EXCEPT ![f] = rest]
                     /\ newest_pkt' = [newest_pkt EXCEPT ![f] =
                                         IF rest = <<>> THEN 0 ELSE @]
                     /\ lost' = [lost EXCEPT ![f] =
                                   @ \cup {x \in Pending[f] : x < s}]
                     /\ received' = [received EXCEPT ![f] =
                                       @ \cup {x \in Pending[f] : x = s}]
                     /\ updator' = [updator EXCEPT ![h] =
                                      IF n > 0 THEN Applying(f, n) ELSE Reading]
<1> DEFINE f == Head(fifo[h]).flow
           s == Head(fifo[h]).seqid
           q == pkt_list[f]
           k == PopUpTo(q, s)
           found == k <= Len(q) /\ q[k] = s
           rest == Remaining(q, k, found)
<1>1. fifo[h] # <<>> /\ fifo' = [fifo EXCEPT ![h] = Tail(@)]
  BY DEF ReadReport
<1>2. f \in Flow /\ s \in Seqid /\ Src[f] = h /\ s \in delivered[f]
  BY <1>1, HeadReport
<1>3. UNCHANGED <<mainVars, wire, delivered, loss, volume_lost>>
  BY DEF ReadReport
<1>4. CASE f \notin entries
  <2>1. /\ errors' = errors \cup {"FAIL: flow not in hashmap"}
        /\ UNCHANGED <<listVars, updator, lost, received>>
    BY <1>4 DEF ReadReport
  <2> QED
    BY <2>1, <1>1, <1>2, <1>3, <1>4 DEF listVars
<1>5. CASE f \in entries
  <2>1. /\ errors' = errors \cup
             (IF found THEN {} ELSE {"FATAL ERROR: packet received not set!"})
        /\ pkt_list' = [pkt_list EXCEPT ![f] = rest]
        /\ newest_pkt' = [newest_pkt EXCEPT ![f] =
                            IF rest = <<>> THEN 0 ELSE @]
        /\ lost' = [lost EXCEPT ![f] = @ \cup {q[j] : j \in 1 .. k - 1}]
        /\ received' = IF found THEN [received EXCEPT ![f] = @ \cup {s}]
                       ELSE received
        /\ updator' = [updator EXCEPT ![h] =
                         IF k > 1 THEN Applying(f, k - 1) ELSE Reading]
        /\ UNCHANGED entries
    BY <1>2, <1>5 DEF ReadReport
  <2>2. q \in Seq(Seqid) /\ Ascending(q)
    BY <1>2 DEF QInv, TypeOK, ListType, ListIsQueue
  <2>3. received \in [Flow -> SUBSET Seqid]
    BY DEF QInv, TypeOK, HistoryType
  <2> HIDE DEF f, s, q
  <2>4. /\ k \in 1 .. Len(q) + 1
        /\ found <=> s \in ElementsOf(q)
        /\ {q[j] : j \in 1 .. k - 1} = {x \in ElementsOf(q) : x < s}
        /\ rest \in Seq(Seqid)
        /\ Ascending(rest)
        /\ ElementsOf(rest) = {x \in ElementsOf(q) : x > s}
        /\ rest # <<>> => rest[Len(rest)] = q[Len(q)]
    BY <1>2, <2>2, PopSplits
  <2> HIDE DEF k, found, rest
  <2>5. k - 1 \in Nat /\ (k > 1 <=> k - 1 > 0)
    <3>1. Len(q) \in Nat
      BY <2>2
    <3> QED
      BY <3>1, <2>4
  <2>6. received' = [received EXCEPT ![f] = @ \cup {x \in ElementsOf(q) : x = s}]
    <3>1. CASE found
      <4>1. {x \in ElementsOf(q) : x = s} = {s}
        BY <3>1, <2>4
      <4> QED
        BY <2>1, <3>1, <4>1
    <3>2. CASE ~found
      <4>1. {x \in ElementsOf(q) : x = s} = {}
        BY <3>2, <2>4
      <4> QED
        BY <2>1, <2>3, <3>2, <4>1, <1>2
    <3> QED
      BY <3>1, <3>2
  <2> DEFINE n == k - 1
  <2>7. updator' = [updator EXCEPT ![h] =
                      IF n > 0 THEN Applying(f, n) ELSE Reading]
    BY <2>1, <2>5
  <2> HIDE DEF n
  <2>8. n \in Nat
    BY <2>5 DEF n
  <2>9. \E rr \in Seq(Seqid), nn \in Nat :
          /\ f \in entries
          /\ errors' = errors \cup
               (IF s \in ElementsOf(q) THEN {}
                ELSE {"FATAL ERROR: packet received not set!"})
          /\ Ascending(rr)
          /\ ElementsOf(rr) = {x \in ElementsOf(q) : x > s}
          /\ rr # <<>> => rr[Len(rr)] = q[Len(q)]
          /\ pkt_list' = [pkt_list EXCEPT ![f] = rr]
          /\ newest_pkt' = [newest_pkt EXCEPT ![f] =
                              IF rr = <<>> THEN 0 ELSE @]
          /\ lost' = [lost EXCEPT ![f] = @ \cup {x \in ElementsOf(q) : x < s}]
          /\ received' = [received EXCEPT ![f] =
                            @ \cup {x \in ElementsOf(q) : x = s}]
          /\ updator' = [updator EXCEPT ![h] =
                           IF nn > 0 THEN Applying(f, nn) ELSE Reading]
    <3> rest \in Seq(Seqid) /\ n \in Nat
      BY <2>4, <2>8
    <3> WITNESS rest \in Seq(Seqid), n \in Nat
    <3> QED
      BY <1>5, <2>1, <2>4, <2>6, <2>7
  <2> QED
    BY <1>1, <1>2, <1>3, <2>1, <2>9 DEF f, s, q, Pending
<1> QED
  BY <1>4, <1>5

LEMMA ReadQ ==
  ASSUME QInv, NEW h \in Host, ReadReport(h)
  PROVE  QInv'
<1> DEFINE f == Head(fifo[h]).flow
           s == Head(fifo[h]).seqid
<1>1. /\ fifo[h] # <<>> /\ f \in Flow /\ s \in Seqid /\ Src[f] = h
      /\ s \in delivered[f]
      /\ fifo' = [fifo EXCEPT ![h] = Tail(@)]
      /\ UNCHANGED <<mainVars, wire, delivered, loss, volume_lost, entries>>
  BY ReadEffect
<1>2. FifoType' /\ ReportsDelivered'
  <2>1. /\ Tail(fifo[h]) \in Seq([flow : Flow, seqid : Seqid])
        /\ \A i \in 1 .. Len(Tail(fifo[h])) :
             Tail(fifo[h])[i] = fifo[h][i + 1] /\ i + 1 \in 1 .. Len(fifo[h])
    BY <1>1, HeadReport
  <2>2. FifoType /\ ReportsDelivered
    BY DEF QInv, TypeOK
  <2> DEFINE t == Tail(fifo[h])
  <2> HIDE DEF t
  <2>3. fifo' = [fifo EXCEPT ![h] = t]
    BY <1>1 DEF t
  <2>4. FifoType'
    BY <2>1, <2>2, <2>3 DEF FifoType, t
  <2>5. ASSUME NEW x \in Host, NEW i \in 1 .. Len(fifo'[x])
        PROVE  /\ Src[fifo'[x][i].flow] = x
               /\ fifo'[x][i].seqid \in delivered[fifo'[x][i].flow]
    <3>1. CASE x = h
      <4>1. fifo'[x] = t
        BY <3>1, <2>2, <2>3 DEF FifoType
      <4>2. fifo'[x][i] = fifo[h][i + 1] /\ i + 1 \in 1 .. Len(fifo[h])
        BY <4>1, <2>1 DEF t
      <4> QED
        BY <4>2, <3>1, <2>2 DEF ReportsDelivered
    <3>2. CASE x # h
      <4>1. fifo'[x] = fifo[x]
        BY <3>2, <2>2, <2>3 DEF FifoType
      <4> QED
        BY <4>1, <2>2 DEF ReportsDelivered
    <3> QED
      BY <3>1, <3>2
  <2> QED
    BY <2>4, <2>5, <1>1 DEF ReportsDelivered
<1>3. SeqnoType' /\ MainType' /\ WireType' /\ VolumeType' /\ OnPath' /\ Fresh'
  BY <1>1 DEF QInv, TypeOK, SeqnoType, MainType, WireType, VolumeType, OnPath,
     Fresh, mainVars
<1>4. CASE /\ errors' = errors \cup {"FAIL: flow not in hashmap"}
           /\ UNCHANGED <<pkt_list, newest_pkt, updator, lost, received>>
  <2>1. ErrorsType'
    BY <1>4 DEF QInv, TypeOK, ErrorsType
  <2>2. ListType' /\ UpdatorType' /\ HistoryType'
    BY <1>1, <1>4 DEF QInv, TypeOK, ListType, UpdatorType, HistoryType, mainVars
  <2>3. ListIsQueue' /\ EachPacketCountedOnce' /\ ReceivedWasDelivered'
    BY <1>1, <1>4 DEF QInv, ListIsQueue, EachPacketCountedOnce,
       ReceivedWasDelivered, mainVars
  <2> QED
    BY <1>2, <1>3, <2>1, <2>2, <2>3 DEF QInv, TypeOK
<1>5. ASSUME NEW rest \in Seq(Seqid), NEW n \in Nat,
             errors' = errors \cup
               (IF s \in Pending[f] THEN {}
                ELSE {"FATAL ERROR: packet received not set!"}),
             Ascending(rest),
             ElementsOf(rest) = {x \in Pending[f] : x > s},
             rest # <<>> => rest[Len(rest)] = pkt_list[f][Len(pkt_list[f])],
             pkt_list' = [pkt_list EXCEPT ![f] = rest],
             newest_pkt' = [newest_pkt EXCEPT ![f] =
                              IF rest = <<>> THEN 0 ELSE @],
             lost' = [lost EXCEPT ![f] = @ \cup {x \in Pending[f] : x < s}],
             received' = [received EXCEPT ![f] =
                            @ \cup {x \in Pending[f] : x = s}],
             updator' = [updator EXCEPT ![h] =
                           IF n > 0 THEN Applying(f, n) ELSE Reading]
      PROVE  QInv'
  <2> HIDE DEF f, s
  <2>1. /\ ListType /\ UpdatorType /\ HistoryType /\ ErrorsType
        /\ Pending[f] \subseteq recorded[f] /\ recorded[f] \subseteq Seqid
    BY <1>1 DEF QInv, TypeOK, EachPacketCountedOnce, Pending, HistoryType
  <2>2. ErrorsType'
    BY <1>5, <2>1 DEF ErrorsType
  <2>3. ListType'
    BY <1>1, <1>5, <2>1 DEF ListType
  <2>4. UpdatorType'
    <3>1. Applying(f, n) \in [pc : {"read", "apply"}, flow : Flow \cup {NoFlow},
                              lost : Nat]
          /\ Applying(f, n).flow \in Flow
      BY <1>1 DEF Applying
    <3>2. Reading \in [pc : {"read", "apply"}, flow : Flow \cup {NoFlow},
                       lost : Nat]
          /\ Reading.pc = "read"
      BY DEF Reading
    <3> QED
      BY <3>1, <3>2, <1>5, <2>1 DEF UpdatorType
  <2>5. HistoryType'
    <3>1. lost' \in [Flow -> SUBSET Seqid]
      BY <1>1, <1>5, <2>1 DEF HistoryType
    <3>2. received' \in [Flow -> SUBSET Seqid]
      BY <1>1, <1>5, <2>1 DEF HistoryType
    <3> QED
      BY <1>1, <2>1, <3>1, <3>2 DEF HistoryType, mainVars
  <2>6. ListIsQueue'
    <3> SUFFICES ASSUME NEW g \in Flow
                 PROVE  /\ Ascending(pkt_list'[g])
                        /\ newest_pkt'[g] = IF pkt_list'[g] = <<>> THEN 0
                                            ELSE pkt_list'[g][Len(pkt_list'[g])]
      BY DEF ListIsQueue
    <3>1. /\ Ascending(pkt_list[g])
          /\ newest_pkt[g] = IF pkt_list[g] = <<>> THEN 0
                             ELSE pkt_list[g][Len(pkt_list[g])]
      BY DEF QInv, ListIsQueue
    <3>2. CASE g = f
      <4>1. pkt_list'[g] = rest
            /\ newest_pkt'[g] = IF rest = <<>> THEN 0 ELSE newest_pkt[g]
        BY <3>2, <1>5, <2>1 DEF ListType
      <4>2. rest # <<>> => pkt_list[g] # <<>>
        <5> SUFFICES ASSUME rest # <<>>, pkt_list[g] = <<>> PROVE FALSE
          OBVIOUS
        <5>1. ElementsOf(rest) = {}
          BY <1>5, <3>2, EmptyFacts DEF Pending
        <5>2. 1 \in 1 .. Len(rest)
          BY EmptySeq
        <5> QED
          BY <5>1, <5>2 DEF ElementsOf
      <4> QED
        BY <4>1, <4>2, <3>1, <3>2, <1>5
    <3>3. CASE g # f
      <4>1. pkt_list'[g] = pkt_list[g] /\ newest_pkt'[g] = newest_pkt[g]
        BY <3>3, <1>5, <2>1 DEF ListType
      <4> QED
        BY <4>1, <3>1
    <3> QED
      BY <3>2, <3>3
  <2>7. EachPacketCountedOnce' /\ ReceivedWasDelivered'
    <3> SUFFICES ASSUME NEW g \in Flow
                 PROVE  /\ recorded[g] = ElementsOf(pkt_list'[g]) \cup received'[g]
                                         \cup lost'[g]
                        /\ ElementsOf(pkt_list'[g]) \cap received'[g] = {}
                        /\ ElementsOf(pkt_list'[g]) \cap lost'[g] = {}
                        /\ received'[g] \cap lost'[g] = {}
                        /\ received'[g] \subseteq delivered[g]
      BY <1>1 DEF EachPacketCountedOnce, ReceivedWasDelivered, mainVars
    <3>1. /\ recorded[g] = ElementsOf(pkt_list[g]) \cup received[g] \cup lost[g]
          /\ ElementsOf(pkt_list[g]) \cap received[g] = {}
          /\ ElementsOf(pkt_list[g]) \cap lost[g] = {}
          /\ received[g] \cap lost[g] = {}
          /\ received[g] \subseteq delivered[g]
      BY DEF QInv, EachPacketCountedOnce, ReceivedWasDelivered
    <3>2. CASE g = f
      <4> DEFINE P == ElementsOf(pkt_list[g])
      <4>1. /\ ElementsOf(pkt_list'[g]) = {x \in P : x > s}
            /\ received'[g] = received[g] \cup {x \in P : x = s}
            /\ lost'[g] = lost[g] \cup {x \in P : x < s}
        BY <3>2, <1>5, <2>1 DEF ListType, HistoryType, Pending
      <4>2. \A x \in P : x \in Nat /\ s \in Nat
        BY <3>2, <2>1, <1>1 DEF Pending, Seqid
      <4> HIDE DEF P
      <4>3. \A x \in P : \/ x > s /\ x # s /\ ~(x < s)
                         \/ x = s /\ ~(x > s) /\ ~(x < s)
                         \/ x < s /\ x # s /\ ~(x > s)
        BY <4>2
      <4>4. /\ recorded[g] = P \cup received[g] \cup lost[g]
            /\ P \cap received[g] = {} /\ P \cap lost[g] = {}
        BY <3>1 DEF P
      <4> QED
        BY <4>1, <4>3, <4>4, <3>1, <3>2, <1>1
    <3>3. CASE g # f
      <4>1. /\ pkt_list'[g] = pkt_list[g] /\ received'[g] = received[g]
            /\ lost'[g] = lost[g]
        BY <3>3, <1>5, <2>1 DEF ListType, HistoryType
      <4> QED
        BY <4>1, <3>1
    <3> QED
      BY <3>2, <3>3
  <2> QED
    BY <1>2, <1>3, <2>2, <2>3, <2>4, <2>5, <2>6, <2>7 DEF QInv, TypeOK
<1>6. \/ /\ errors' = errors \cup {"FAIL: flow not in hashmap"}
         /\ UNCHANGED <<pkt_list, newest_pkt, updator, lost, received>>
      \/ \E rest \in Seq(Seqid), n \in Nat :
           /\ errors' = errors \cup
                (IF s \in Pending[f] THEN {}
                 ELSE {"FATAL ERROR: packet received not set!"})
           /\ Ascending(rest)
           /\ ElementsOf(rest) = {x \in Pending[f] : x > s}
           /\ rest # <<>> => rest[Len(rest)] = pkt_list[f][Len(pkt_list[f])]
           /\ pkt_list' = [pkt_list EXCEPT ![f] = rest]
           /\ newest_pkt' = [newest_pkt EXCEPT ![f] =
                               IF rest = <<>> THEN 0 ELSE @]
           /\ lost' = [lost EXCEPT ![f] = @ \cup {x \in Pending[f] : x < s}]
           /\ received' = [received EXCEPT ![f] =
                             @ \cup {x \in Pending[f] : x = s}]
           /\ updator' = [updator EXCEPT ![h] =
                            IF n > 0 THEN Applying(f, n) ELSE Reading]
  BY ReadEffect
<1> HIDE DEF f, s
<1> QED
  BY <1>4, <1>5, <1>6

LEMMA QNext == QInv /\ [Next]_vars => QInv'
<1> SUFFICES ASSUME QInv, [Next]_vars PROVE QInv'
  OBVIOUS
<1>1. ASSUME NEW h \in Host, Main(h) PROVE QInv'
  BY <1>1, RecordQ, VolumeQ, SendQ DEF Main
<1>2. ASSUME NEW h \in Host, Network(h) PROVE QInv'
  BY <1>2, DropQ DEF Network
<1>3. ASSUME NEW h \in Host, Receiver(h) PROVE QInv'
  BY <1>3, GotQ DEF Receiver
<1>4. ASSUME NEW h \in Host, Updator(h) PROVE QInv'
  BY <1>4, ReadQ, LossQ DEF Updator
<1>5. CASE UNCHANGED vars
  BY <1>5 DEF QInv, TypeOK, SeqnoType, ListType, MainType, WireType, FifoType,
     UpdatorType, VolumeType, ErrorsType, HistoryType, ListIsQueue,
     EachPacketCountedOnce, ReceivedWasDelivered, Fresh, OnPath,
     ReportsDelivered, vars
<1> QED
  BY <1>1, <1>2, <1>3, <1>4, <1>5 DEF Next

LEMMA QAlways == Spec => []QInv
<1> QED
  BY QInit, QNext, PTL DEF Spec

(* Every variable keeps its type, whatever the network does; in particular *)
(* the updator adds a loss only to the source flow of a known 5-tuple.     *)
THEOREM LossTypes == Spec => []TypeOK
<1>1. QInv => TypeOK
  BY DEF QInv
<1> QED
  BY <1>1, QAlways, PTL

(* Whatever the network reorders or drops, every recorded packet is        *)
(* pending, received or lost and only one of them: the reports never make  *)
(* ht_vl_get_rece_lost_volume count a packet twice or forget one.          *)
THEOREM CountedOnce == Spec => []EachPacketCountedOnce
<1>1. QInv => EachPacketCountedOnce
  BY DEF QInv
<1> QED
  BY <1>1, QAlways, PTL

(* The packet list of every 5-tuple stays a queue with a valid tail        *)
(* pointer, so the assertion commented out in ht_vl_set holds.             *)
THEOREM QueuesIntact == Spec => []ListIsQueue
<1>1. QInv => ListIsQueue
  BY DEF QInv
<1> QED
  BY <1>1, QAlways, PTL

(* No packet is counted as received unless its receiver has reported it,   *)
(* although every host's receiver also captures what its own host sends.   *)
THEOREM ReceivedOnlyIfDelivered == Spec => []ReceivedWasDelivered
<1>1. QInv => ReceivedWasDelivered
  BY DEF QInv
<1> QED
  BY <1>1, QAlways, PTL
-----------------------------------------------------------------------------
LEMMA OInit == Init => OInv
<1> SUFFICES ASSUME Init PROVE OInv
  OBVIOUS
<1>1. /\ wire = [h \in Host |-> [f \in Flow |-> <<>>]]
      /\ fifo = [h \in Host |-> <<>>] /\ delivered = [f \in Flow |-> {}]
      /\ pkt_list = [f \in Flow |-> <<>>] /\ errors = {}
      /\ main = [h \in Host |-> Idle] /\ updator = [h \in Host |-> Reading]
  BY DEF Init
<1>2. WireOrder /\ FifoOrder /\ DeliveredKnown /\ EntryKnown /\ NoErrorReported
  BY <1>1, Ends, EmptyFacts DEF WireOrder, FifoOrder, DeliveredKnown, EntryKnown,
     NoErrorReported, OnWire, Pending
<1>3. HandOrder
  BY <1>1 DEF HandOrder, Idle, Doing
<1>4. HasVolume
  BY <1>1, Ends DEF HasVolume, Idle, Doing, Reading
<1> QED
  BY <1>2, <1>3, <1>4 DEF OInv

LEMMA VolumeO ==
  ASSUME QInv, OInv, NEW h \in Host, UpdateVolume(h)
  PROVE  OInv'
<1> DEFINE f == main[h].flow
<1>1. /\ main[h].pc # "idle"
      /\ main' = [main EXCEPT ![h] = Doing("accounted", main[h].flow, main[h].seqid)]
      /\ volume' = [volume EXCEPT ![FlowSrcOf[f]] = volume[FlowSrcOf[f]] + 1]
      /\ UNCHANGED <<seqno, recorded, listVars, netVars, updatorVars>>
  BY DEF UpdateVolume
<1>2. MainType /\ volume \in [FlowSrc -> Nat] /\ f \in Flow /\ FlowSrcOf[f] \in FlowSrc
  BY <1>1, Ends DEF QInv, TypeOK, MainType, VolumeType
<1>3. \A g \in Host : /\ main'[g].flow = main[g].flow /\ main'[g].seqid = main[g].seqid
                      /\ main'[g].pc # "idle" => main[g].pc # "idle"
                      /\ main'[g].pc = "accounted" => g = h \/ main[g].pc = "accounted"
  BY <1>1, <1>2 DEF MainType, Doing
<1> HIDE DEF f
<1>4. volume'[FlowSrcOf[f]] > 0
      /\ \A a \in FlowSrc : volume[a] > 0 => volume'[a] > 0
  <2>1. volume[FlowSrcOf[f]] \in Nat
    BY <1>2
  <2> QED
    BY <1>1, <1>2, <2>1
<1>8. OnWire' = OnWire /\ Pending' = Pending
  BY <1>1 DEF OnWire, Pending, listVars, netVars
<1>5. WireOrder' /\ FifoOrder' /\ DeliveredKnown' /\ EntryKnown' /\ NoErrorReported'
  BY <1>1, <1>8 DEF OInv, WireOrder, FifoOrder, DeliveredKnown, EntryKnown,
     NoErrorReported, listVars, netVars, updatorVars
<1>6. HandOrder'
  BY <1>1, <1>3, <1>8 DEF OInv, HandOrder, netVars
<1>7. HasVolume'
  <2>1. ASSUME NEW g \in Flow, wire[Dst[g]][g] # <<>>
        PROVE  volume'[FlowSrcOf[g]] > 0
    BY <2>1, <1>4, Ends DEF OInv, HasVolume
  <2>2. ASSUME NEW x \in Host, NEW i \in 1 .. Len(fifo[x])
        PROVE  volume'[FlowSrcOf[fifo[x][i].flow]] > 0
    <3>1. fifo[x][i].flow \in Flow
      BY ReportAt DEF QInv, TypeOK
    <3> QED
      BY <3>1, <1>4, Ends DEF OInv, HasVolume
  <2>3. ASSUME NEW x \in Host, main'[x].pc = "accounted"
        PROVE  volume'[FlowSrcOf[main'[x].flow]] > 0
    <3>1. CASE x = h
      BY <3>1, <1>3, <1>4 DEF f
    <3>2. CASE main[x].pc = "accounted"
      <4>1. main[x].flow \in Flow
        BY <3>2, <1>2 DEF MainType
      <4> QED
        BY <4>1, <3>2, <1>3, <1>4, Ends DEF OInv, HasVolume
    <3> QED
      BY <2>3, <3>1, <3>2, <1>3
  <2>4. ASSUME NEW x \in Host, updator[x].pc = "apply"
        PROVE  volume'[FlowSrcOf[updator[x].flow]] > 0
    <3>1. updator[x].flow \in Flow
      BY <2>4 DEF QInv, TypeOK, UpdatorType
    <3> QED
      BY <2>4, <3>1, <1>4, Ends DEF OInv, HasVolume
  <2> QED
    BY <1>1, <2>1, <2>2, <2>3, <2>4 DEF HasVolume, netVars, updatorVars
<1> QED
  BY <1>5, <1>6, <1>7 DEF OInv

LEMMA LossO ==
  ASSUME QInv, OInv, NEW h \in Host, UpdateLoss(h)
  PROVE  OInv'
<1>1. /\ updator[h].pc = "apply"
      /\ updator' = [updator EXCEPT ![h] = Reading]
      /\ UNCHANGED <<mainVars, listVars, netVars, lost, received>>
      /\ volume[FlowSrcOf[updator[h].flow]] # 0 => errors' = errors
  BY DEF UpdateLoss
<1>2. errors' = errors
  <2>1. updator[h].flow \in Flow
    BY <1>1 DEF QInv, TypeOK, UpdatorType
  <2>2. volume[FlowSrcOf[updator[h].flow]] > 0
    BY <1>1 DEF OInv, HasVolume
  <2> QED
    BY <1>1, <2>1, <2>2, Ends DEF QInv, TypeOK, VolumeType
<1>3. \A x \in Host : updator'[x].pc = "apply" =>
        updator[x].pc = "apply" /\ updator'[x] = updator[x]
  BY <1>1 DEF QInv, TypeOK, UpdatorType, Reading
<1>6. OnWire' = OnWire /\ Pending' = Pending
  BY <1>1 DEF OnWire, Pending, listVars, netVars
<1>4. WireOrder' /\ FifoOrder' /\ HandOrder' /\ DeliveredKnown' /\ EntryKnown'
  BY <1>1, <1>6 DEF OInv, WireOrder, FifoOrder, HandOrder, DeliveredKnown,
     EntryKnown, mainVars, listVars, netVars
<1>5. HasVolume'
  BY <1>1, <1>3 DEF OInv, HasVolume, mainVars, netVars
<1> QED
  BY <1>2, <1>4, <1>5 DEF OInv, NoErrorReported

LEMMA RecordO ==
  ASSUME QInv, OInv, NEW h \in Host, NEW f \in Flow, RecordPacket(h, f)
  PROVE  OInv'
<1> DEFINE s == seqno[h] + 1
           p == Append(pkt_list[f], s)
<1>1. /\ h = Src[f] /\ s \in Seqid /\ \A x \in recorded[f] : x < s
      /\ pkt_list' = [pkt_list EXCEPT ![f] = p]
      /\ ElementsOf(p) = Pending[f] \cup {s}
  BY RecordEffect
<1>2. /\ entries' = entries \cup {f}
      /\ main' = [main EXCEPT ![h] = Doing("recorded", f, s)]
      /\ UNCHANGED <<volume, volume_sent, netVars, updatorVars>>
  BY DEF RecordPacket
<1> HIDE DEF s, p
<1>3. pkt_list \in [Flow -> Seq(Seqid)] /\ main \in [Host -> Task]
  BY DEF QInv, TypeOK, ListType, MainType
<1>4. /\ Pending'[f] = Pending[f] \cup {s}
      /\ \A g \in Flow : g # f => Pending'[g] = Pending[g] /\ pkt_list'[g] = pkt_list[g]
  BY <1>1, <1>3 DEF Pending
<1>5. \A g \in Flow : Pending[g] \subseteq Pending'[g]
  BY <1>4
<1>6. \A x \in Pending[f] : x < s
  BY <1>1 DEF QInv, EachPacketCountedOnce, Pending
<1>7. \A g \in Flow : OnWire'[g] = OnWire[g]
  BY <1>2 DEF OnWire, netVars
<1>8. WireOrder'
  BY <1>2, <1>5, <1>7 DEF OInv, WireOrder, netVars
<1>9. FifoOrder'
  <2> SUFFICES ASSUME NEW x \in Host, NEW i \in 1 .. Len(fifo[x])
               PROVE  /\ fifo[x][i].seqid \in Pending'[fifo[x][i].flow]
                      /\ \A j \in 1 .. i - 1 :
                           fifo[x][j].flow = fifo[x][i].flow =>
                             fifo[x][j].seqid < fifo[x][i].seqid
                      /\ \A y \in OnWire'[fifo[x][i].flow] : fifo[x][i].seqid < y
    BY <1>2 DEF FifoOrder, netVars
  <2>1. fifo[x][i].flow \in Flow
    BY ReportAt DEF QInv, TypeOK
  <2> QED
    BY <2>1, <1>5, <1>7 DEF OInv, FifoOrder
<1>10. HandOrder'
  <2> SUFFICES ASSUME NEW x \in Host, main'[x].pc # "idle"
               PROVE  /\ main'[x].seqid \in Pending'[main'[x].flow]
                      /\ \A y \in OnWire'[main'[x].flow] : y < main'[x].seqid
                      /\ \A i \in 1 .. Len(fifo[x]) :
                           fifo[x][i].flow = main'[x].flow =>
                             fifo[x][i].seqid < main'[x].seqid
    BY <1>2 DEF HandOrder, netVars
  <2>1. CASE x = h
    <3>1. main'[x].flow = f /\ main'[x].seqid = s
      BY <2>1, <1>2, <1>3 DEF Doing
    <3>2. OnWire'[f] \subseteq Pending[f]
      BY <1>7 DEF OInv, WireOrder
    <3>3. ASSUME NEW i \in 1 .. Len(fifo[x]), fifo[x][i].flow = f
          PROVE  fifo[x][i].seqid \in Pending[f]
      BY <3>3 DEF OInv, FifoOrder
    <3> QED
      BY <3>1, <3>2, <3>3, <1>4, <1>6
  <2>2. CASE x # h
    <3>1. main'[x] = main[x]
      BY <2>2, <1>2, <1>3
    <3>2. main[x].pc # "idle" /\ main[x].flow \in Flow
      BY <3>1 DEF QInv, TypeOK, MainType
    <3> QED
      BY <3>1, <3>2, <1>5, <1>7 DEF OInv, HandOrder
  <2> QED
    BY <2>1, <2>2
<1>11. DeliveredKnown' /\ NoErrorReported'
  BY <1>2 DEF OInv, DeliveredKnown, NoErrorReported, netVars, updatorVars
<1>12. EntryKnown'
  BY <1>2, <1>4 DEF OInv, EntryKnown
<1>13. HasVolume'
  <2>1. \A x \in Host : main'[x].pc = "accounted" =>
          main[x].pc = "accounted" /\ main'[x] = main[x]
    BY <1>2, <1>3 DEF Doing
  <2> QED
    BY <2>1, <1>2 DEF OInv, HasVolume, netVars, updatorVars
<1> QED
  BY <1>8, <1>9, <1>10, <1>11, <1>12, <1>13 DEF OInv

LEMMA SendO ==
  ASSUME QInv, OInv, NEW h \in Host, SendPacket(h)
  PROVE  OInv'
<1> DEFINE f == main[h].flow
           s == main[h].seqid
           q == wire[Dst[f]][f]
<1>1. /\ main[h].pc = "accounted" /\ f \in Flow /\ h = Src[f] /\ s \in Seqid
      /\ main' = [main EXCEPT ![h] = Idle]
      /\ \/ wire' = wire
         \/ /\ wire'[Dst[f]][f] = Append(q, s)
            /\ \A g \in Flow : \A x \in Host :
                 x \notin {Src[f], Dst[f]} \/ g # f => wire'[x][g] = wire[x][g]
      /\ UNCHANGED <<seqno, recorded, volume, volume_sent, listVars, fifo,
                     delivered, updatorVars>>
  BY SendEffect
<1>2. /\ s \in Pending[f]
      /\ \A x \in OnWire[f] : x < s
      /\ \A i \in 1 .. Len(fifo[h]) : fifo[h][i].flow = f => fifo[h][i].seqid < s
  BY <1>1 DEF OInv, HandOrder
<1>3. main \in [Host -> Task] /\ volume[FlowSrcOf[f]] > 0
  BY <1>1 DEF QInv, TypeOK, MainType, OInv, HasVolume
<1> HIDE DEF f, s
<1>4. \A x \in Host : main'[x].pc # "idle" =>
        x # h /\ main[x].pc # "idle" /\ main'[x] = main[x]
  BY <1>1, <1>3 DEF Idle, Doing
<1>5. Pending' = Pending
  BY <1>1 DEF Pending, listVars
<1>6. CASE wire' = wire
  <2>1. OnWire' = OnWire
    BY <1>6 DEF OnWire
  <2>2. WireOrder' /\ FifoOrder' /\ DeliveredKnown' /\ EntryKnown' /\ NoErrorReported'
    BY <1>1, <1>5, <1>6, <2>1 DEF OInv, WireOrder, FifoOrder, DeliveredKnown,
       EntryKnown, NoErrorReported, listVars, updatorVars
  <2>3. HandOrder'
    BY <1>1, <1>4, <1>5, <2>1 DEF OInv, HandOrder
  <2>4. HasVolume'
    BY <1>1, <1>4, <1>6 DEF OInv, HasVolume, updatorVars
  <2> QED
    BY <2>2, <2>3, <2>4 DEF OInv
<1>7. CASE /\ wire'[Dst[f]][f] = Append(q, s)
           /\ \A g \in Flow : \A x \in Host :
                x \notin {Src[f], Dst[f]} \/ g # f => wire'[x][g] = wire[x][g]
  <2>1. q \in Seq(Nat) /\ Ascending(q) /\ OnWire[f] = ElementsOf(q)
    <3>1. q \in Seq(Seqid)
      BY <1>1, Ends DEF QInv, TypeOK, WireType
    <3>2. \A i \in 1 .. Len(q) : q[i] \in Nat
      BY <3>1 DEF Seqid
    <3>3. q \in Seq(Nat)
      BY <3>1, <3>2
    <3> QED
      BY <3>3, <1>1 DEF OInv, WireOrder, OnWire
  <2> HIDE DEF q
  <2>2. Ascending(Append(q, s)) /\ ElementsOf(Append(q, s)) = ElementsOf(q) \cup {s}
    BY <2>1, <1>1, <1>2, AppendAscending DEF Seqid
  <2>3. /\ OnWire'[f] = OnWire[f] \cup {s}
        /\ \A g \in Flow : g # f => /\ OnWire'[g] = OnWire[g]
                                    /\ wire'[Dst[g]][g] = wire[Dst[g]][g]
    BY <1>1, <1>7, <2>1, <2>2, Ends DEF OnWire
  <2>4. WireOrder'
    BY <1>1, <1>2, <1>5, <1>7, <2>2, <2>3 DEF OInv, WireOrder
  <2>5. FifoOrder'
    <3> SUFFICES ASSUME NEW x \in Host, NEW i \in 1 .. Len(fifo[x])
                 PROVE  /\ fifo[x][i].seqid \in Pending[fifo[x][i].flow]
                        /\ \A j \in 1 .. i - 1 :
                             fifo[x][j].flow = fifo[x][i].flow =>
                               fifo[x][j].seqid < fifo[x][i].seqid
                        /\ \A y \in OnWire'[fifo[x][i].flow] : fifo[x][i].seqid < y
      BY <1>1, <1>5 DEF FifoOrder
    <3>1. /\ fifo[x][i].seqid \in Pending[fifo[x][i].flow]
          /\ \A j \in 1 .. i - 1 : fifo[x][j].flow = fifo[x][i].flow =>
                                     fifo[x][j].seqid < fifo[x][i].seqid
          /\ \A y \in OnWire[fifo[x][i].flow] : fifo[x][i].seqid < y
      BY DEF OInv, FifoOrder
    <3>2. fifo[x][i].flow \in Flow /\ Src[fifo[x][i].flow] = x
      BY ReportAt DEF QInv, TypeOK, ReportsDelivered
    <3> QED
      BY <3>1, <3>2, <2>3, <1>1, <1>2
  <2>6. HandOrder'
    <3> SUFFICES ASSUME NEW x \in Host, main'[x].pc # "idle"
                 PROVE  /\ main'[x].seqid \in Pending[main'[x].flow]
                        /\ \A y \in OnWire'[main'[x].flow] : y < main'[x].seqid
                        /\ \A i \in 1 .. Len(fifo[x]) :
                             fifo[x][i].flow = main'[x].flow =>
                               fifo[x][i].seqid < main'[x].seqid
      BY <1>1, <1>5 DEF HandOrder
    <3>1. x # h /\ main[x].pc # "idle" /\ main'[x] = main[x]
      BY <1>4
    <3>2. main[x].flow \in Flow /\ main[x].flow # f
      BY <3>1, <1>1 DEF QInv, TypeOK, MainType
    <3> QED
      BY <3>1, <3>2, <2>3 DEF OInv, HandOrder
  <2>7. HasVolume'
    <3>1. \A g \in Flow : wire'[Dst[g]][g] # <<>> => volume[FlowSrcOf[g]] > 0
      BY <1>3, <2>3 DEF OInv, HasVolume
    <3> QED
      BY <3>1, <1>1, <1>4 DEF OInv, HasVolume, updatorVars
  <2>8. DeliveredKnown' /\ EntryKnown' /\ NoErrorReported'
    BY <1>1 DEF OInv, DeliveredKnown, EntryKnown, NoErrorReported, listVars,
       updatorVars
  <2> QED
    BY <2>4, <2>5, <2>6, <2>7, <2>8 DEF OInv
<1> QED
  BY <1>1, <1>6, <1>7

(* A wire that only loses packets keeps the order of every path. *)
LEMMA ThinnedWire ==
  ASSUME QInv, OInv, NEW h \in Host, NEW f \in Flow,
         NEW i \in 1 .. Len(wire[h][f]),
         wire' = [wire EXCEPT ![h][f] = RemoveAt(@, i)]
  PROVE  /\ \A g \in Flow : /\ Ascending(wire'[Dst[g]][g])
                            /\ OnWire'[g] \subseteq OnWire[g]
                            /\ wire'[Dst[g]][g] # <<>> => wire[Dst[g]][g] # <<>>
         /\ h = Dst[f] => /\ wire[h][f][i] \in OnWire[f]
                          /\ i = 1 => \A x \in OnWire'[f] : wire[h][f][1] < x
<1>1. /\ wire'[h][f] = RemoveAt(wire[h][f], i)
      /\ \A x \in Host : \A g \in Flow :
           x # h \/ g # f => wire'[x][g] = wire[x][g]
  <2>1. wire' = [wire EXCEPT ![h][f] = RemoveAt(wire[h][f], i)]
    OBVIOUS
  <2> DEFINE w == RemoveAt(wire[h][f], i)
  <2>2. wire \in [Host -> [Flow -> Seq(Seqid)]]
    BY DEF QInv, TypeOK, WireType
  <2> HIDE DEF w
  <2>3. wire' = [wire EXCEPT ![h][f] = w]
    BY <2>1 DEF w
  <2>4. /\ wire'[h][f] = w
        /\ \A x \in Host : \A g \in Flow :
             x # h \/ g # f => wire'[x][g] = wire[x][g]
    BY <2>2, <2>3
  <2> QED
    BY <2>4 DEF w
<1> DEFINE q == wire[h][f]
<1>2. q \in Seq(Nat) /\ q # <<>>
  <2>1. q \in Seq(Seqid)
    BY DEF QInv, TypeOK, WireType
  <2>2. q # <<>>
    OBVIOUS
  <2> HIDE DEF q
  <2>3. \A j \in 1 .. Len(q) : q[j] \in Nat
    BY <2>1 DEF Seqid
  <2>4. q \in Seq(Nat)
    BY <2>1, <2>3
  <2> QED
    BY <2>2, <2>4
<1>3. CASE h = Dst[f]
  <2>1. Ascending(q) /\ OnWire[f] = ElementsOf(q)
    BY <1>3 DEF OInv, WireOrder, OnWire
  <2> HIDE DEF q
  <2>2. /\ Ascending(RemoveAt(q, i))
        /\ ElementsOf(RemoveAt(q, i)) \subseteq ElementsOf(q)
        /\ i = 1 => \A x \in ElementsOf(RemoveAt(q, i)) : q[1] < x
    BY <1>2, <2>1, RemoveAscending DEF q
  <2>7. wire'[Dst[f]][f] = RemoveAt(q, i)
    BY <1>1, <1>3 DEF q
  <2>3. OnWire'[f] = ElementsOf(RemoveAt(q, i)) /\ wire'[Dst[f]][f] = RemoveAt(q, i)
    BY <2>7 DEF OnWire
  <2>4. \A g \in Flow : g # f => /\ wire'[Dst[g]][g] = wire[Dst[g]][g]
                                 /\ OnWire'[g] = OnWire[g]
    BY <1>1, Ends DEF OnWire
  <2>5. q[i] \in OnWire[f]
    BY <2>1 DEF ElementsOf, q
  <2>6. \A g \in Flow : Ascending(wire[Dst[g]][g])
    BY DEF OInv, WireOrder
  <2> QED
    BY <1>2, <1>3, <2>1, <2>2, <2>3, <2>4, <2>5, <2>6 DEF q
<1>4. CASE h # Dst[f]
  <2>1. \A g \in Flow : /\ wire'[Dst[g]][g] = wire[Dst[g]][g]
                        /\ OnWire'[g] = OnWire[g]
    BY <1>1, <1>4, Ends DEF OnWire
  <2> QED
    BY <1>4, <2>1 DEF OInv, WireOrder
<1> QED
  BY <1>3, <1>4

LEMMA DropO ==
  ASSUME QInv, OInv, NEW h \in Host, NEW f \in Flow, Drop(h, f)
  PROVE  OInv'
<1>1. PICK i \in 1 .. Len(wire[h][f]) :
        wire' = [wire EXCEPT ![h][f] = RemoveAt(@, i)]
  BY DEF Drop
<1>2. UNCHANGED <<mainVars, listVars, fifo, delivered, updatorVars>>
  BY DEF Drop
<1>3. \A g \in Flow : /\ Ascending(wire'[Dst[g]][g])
                      /\ OnWire'[g] \subseteq OnWire[g]
                      /\ wire'[Dst[g]][g] # <<>> => wire[Dst[g]][g] # <<>>
  BY <1>1, ThinnedWire
<1>4. Pending' = Pending
  BY <1>2 DEF Pending, listVars
<1>5. WireOrder'
  BY <1>3, <1>4 DEF OInv, WireOrder
<1>6. FifoOrder'
  <2>1. \A x \in Host : \A i_1 \in 1 .. Len(fifo[x]) : fifo[x][i_1].flow \in Flow
    BY ReportAt DEF QInv, TypeOK
  <2> QED
    BY <1>2, <1>3, <1>4, <2>1 DEF OInv, FifoOrder
<1>7. HandOrder'
  <2>1. \A x \in Host : main[x].pc # "idle" => main[x].flow \in Flow
    BY DEF QInv, TypeOK, MainType
  <2> QED
    BY <1>2, <1>3, <1>4, <2>1 DEF OInv, HandOrder, mainVars
<1>8. HasVolume'
  BY <1>2, <1>3 DEF OInv, HasVolume, mainVars, updatorVars
<1>9. DeliveredKnown' /\ EntryKnown' /\ NoErrorReported'
  BY <1>2 DEF OInv, DeliveredKnown, EntryKnown, NoErrorReported, listVars,
     updatorVars
<1> QED
  BY <1>5, <1>6, <1>7, <1>8, <1>9 DEF OInv

LEMMA GotO ==
  ASSUME QInv, OInv, InOrder, NEW h \in Host, NEW f \in Flow, GotPacket(h, f)
  PROVE  OInv'
<1>1. PICK i \in 1 .. Len(wire[h][f]) :
        /\ i = 1
        /\ wire' = [wire EXCEPT ![h][f] = RemoveAt(@, i)]
        /\ UNCHANGED <<mainVars, listVars, updatorVars>>
        /\ \/ h = Src[f] /\ UNCHANGED <<fifo, delivered>>
           \/ /\ h = Dst[f]
              /\ fifo' = [fifo EXCEPT ![Src[f]] =
                            Append(@, Report(f, wire[h][f][i]))]
              /\ delivered' = [delivered EXCEPT ![f] = @ \cup {wire[h][f][i]}]
  BY GotEffect
<1> DEFINE s == wire[h][f][1]
<1>2. /\ \A g \in Flow : /\ Ascending(wire'[Dst[g]][g])
                         /\ OnWire'[g] \subseteq OnWire[g]
                         /\ wire'[Dst[g]][g] # <<>> => wire[Dst[g]][g] # <<>>
      /\ h = Dst[f] => s \in OnWire[f] /\ \A x \in OnWire'[f] : s < x
  BY <1>1, ThinnedWire
<1>3. wire[h][f] # <<>>
  OBVIOUS
<1> HIDE DEF s
<1>4. Pending' = Pending
  BY <1>1 DEF Pending, listVars
<1>5. WireOrder' /\ EntryKnown' /\ NoErrorReported'
  BY <1>1, <1>2, <1>4 DEF OInv, WireOrder, EntryKnown, NoErrorReported,
     listVars, updatorVars
<1>6. /\ \A x \in Host : \A j \in 1 .. Len(fifo[x]) :
           fifo[x][j].flow \in Flow /\ Src[fifo[x][j].flow] = x
      /\ \A x \in Host : main[x].pc # "idle" =>
           main[x].flow \in Flow /\ Src[main[x].flow] = x
  BY ReportAt DEF QInv, TypeOK, ReportsDelivered, MainType
<1>7. CASE UNCHANGED <<fifo, delivered>>
  <2>1. FifoOrder'
    BY <1>2, <1>4, <1>6, <1>7 DEF OInv, FifoOrder
  <2>2. HandOrder'
    BY <1>1, <1>2, <1>4, <1>6, <1>7 DEF OInv, HandOrder, mainVars
  <2>3. DeliveredKnown' /\ HasVolume'
    BY <1>1, <1>2, <1>7 DEF OInv, DeliveredKnown, HasVolume, mainVars, updatorVars
  <2> QED
    BY <1>5, <2>1, <2>2, <2>3 DEF OInv
<1>8. CASE /\ h = Dst[f]
           /\ fifo' = [fifo EXCEPT ![Src[f]] = Append(@, Report(f, s))]
           /\ delivered' = [delivered EXCEPT ![f] = @ \cup {s}]
  <2> DEFINE r == Report(f, s)
             q == fifo[Src[f]]
             p == Append(q, r)
  <2>1. r.flow = f /\ r.seqid = s
    BY DEF Report
  <2>2. /\ Src[f] \in Host /\ fifo \in [Host -> Seq([flow : Flow, seqid : Seqid])]
        /\ q \in Seq([flow : Flow, seqid : Seqid])
    BY Ends DEF QInv, TypeOK, FifoType
  <2>3. s \in Seqid
    BY <1>2, <1>8 DEF QInv, EachPacketCountedOnce, OInv, WireOrder, Pending,
       TypeOK, HistoryType
  <2>4. r \in [flow : Flow, seqid : Seqid]
    BY <2>3 DEF Report
  <2> HIDE DEF r, q
  <2>5. /\ Len(q) \in Nat /\ Len(p) = Len(q) + 1
        /\ \A j \in 1 .. Len(q) : p[j] = q[j]
        /\ p[Len(q) + 1] = r
    BY <2>2, <2>4, AppendProperties
  <2>6. fifo' = [fifo EXCEPT ![Src[f]] = p]
    BY <1>8 DEF q, r
  <2> HIDE DEF p
  <2>7. fifo'[Src[f]] = p /\ \A x \in Host : x # Src[f] => fifo'[x] = fifo[x]
    BY <2>2, <2>6
  (* A report is an old one or the new last one of the sender's FIFO. *)
  <2>8. ASSUME NEW x \in Host, NEW j \in 1 .. Len(fifo'[x])
        PROVE  \/ /\ j \in 1 .. Len(fifo[x]) /\ fifo'[x][j] = fifo[x][j]
                  /\ \A m \in 1 .. j - 1 :
                       m \in 1 .. Len(fifo[x]) /\ fifo'[x][m] = fifo[x][m]
               \/ /\ x = Src[f] /\ fifo'[x][j] = r
                  /\ \A m \in 1 .. j - 1 :
                       m \in 1 .. Len(fifo[x]) /\ fifo'[x][m] = fifo[x][m]
    <3>1. CASE x = Src[f]
      <4>1. fifo'[x] = p /\ fifo[x] = q
        BY <3>1, <2>7 DEF q
      <4>2. j \in 1 .. Len(q) \/ j = Len(q) + 1
        BY <4>1, <2>5
      <4>3. \A m \in 1 .. j - 1 : m \in 1 .. Len(q) /\ p[m] = q[m]
        BY <4>2, <2>5
      <4> QED
        BY <3>1, <4>1, <4>2, <4>3, <2>5
    <3>2. CASE x # Src[f]
      <4>1. fifo'[x] = fifo[x] /\ Len(fifo[x]) \in Nat
        BY <3>2, <2>2, <2>7
      <4> QED
        BY <4>1
    <3> QED
      BY <3>1, <3>2
  <2>9. s \in OnWire[f] /\ s \in Pending[f] /\ \A x \in OnWire'[f] : s < x
    BY <1>2, <1>8 DEF OInv, WireOrder
  <2>10. FifoOrder'
    <3> SUFFICES ASSUME NEW x \in Host, NEW j \in 1 .. Len(fifo'[x])
                 PROVE  /\ fifo'[x][j].seqid \in Pending[fifo'[x][j].flow]
                        /\ \A m \in 1 .. j - 1 :
                             fifo'[x][m].flow = fifo'[x][j].flow =>
                               fifo'[x][m].seqid < fifo'[x][j].seqid
                        /\ \A y \in OnWire'[fifo'[x][j].flow] :
                             fifo'[x][j].seqid < y
      BY <1>4 DEF FifoOrder
    <3>1. CASE /\ j \in 1 .. Len(fifo[x]) /\ fifo'[x][j] = fifo[x][j]
               /\ \A m \in 1 .. j - 1 :
                    m \in 1 .. Len(fifo[x]) /\ fifo'[x][m] = fifo[x][m]
      <4>1. /\ fifo[x][j].seqid \in Pending[fifo[x][j].flow]
            /\ \A m \in 1 .. j - 1 :
                 fifo[x][m].flow = fifo[x][j].flow =>
                   fifo[x][m].seqid < fifo[x][j].seqid
            /\ \A y \in OnWire[fifo[x][j].flow] : fifo[x][j].seqid < y
        BY <3>1 DEF OInv, FifoOrder
      <4>2. fifo[x][j].flow \in Flow
        BY <3>1, <1>6
      <4> QED
        BY <3>1, <4>1, <4>2, <1>2
    <3>2. CASE /\ x = Src[f] /\ fifo'[x][j] = r
               /\ \A m \in 1 .. j - 1 :
                    m \in 1 .. Len(fifo[x]) /\ fifo'[x][m] = fifo[x][m]
      <4>1. ASSUME NEW m \in 1 .. j - 1, fifo'[x][m].flow = f
            PROVE  fifo'[x][m].seqid < s
        <5>1. m \in 1 .. Len(fifo[x]) /\ fifo'[x][m] = fifo[x][m]
          BY <3>2
        <5>2. \A y \in OnWire[fifo[x][m].flow] : fifo[x][m].seqid < y
          BY <5>1 DEF OInv, FifoOrder
        <5> QED
          BY <4>1, <5>1, <5>2, <2>9
      <4> QED
        BY <3>2, <4>1, <2>1, <2>9
    <3> QED
      BY <3>1, <3>2, <2>8
  <2>11. HandOrder'
    <3> SUFFICES ASSUME NEW x \in Host, main[x].pc # "idle"
                 PROVE  /\ main[x].seqid \in Pending[main[x].flow]
                        /\ \A y \in OnWire'[main[x].flow] : y < main[x].seqid
                        /\ \A j \in 1 .. Len(fifo'[x]) :
                             fifo'[x][j].flow = main[x].flow =>
                               fifo'[x][j].seqid < main[x].seqid
      BY <1>1, <1>4 DEF HandOrder, mainVars
    <3>1. /\ main[x].seqid \in Pending[main[x].flow]
          /\ \A y \in OnWire[main[x].flow] : y < main[x].seqid
          /\ \A j \in 1 .. Len(fifo[x]) : fifo[x][j].flow = main[x].flow =>
                                            fifo[x][j].seqid < main[x].seqid
      BY DEF OInv, HandOrder
    <3>2. ASSUME NEW j \in 1 .. Len(fifo'[x]), fifo'[x][j].flow = main[x].flow
          PROVE  fifo'[x][j].seqid < main[x].seqid
      <4>1. \/ j \in 1 .. Len(fifo[x]) /\ fifo'[x][j] = fifo[x][j]
            \/ fifo'[x][j] = r
        BY <2>8
      <4> QED
        BY <3>1, <3>2, <4>1, <2>1, <2>9
    <3> QED
      BY <3>1, <3>2, <1>2, <1>6
  <2>12. DeliveredKnown'
    <3> SUFFICES ASSUME NEW g \in Flow, NEW y \in delivered'[g], y \notin received[g]
                 PROVE  \E j \in 1 .. Len(fifo'[Src[g]]) :
                          fifo'[Src[g]][j].flow = g /\ fifo'[Src[g]][j].seqid = y
      BY <1>1 DEF DeliveredKnown, updatorVars
    <3>1. CASE g = f /\ y = s
      <4>1. Len(q) + 1 \in 1 .. Len(p)
        BY <2>5
      <4> QED
        BY <3>1, <4>1, <2>1, <2>5, <2>7
    <3>2. CASE y \in delivered[g]
      <4>1. PICK j \in 1 .. Len(fifo[Src[g]]) :
              fifo[Src[g]][j].flow = g /\ fifo[Src[g]][j].seqid = y
        BY <3>2 DEF OInv, DeliveredKnown
      <4>2. j \in 1 .. Len(fifo'[Src[g]]) /\ fifo'[Src[g]][j] = fifo[Src[g]][j]
        <5>1. CASE Src[g] = Src[f]
          BY <5>1, <2>5, <2>7 DEF q
        <5>2. CASE Src[g] # Src[f]
          BY <5>2, <2>7, Ends
        <5> QED
          BY <5>1, <5>2
      <4> QED
        BY <4>1, <4>2
    <3> QED
      <4>1. delivered \in [Flow -> SUBSET Seqid]
        BY DEF QInv, TypeOK, HistoryType
      <4>2. y \in delivered[g] \/ (g = f /\ y = s)
        BY <4>1, <1>8
      <4> QED
        BY <4>2, <3>1, <3>2
  <2>13. HasVolume'
    <3>1. volume[FlowSrcOf[f]] > 0
      BY <1>3, <1>8 DEF OInv, HasVolume
    <3>2. ASSUME NEW x \in Host, NEW j \in 1 .. Len(fifo'[x])
          PROVE  volume[FlowSrcOf[fifo'[x][j].flow]] > 0
      <4>1. \/ j \in 1 .. Len(fifo[x]) /\ fifo'[x][j] = fifo[x][j]
            \/ fifo'[x][j] = r
        BY <2>8
      <4> QED
        BY <4>1, <3>1, <2>1 DEF OInv, HasVolume
    <3> QED
      BY <3>2, <1>1, <1>2 DEF OInv, HasVolume, mainVars, updatorVars
  <2> QED
    BY <1>5, <2>10, <2>11, <2>12, <2>13 DEF OInv
<1> QED
  BY <1>1, <1>7, <1>8 DEF s

LEMMA ReadO ==
  ASSUME QInv, OInv, NEW h \in Host, ReadReport(h)
  PROVE  OInv'
<1> DEFINE f == Head(fifo[h]).flow
           s == Head(fifo[h]).seqid
           t == Tail(fifo[h])
<1>1. /\ fifo[h] # <<>> /\ f \in Flow /\ s \in Seqid /\ Src[f] = h
      /\ fifo' = [fifo EXCEPT ![h] = t]
      /\ UNCHANGED <<mainVars, wire, delivered, loss, volume_lost, entries>>
  BY ReadEffect
<1>2. /\ Len(fifo[h]) \in Nat /\ 1 \in 1 .. Len(fifo[h])
      /\ fifo[h][1].flow = f /\ fifo[h][1].seqid = s
      /\ Len(t) = Len(fifo[h]) - 1
      /\ \A i \in 1 .. Len(t) : t[i] = fifo[h][i + 1] /\ i + 1 \in 1 .. Len(fifo[h])
  BY <1>1, HeadReport
<1> HIDE DEF f, s, t
(* The report is the oldest of its flow on the path. *)
<1>3. /\ s \in Pending[f]
      /\ \A x \in OnWire[f] : s < x
      /\ \A i \in 2 .. Len(fifo[h]) : fifo[h][i].flow = f => s < fifo[h][i].seqid
      /\ volume[FlowSrcOf[f]] > 0
  <2>1. FifoOrder /\ HasVolume
    BY DEF OInv
  <2>2. s \in Pending[f] /\ \A x \in OnWire[f] : s < x
    BY <1>2, <2>1 DEF FifoOrder
  <2>3. volume[FlowSrcOf[f]] > 0
    BY <1>2, <2>1 DEF HasVolume
  <2>4. ASSUME NEW i \in 2 .. Len(fifo[h]), fifo[h][i].flow = f
        PROVE  s < fifo[h][i].seqid
    <3>1. i \in 1 .. Len(fifo[h]) /\ 1 \in 1 .. i - 1
      BY <1>2
    <3>2. fifo[h][1].flow = fifo[h][i].flow => fifo[h][1].seqid < fifo[h][i].seqid
      BY <3>1, <2>1 DEF FifoOrder
    <3> QED
      BY <3>2, <2>4, <1>2
  <2> QED
    BY <2>2, <2>3, <2>4
<1>4. f \in entries
  <2>1. pkt_list[f] # <<>>
    BY <1>1, <1>3, EmptyFacts DEF Pending
  <2> QED
    BY <1>1, <2>1 DEF OInv, EntryKnown
<1>5. PICK rest \in Seq(Seqid), n \in Nat :
        /\ errors' = errors
        /\ ElementsOf(rest) = {x \in Pending[f] : x > s}
        /\ pkt_list' = [pkt_list EXCEPT ![f] = rest]
        /\ received' = [received EXCEPT ![f] = @ \cup {x \in Pending[f] : x = s}]
        /\ updator' = [updator EXCEPT ![h] =
                         IF n > 0 THEN Applying(f, n) ELSE Reading]
  <2>1. \/ f \notin entries
        \/ \E rest \in Seq(Seqid), n \in Nat :
             /\ errors' = errors \cup
                  (IF s \in Pending[f] THEN {}
                   ELSE {"FATAL ERROR: packet received not set!"})
             /\ ElementsOf(rest) = {x \in Pending[f] : x > s}
             /\ pkt_list' = [pkt_list EXCEPT ![f] = rest]
             /\ received' = [received EXCEPT ![f] = @ \cup {x \in Pending[f] : x = s}]
             /\ updator' = [updator EXCEPT ![h] =
                              IF n > 0 THEN Applying(f, n) ELSE Reading]
    BY ReadEffect, Zenon DEF f, s
  <2> QED
    BY <2>1, <1>3, <1>4
<1>6. /\ Pending'[f] = {x \in Pending[f] : x > s}
      /\ \A g \in Flow : g # f => Pending'[g] = Pending[g]
      /\ \A g \in Flow : g # f => pkt_list'[g] = pkt_list[g]
  BY <1>1, <1>5 DEF QInv, TypeOK, ListType, Pending
<1>7. OnWire' = OnWire
  BY <1>1 DEF OnWire
<1>8. \A g \in Flow : \A x \in Pending[g] : x \in Seqid
  BY DEF QInv, EachPacketCountedOnce, TypeOK, HistoryType, Pending
<1>9. fifo'[h] = t /\ \A x \in Host : x # h => fifo'[x] = fifo[x]
  BY <1>1 DEF QInv, TypeOK, FifoType
(* The reports left are those that stood behind the one just read. *)
<1>10. ASSUME NEW x \in Host, NEW i \in 1 .. Len(fifo'[x])
       PROVE  LET o == IF x = h THEN i + 1 ELSE i
              IN  /\ o \in 1 .. Len(fifo[x]) /\ fifo'[x][i] = fifo[x][o]
                  /\ x = h => o \in 2 .. Len(fifo[x])
                  /\ x # h => fifo'[x] = fifo[x]
  BY <1>2, <1>9
<1>11. \A x \in Host : \A i \in 1 .. Len(fifo[x]) :
         fifo[x][i].flow \in Flow /\ Src[fifo[x][i].flow] = x
  BY ReportAt DEF QInv, TypeOK, ReportsDelivered
<1>12. WireOrder'
  <2>1. \A g \in Flow : OnWire[g] \subseteq Pending'[g]
    BY <1>3, <1>6, <1>8 DEF OInv, WireOrder, Seqid
  <2> QED
    BY <2>1, <1>1, <1>7 DEF OInv, WireOrder
<1>13. FifoOrder'
  <2> SUFFICES ASSUME NEW x \in Host, NEW i \in 1 .. Len(fifo'[x])
               PROVE  /\ fifo'[x][i].seqid \in Pending'[fifo'[x][i].flow]
                      /\ \A j \in 1 .. i - 1 :
                           fifo'[x][j].flow = fifo'[x][i].flow =>
                             fifo'[x][j].seqid < fifo'[x][i].seqid
                      /\ \A y \in OnWire[fifo'[x][i].flow] : fifo'[x][i].seqid < y
    BY <1>7 DEF FifoOrder
  <2> DEFINE o == IF x = h THEN i + 1 ELSE i
  <2>1. /\ o \in 1 .. Len(fifo[x]) /\ fifo'[x][i] = fifo[x][o]
        /\ x = h => o \in 2 .. Len(fifo[x])
    BY <1>10
  <2>2. /\ fifo[x][o].seqid \in Pending[fifo[x][o].flow]
        /\ \A j \in 1 .. o - 1 : fifo[x][j].flow = fifo[x][o].flow =>
                                   fifo[x][j].seqid < fifo[x][o].seqid
        /\ \A y \in OnWire[fifo[x][o].flow] : fifo[x][o].seqid < y
    BY <2>1 DEF OInv, FifoOrder
  <2>3. fifo'[x][i].seqid \in Pending'[fifo'[x][i].flow]
    <3>1. fifo[x][o].flow \in Flow /\ Src[fifo[x][o].flow] = x
      BY <2>1, <1>11
    <3>2. CASE fifo[x][o].flow = f
      <4>1. x = h
        BY <3>1, <3>2, <1>1
      <4>2. s < fifo[x][o].seqid
        BY <4>1, <3>2, <2>1, <1>3
      <4>3. fifo[x][o].seqid \in Seqid /\ fifo[x][o].seqid \in Pending[f]
        BY <2>2, <3>1, <3>2, <1>8
      <4>4. fifo[x][o].seqid > s
        BY <4>2, <4>3, <1>1 DEF Seqid
      <4> QED
        BY <4>3, <4>4, <3>2, <2>1, <1>6
    <3>3. CASE fifo[x][o].flow # f
      BY <3>1, <3>3, <2>1, <2>2, <1>6
    <3> QED
      BY <3>2, <3>3
  <2>4. ASSUME NEW j \in 1 .. i - 1, fifo'[x][j].flow = fifo'[x][i].flow
        PROVE  fifo'[x][j].seqid < fifo'[x][i].seqid
    <3> DEFINE m == IF x = h THEN j + 1 ELSE j
    <3>1. j \in 1 .. Len(fifo'[x]) /\ m \in 1 .. o - 1
      <4>1. Len(fifo'[x]) \in Nat
        BY <1>2, <1>9 DEF QInv, TypeOK, FifoType
      <4> QED
        BY <4>1
    <3>2. fifo'[x][j] = fifo[x][m]
      BY <3>1, <1>10
    <3> HIDE DEF o, m
    <3>3. fifo[x][m].flow = fifo[x][o].flow =>
            fifo[x][m].seqid < fifo[x][o].seqid
      BY <2>2, <3>1
    <3> QED
      BY <2>1, <2>4, <3>2, <3>3
  <2> QED
    BY <2>1, <2>2, <2>3, <2>4
<1>14. HandOrder'
  <2> SUFFICES ASSUME NEW x \in Host, main[x].pc # "idle"
               PROVE  /\ main[x].seqid \in Pending'[main[x].flow]
                      /\ \A y \in OnWire[main[x].flow] : y < main[x].seqid
                      /\ \A i \in 1 .. Len(fifo'[x]) :
                           fifo'[x][i].flow = main[x].flow =>
                             fifo'[x][i].seqid < main[x].seqid
    BY <1>1, <1>7 DEF HandOrder, mainVars
  <2>1. /\ main[x].seqid \in Pending[main[x].flow]
        /\ \A y \in OnWire[main[x].flow] : y < main[x].seqid
        /\ \A i \in 1 .. Len(fifo[x]) : fifo[x][i].flow = main[x].flow =>
                                          fifo[x][i].seqid < main[x].seqid
    BY DEF OInv, HandOrder
  <2>2. main[x].flow \in Flow /\ Src[main[x].flow] = x
    BY DEF QInv, TypeOK, MainType
  <2>3. main[x].seqid \in Pending'[main[x].flow]
    <3>1. CASE main[x].flow = f
      <4>1. x = h /\ s < main[x].seqid
        BY <3>1, <2>1, <2>2, <1>1, <1>2
      <4>2. main[x].seqid \in Seqid
        BY <2>1, <2>2, <1>8
      <4>3. main[x].seqid > s
        BY <4>1, <4>2, <1>1 DEF Seqid
      <4> QED
        BY <4>3, <3>1, <2>1, <1>6
    <3>2. CASE main[x].flow # f
      BY <3>2, <2>1, <2>2, <1>6
    <3> QED
      BY <3>1, <3>2
  <2>4. ASSUME NEW i \in 1 .. Len(fifo'[x]), fifo'[x][i].flow = main[x].flow
        PROVE  fifo'[x][i].seqid < main[x].seqid
    <3>1. PICK o \in 1 .. Len(fifo[x]) : fifo'[x][i] = fifo[x][o]
      BY <1>10
    <3> QED
      BY <2>1, <2>4, <3>1
  <2> QED
    BY <2>1, <2>3, <2>4
<1>15. DeliveredKnown'
  <2> SUFFICES ASSUME NEW g \in Flow, NEW y \in delivered[g], y \notin received'[g]
               PROVE  \E i \in 1 .. Len(fifo'[Src[g]]) :
                        fifo'[Src[g]][i].flow = g /\ fifo'[Src[g]][i].seqid = y
    BY <1>1 DEF DeliveredKnown
  <2>1. y \notin received[g] /\ (g = f => y # s)
    BY <1>1, <1>3, <1>5 DEF QInv, TypeOK, HistoryType
  <2>2. PICK i \in 1 .. Len(fifo[Src[g]]) :
          fifo[Src[g]][i].flow = g /\ fifo[Src[g]][i].seqid = y
    BY <2>1 DEF OInv, DeliveredKnown
  <2>3. CASE Src[g] = h
    <3>1. i # 1
      BY <2>1, <2>2, <2>3, <1>2
    <3>2. i - 1 \in 1 .. Len(t) /\ (i - 1) + 1 = i
      BY <3>1, <2>3, <1>2
    <3>3. t[i - 1] = fifo[h][i]
      BY <3>2, <1>2
    <3> QED
      BY <3>2, <3>3, <2>2, <2>3, <1>9
  <2>4. CASE Src[g] # h
    BY <2>2, <2>4, <1>9, Ends
  <2> QED
    BY <2>3, <2>4
<1>16. EntryKnown'
  BY <1>1, <1>4, <1>6 DEF OInv, EntryKnown
<1>17. HasVolume'
  <2>1. HasVolume
    BY DEF OInv
  <2>2. \A x \in Host : \A i \in 1 .. Len(fifo'[x]) :
          volume[FlowSrcOf[fifo'[x][i].flow]] > 0
    <3> SUFFICES ASSUME NEW x \in Host, NEW i \in 1 .. Len(fifo'[x])
                 PROVE  volume[FlowSrcOf[fifo'[x][i].flow]] > 0
      OBVIOUS
    <3>1. PICK o \in 1 .. Len(fifo[x]) : fifo'[x][i] = fifo[x][o]
      BY <1>10
    <3> QED
      BY <2>1, <3>1 DEF HasVolume
  <2>3. ASSUME NEW x \in Host, updator'[x].pc = "apply"
        PROVE  volume[FlowSrcOf[updator'[x].flow]] > 0
    <3>1. updator'[x] = IF x = h THEN IF n > 0 THEN Applying(f, n) ELSE Reading
                        ELSE updator[x]
      BY <1>5 DEF QInv, TypeOK, UpdatorType
    <3>2. Applying(f, n).flow = f /\ Reading.pc = "read"
      BY DEF Applying, Reading
    <3> QED
      BY <2>1, <2>3, <3>1, <3>2, <1>3 DEF HasVolume
  <2> QED
    BY <2>1, <2>2, <2>3, <1>1 DEF HasVolume, mainVars
<1>18. NoErrorReported'
  BY <1>5 DEF OInv, NoErrorReported
<1> QED
  BY <1>12, <1>13, <1>14, <1>15, <1>16, <1>17, <1>18 DEF OInv

LEMMA ONext == InOrder /\ QInv /\ OInv /\ [Next]_vars => OInv'
<1> SUFFICES ASSUME InOrder, QInv, OInv, [Next]_vars PROVE OInv'
  OBVIOUS
<1>1. ASSUME NEW h \in Host, Main(h) PROVE OInv'
  BY <1>1, RecordO, VolumeO, SendO DEF Main
<1>2. ASSUME NEW h \in Host, Network(h) PROVE OInv'
  BY <1>2, DropO DEF Network
<1>3. ASSUME NEW h \in Host, Receiver(h) PROVE OInv'
  BY <1>3, GotO DEF Receiver
<1>4. ASSUME NEW h \in Host, Updator(h) PROVE OInv'
  BY <1>4, ReadO, LossO DEF Updator
<1>5. CASE UNCHANGED vars
  <2>1. OnWire' = OnWire /\ Pending' = Pending
    BY <1>5 DEF OnWire, Pending, vars
  <2>2. WireOrder' /\ FifoOrder' /\ HandOrder'
    BY <1>5, <2>1 DEF OInv, WireOrder, FifoOrder, HandOrder, vars
  <2>3. DeliveredKnown' /\ EntryKnown' /\ HasVolume' /\ NoErrorReported'
    BY <1>5 DEF OInv, DeliveredKnown, EntryKnown, HasVolume, NoErrorReported, vars
  <2> QED
    BY <2>2, <2>3 DEF OInv
<1> QED
  BY <1>1, <1>2, <1>3, <1>4, <1>5 DEF Next

LEMMA OAlways == InOrder => (Spec => [](QInv /\ OInv))
<1> SUFFICES ASSUME InOrder PROVE Spec => [](QInv /\ OInv)
  OBVIOUS
<1>1. Init => QInv /\ OInv
  BY QInit, OInit
<1>2. (QInv /\ OInv) /\ [Next]_vars => (QInv /\ OInv)'
  BY QNext, ONext
<1> QED
  BY <1>1, <1>2, PTL DEF Spec

(* The updator's rule, that what was recorded before a received packet is  *)
(* lost, is right in a network that keeps the order of each flow: no such  *)
(* packet was or will be delivered to its receiver.                        *)
THEOREM LostMeansDropped == InOrder => (Spec => []OnlyDropsAreLost)
<1>1. QInv /\ OInv => OnlyDropsAreLost
  <2> SUFFICES ASSUME QInv, OInv, NEW f \in Flow, NEW s \in lost[f]
               PROVE  s \notin delivered[f] /\ s \notin OnWire[f]
    BY DEF OnlyDropsAreLost, OnWire
  <2>1. s \notin Pending[f] /\ s \notin received[f]
    BY DEF QInv, EachPacketCountedOnce, Pending
  <2>2. s \notin OnWire[f]
    BY <2>1 DEF OInv, WireOrder
  <2>3. ASSUME s \in delivered[f] PROVE FALSE
    <3>1. PICK i \in 1 .. Len(fifo[Src[f]]) :
            fifo[Src[f]][i].flow = f /\ fifo[Src[f]][i].seqid = s
      BY <2>1, <2>3 DEF OInv, DeliveredKnown
    <3>2. s \in Pending[f]
      BY <3>1, Ends DEF OInv, FifoOrder
    <3> QED
      BY <2>1, <3>2
  <2> QED
    BY <2>2, <2>3
<1> QED
  BY <1>1, OAlways, PTL

(* In a network that keeps the order of each flow none of the FAIL and     *)
(* FATAL branches on the way from a report to the loss volume is taken.    *)
THEOREM NoFatalReport == InOrder => (Spec => []NoErrorReported)
<1>1. QInv /\ OInv => NoErrorReported
  BY DEF OInv
<1> QED
  BY <1>1, OAlways, PTL
-----------------------------------------------------------------------------
(***************************************************************************)
(* Volumes and loss volumes, whatever the network does.  The volume of a   *)
(* source flow counts the recorded packets of its 5-tuples, except one     *)
(* that update_flow_normal_volume has still to be called for; its loss     *)
(* volume, with what the updator holds in its hands, counts the lost ones. *)
(* Both are cardinalities of sets of pairs (5-tuple, seqid).  A lost       *)
(* packet is in the volume because it is older than a delivered one, hence *)
(* not the one in the hands of the main thread.                            *)
(***************************************************************************)
(* The packets of S of the 5-tuples of source flow a. *)
Pairs(S, a) == UNION {{f} \X S[f] : f \in {g \in Flow : FlowSrcOf[g] = a}}

(* The members of Pairs. *)
LEMMA InPairs ==
  ASSUME NEW S, NEW a, NEW p
  PROVE  p \in Pairs(S, a) <=>
           \E f \in Flow : FlowSrcOf[f] = a /\ \E x \in S[f] : p = <<f, x>>
BY DEF Pairs

(* D more packets of flow f. *)
LEMMA PairsGrow ==
  ASSUME NEW S, NEW T, NEW f \in Flow, NEW D, NEW a,
         IsFiniteSet(Pairs(S, a)), IsFiniteSet(D), D \cap S[f] = {},
         T[f] = S[f] \cup D, \A g \in Flow \ {f} : T[g] = S[g]
  PROVE  /\ IsFiniteSet(Pairs(T, a))
         /\ Cardinality(Pairs(T, a)) =
              Cardinality(Pairs(S, a)) + (IF FlowSrcOf[f] = a THEN Cardinality(D) ELSE 0)
<1>1. CASE FlowSrcOf[f] = a
  <2> DEFINE E == {f} \X D
  <2>1. Pairs(T, a) = Pairs(S, a) \cup E
    <3>1. ASSUME NEW p \in Pairs(T, a) PROVE p \in Pairs(S, a) \cup E
      <4>1. PICK g \in Flow : FlowSrcOf[g] = a /\ \E x \in T[g] : p = <<g, x>>
        BY InPairs
      <4>2. PICK x \in T[g] : p = <<g, x>>
        BY <4>1
      <4>3. CASE g = f /\ x \in D
        BY <4>2, <4>3
      <4>4. CASE x \in S[g]
        BY <4>1, <4>2, <4>4, InPairs
      <4> QED
        BY <4>2, <4>3, <4>4
    <3>2. ASSUME NEW p \in Pairs(S, a) PROVE p \in Pairs(T, a)
      <4>1. PICK g \in Flow : FlowSrcOf[g] = a /\ \E x \in S[g] : p = <<g, x>>
        BY InPairs
      <4>2. S[g] \subseteq T[g]
        BY <4>1
      <4> QED
        BY <4>1, <4>2, InPairs
    <3>3. ASSUME NEW p \in E PROVE p \in Pairs(T, a)
      <4>1. PICK x \in D : p = <<f, x>>
        OBVIOUS
      <4>2. x \in T[f]
        OBVIOUS
      <4> QED
        BY <4>1, <4>2, <1>1, InPairs
    <3> QED
      BY <3>1, <3>2, <3>3
  <2>2. Pairs(S, a) \cap E = {}
    <3> SUFFICES ASSUME NEW p \in Pairs(S, a), p \in E PROVE FALSE
      OBVIOUS
    <3>1. PICK g \in Flow : FlowSrcOf[g] = a /\ \E x \in S[g] : p = <<g, x>>
      BY InPairs
    <3>2. PICK x \in S[g] : p = <<g, x>>
      BY <3>1
    <3>3. PICK y \in D : p = <<f, y>>
      OBVIOUS
    <3>4. g = f /\ x = y
      BY <3>2, <3>3
    <3> QED
      BY <3>2, <3>3, <3>4
  <2>3. IsFiniteSet(E) /\ Cardinality(E) = Cardinality(D)
    <3>1. IsFiniteSet({f}) /\ Cardinality({f}) = 1
      BY FS_Singleton
    <3>2. IsFiniteSet(E) /\ Cardinality(E) = 1 * Cardinality(D)
      BY <3>1, FS_Product
    <3>3. Cardinality(D) \in Nat
      BY FS_CardinalityType
    <3> QED
      BY <3>2, <3>3
  <2> HIDE DEF E
  <2>4. /\ IsFiniteSet(Pairs(S, a) \cup E)
        /\ Cardinality(Pairs(S, a) \cup E) =
             Cardinality(Pairs(S, a)) + Cardinality(E) - Cardinality(Pairs(S, a) \cap E)
    BY <2>3, FS_Union
  <2>5. /\ Cardinality(Pairs(S, a)) \in Nat /\ Cardinality(E) \in Nat
        /\ Cardinality(Pairs(S, a) \cap E) = 0
    BY <2>2, <2>3, FS_CardinalityType, FS_EmptySet
  <2> QED
    BY <1>1, <2>1, <2>3, <2>4, <2>5
<1>2. CASE FlowSrcOf[f] # a
  <2>1. Pairs(T, a) = Pairs(S, a)
    <3>1. ASSUME NEW g \in {x \in Flow : FlowSrcOf[x] = a} PROVE T[g] = S[g]
      BY <1>2
    <3> QED
      BY <3>1 DEF Pairs
  <2>2. Cardinality(Pairs(S, a)) \in Nat
    BY FS_CardinalityType
  <2> QED
    BY <1>2, <2>1, <2>2
<1> QED
  BY <1>1, <1>2

(* T has the packets D of f more than S; what Pairs has more for that. *)
Grows(S, T, f, D) ==
  /\ IsFiniteSet(D) /\ D \cap S[f] = {}
  /\ T[f] = S[f] \cup D /\ \A g \in Flow \ {f} : T[g] = S[g]

CountGrows(S, T, f, D, a) ==
  /\ IsFiniteSet(Pairs(T, a))
  /\ Cardinality(Pairs(T, a)) =
       Cardinality(Pairs(S, a)) + (IF FlowSrcOf[f] = a THEN Cardinality(D) ELSE 0)

(* PairsGrow with its hypotheses and its conclusion named. *)
LEMMA PairsGrowth ==
  ASSUME NEW S, NEW T, NEW f \in Flow, NEW D, NEW a,
         IsFiniteSet(Pairs(S, a)), Grows(S, T, f, D)
  PROVE  CountGrows(S, T, f, D, a)
BY PairsGrow DEF Grows, CountGrows

(* The packets before position k of a list are k - 1 packets. *)
LEMMA PoppedCount ==
  ASSUME NEW q \in Seq(Seqid), Ascending(q), NEW k \in 1 .. Len(q) + 1
  PROVE  /\ IsFiniteSet({q[j] : j \in 1 .. k - 1})
         /\ Cardinality({q[j] : j \in 1 .. k - 1}) = k - 1
<1> DEFINE S == 1 .. k - 1
           T == {q[j] : j \in S}
           F == [j \in S |-> q[j]]
<1>1. Len(q) \in Nat /\ k \in Nat /\ k - 1 \in Nat
      /\ \A i \in S : i \in 1 .. Len(q) /\ q[i] \in Nat
  BY DEF Seqid
<1>2. ASSUME NEW i \in S, NEW j \in S, q[i] = q[j]
      PROVE  i = j
  <2>1. ~ (i < j)
    <3> SUFFICES ASSUME i < j PROVE FALSE
      OBVIOUS
    <3>1. i \in 1 .. j - 1 /\ j \in 1 .. Len(q)
      BY <1>1
    <3>2. q[i] < q[j]
      BY <3>1 DEF Ascending
    <3> QED
      BY <3>2, <1>1, <1>2
  <2>2. ~ (j < i)
    <3> SUFFICES ASSUME j < i PROVE FALSE
      OBVIOUS
    <3>1. j \in 1 .. i - 1 /\ i \in 1 .. Len(q)
      BY <1>1
    <3>2. q[j] < q[i]
      BY <3>1 DEF Ascending
    <3> QED
      BY <3>2, <1>1, <1>2
  <2> QED
    BY <2>1, <2>2
<1>3. F \in Bijection(S, T)
  BY <1>2 DEF Bijection, Injection, Surjection, IsInjective
<1>4. ExistsBijection(S, T)
  BY <1>3 DEF ExistsBijection
<1>5. IsFiniteSet(S) /\ Cardinality(S) = k - 1
  <2> DEFINE n == k - 1
  <2>1. 1 \in Int /\ n \in Int /\ n \in Nat
    BY <1>1
  <2> HIDE DEF n
  <2>2. IsFiniteSet(1 .. n) /\ Cardinality(1 .. n) = IF 1 > n THEN 0 ELSE n - 1 + 1
    BY <2>1, FS_Interval
  <2>3. Cardinality(1 .. n) = n
    BY <2>1, <2>2
  <2> QED
    BY <2>2, <2>3 DEF n
<1> HIDE DEF S, T
<1>6. IsFiniteSet(T) /\ Cardinality(T) = Cardinality(S)
  BY <1>4, <1>5, FS_Bijection
<1> QED
  BY <1>5, <1>6 DEF S, T

(* The updator of h is about to add to the loss volume of a. *)
Applied(u, h, a) == u[h].pc = "apply" /\ FlowSrcOf[u[h].flow] = a

(* What the updators still have to add to the loss volume of a. *)
HandOf(u, a) ==
  IF \E h \in Host : Applied(u, h, a)
  THEN u[CHOOSE h \in Host : Applied(u, h, a)].lost
  ELSE 0

(* An updator adds only losses of flows its own host sends. *)
ProperHands(u) ==
  \A h \in Host : u[h].pc = "apply" =>
    /\ u[h].flow \in Flow /\ Src[u[h].flow] = h
    /\ u[h].lost \in Nat \ {0}

(* The 5-tuples of a source flow have one sender. *)
LEMMA OneSender ==
  ASSUME NEW f \in Flow, NEW g \in Flow, FlowSrcOf[f] = FlowSrcOf[g]
  PROVE  Src[f] = Src[g]
BY FlowAssumption

(* So at most one updator works on a source flow. *)
LEMMA HandOfSender ==
  ASSUME NEW u, ProperHands(u), NEW a, NEW h \in Host, Applied(u, h, a)
  PROVE  HandOf(u, a) = u[h].lost
<1> DEFINE c == CHOOSE x \in Host : Applied(u, x, a)
<1>1. c \in Host /\ Applied(u, c, a)
  OBVIOUS
<1>2. HandOf(u, a) = u[c].lost
  BY DEF HandOf
<1> HIDE DEF c
<1>3. c = h
  BY <1>1, OneSender DEF Applied, ProperHands
<1> QED
  BY <1>2, <1>3

(* Nothing is in hand for a source flow no updator works on. *)
LEMMA HandOfNobody ==
  ASSUME NEW u, NEW a, \A h \in Host : ~ Applied(u, h, a)
  PROVE  HandOf(u, a) = 0
BY DEF HandOf

(* A source flow whose sender's updator has not moved. *)
LEMMA HandOfSame ==
  ASSUME NEW u, NEW v, ProperHands(u), ProperHands(v), NEW a,
         \A h \in Host : Applied(u, h, a) <=> Applied(v, h, a),
         \A h \in Host : Applied(u, h, a) => u[h].lost = v[h].lost
  PROVE  HandOf(u, a) = HandOf(v, a)
<1>1. CASE \E h \in Host : Applied(u, h, a)
  <2>1. PICK h \in Host : Applied(u, h, a)
    BY <1>1
  <2> QED
    BY <2>1, HandOfSender
<1>2. CASE ~ \E h \in Host : Applied(u, h, a)
  BY <1>2, HandOfNobody
<1> QED
  BY <1>1, <1>2

(* The packet of f that is recorded but not in the volume yet. *)
Unaccounted(f) ==
  {s \in {main[Src[f]].seqid} : main[Src[f]].pc = "recorded" /\ main[Src[f]].flow = f}

Accounted == [f \in Flow |-> recorded[f] \ Unaccounted(f)]

(* The packet the main thread is working on is the newest one. *)
HandFresh ==
  \A h \in Host : main[h].pc # "idle" =>
    main[h].seqid = seqno[h] /\ main[h].seqid \in recorded[main[h].flow]

(* What has left a sender is older than what its main thread holds. *)
Unsent ==
  \A f \in Flow : \A x \in delivered[f] \cup OnWire[f] :
    /\ x <= seqno[Src[f]]
    /\ main[Src[f]].pc # "idle" /\ main[Src[f]].flow = f => x < main[Src[f]].seqid

(* A lost packet is in the volume. *)
LostIsAccounted == \A f \in Flow : lost[f] \cap Unaccounted(f) = {}

(* The volume of a source flow is the number of its accounted packets. *)
VolumeExact ==
  \A a \in FlowSrc :
    IsFiniteSet(Pairs(Accounted, a)) /\ volume[a] = Cardinality(Pairs(Accounted, a))

(* The losses added and in hand are the packets taken for lost. *)
LossExact ==
  \A a \in FlowSrc :
    /\ IsFiniteSet(Pairs(lost, a))
    /\ loss[a] + HandOf(updator, a) = Cardinality(Pairs(lost, a))

(* The inductive invariant of the volumes, beside QInv. *)
VInv ==
  /\ HandFresh /\ Unsent /\ LostIsAccounted
  /\ VolumeExact /\ ProperHands(updator) /\ LossExact

(* HandOf is the model's InHand with the updators as a parameter. *)
LEMMA InHandIsHandOf == \A a : InHand(a) = HandOf(updator, a)
BY DEF InHand, HandOf, Applies, Applied

(* Lost packets are accounted packets. *)
LEMMA LossWithinVolume ==
  ASSUME QInv, VInv, NEW a \in FlowSrc
  PROVE  Cardinality(Pairs(lost, a)) <= volume[a]
<1>1. ASSUME NEW f \in Flow PROVE lost[f] \subseteq Accounted[f]
  BY DEF QInv, EachPacketCountedOnce, VInv, LostIsAccounted, Accounted
<1>2. Pairs(lost, a) \subseteq Pairs(Accounted, a)
  <2> SUFFICES ASSUME NEW p \in Pairs(lost, a) PROVE p \in Pairs(Accounted, a)
    OBVIOUS
  <2>1. PICK f \in Flow : FlowSrcOf[f] = a /\ \E x \in lost[f] : p = <<f, x>>
    BY InPairs
  <2> QED
    BY <2>1, <1>1, InPairs
<1>3. IsFiniteSet(Pairs(Accounted, a)) /\ volume[a] = Cardinality(Pairs(Accounted, a))
  BY DEF VInv, VolumeExact
<1> QED
  BY <1>2, <1>3, FS_Subset

(* Nothing is recorded or lost at the start. *)
LEMMA VInit == Init => VInv
<1> SUFFICES ASSUME Init PROVE VInv
  OBVIOUS
<1>1. HandFresh /\ Unsent /\ LostIsAccounted
  BY Ends, EmptyFacts DEF Init, HandFresh, Unsent, LostIsAccounted, Idle, Doing, OnWire
<1>2. ASSUME NEW S, \A f \in Flow : S[f] = {}, NEW a
      PROVE  IsFiniteSet(Pairs(S, a)) /\ Cardinality(Pairs(S, a)) = 0
  <2>1. Pairs(S, a) = {}
    BY <1>2, InPairs
  <2> QED
    BY <2>1, FS_EmptySet
<1>3. \A f \in Flow : lost[f] = {} /\ Accounted[f] = {}
  BY DEF Init, Accounted
<1>4. VolumeExact
  <2> SUFFICES ASSUME NEW a \in FlowSrc
               PROVE  /\ IsFiniteSet(Pairs(Accounted, a))
                      /\ volume[a] = Cardinality(Pairs(Accounted, a))
    BY DEF VolumeExact
  <2>1. volume[a] = 0
    BY DEF Init
  <2> QED
    BY <1>2, <1>3, <2>1
<1>5. ProperHands(updator) /\ \A a : \A h \in Host : ~ Applied(updator, h, a)
  BY DEF Init, ProperHands, Reading, Applied
<1>6. LossExact
  <2> SUFFICES ASSUME NEW a \in FlowSrc
               PROVE  /\ IsFiniteSet(Pairs(lost, a))
                      /\ loss[a] + HandOf(updator, a) = Cardinality(Pairs(lost, a))
    BY DEF LossExact
  <2>1. loss[a] = 0
    BY DEF Init
  <2>2. HandOf(updator, a) = 0
    BY <1>5, HandOfNobody
  <2>3. IsFiniteSet(Pairs(lost, a)) /\ Cardinality(Pairs(lost, a)) = 0
    BY <1>2, <1>3
  <2> QED
    BY <2>1, <2>2, <2>3
<1> QED
  BY <1>1, <1>4, <1>5, <1>6 DEF VInv

(* A step that leaves the updators and what they have counted alone. *)
LEMMA HandsKept ==
  ASSUME VInv, UNCHANGED <<updator, loss, lost>>
  PROVE  ProperHands(updator)' /\ LossExact'
<1>1. ProperHands(updator)'
  BY DEF VInv, ProperHands
<1>2. ASSUME NEW a \in FlowSrc
      PROVE  /\ IsFiniteSet(Pairs(lost', a))
             /\ loss'[a] + HandOf(updator', a) = Cardinality(Pairs(lost', a))
  BY DEF VInv, LossExact
<1>3. LossExact'
  BY <1>2 DEF LossExact, Pairs, HandOf, Applied
<1> QED
  BY <1>1, <1>3

(* RecordPacket: the new packet is recorded and not in the volume yet. *)
LEMMA RecordV ==
  ASSUME QInv, VInv, NEW h \in Host, NEW f \in Flow, RecordPacket(h, f)
  PROVE  VInv'
<1> DEFINE s == seqno[h] + 1
<1>1. h = Src[f] /\ s \in Seqid /\ \A x \in recorded[f] : x < s
  BY RecordEffect
<1>2. /\ main[h].pc = "idle"
      /\ seqno' = [seqno EXCEPT ![h] = s]
      /\ recorded' = [recorded EXCEPT ![f] = @ \cup {s}]
      /\ main' = [main EXCEPT ![h] = Doing("recorded", f, s)]
      /\ UNCHANGED <<volume, wire, delivered, updator, loss, lost>>
  BY DEF RecordPacket, netVars, updatorVars
<1>3. /\ main'[h].pc = "recorded" /\ main'[h].flow = f /\ main'[h].seqid = s
      /\ \A g \in Host \ {h} : main'[g] = main[g] /\ seqno'[g] = seqno[g]
      /\ seqno'[h] = s
      /\ recorded'[f] = recorded[f] \cup {s}
      /\ \A g \in Flow \ {f} : recorded'[g] = recorded[g]
  BY <1>2 DEF Doing, QInv, TypeOK, MainType, SeqnoType, HistoryType
<1>4. seqno[h] \in Nat /\ s \in Nat /\ seqno[h] < s /\ s = seqno[h] + 1
  BY DEF QInv, TypeOK, SeqnoType
<1>5. MainType
  BY DEF QInv, TypeOK
<1> HIDE DEF s
<1>6. HandFresh'
  <2> SUFFICES ASSUME NEW g \in Host, main'[g].pc # "idle"
               PROVE  /\ main'[g].seqid = seqno'[g]
                      /\ main'[g].seqid \in recorded'[main'[g].flow]
    BY DEF HandFresh
  <2>1. CASE g = h
    BY <2>1, <1>3
  <2>2. CASE g # h
    <3>1. main[g].pc # "idle" /\ main'[g] = main[g] /\ main[g].flow \in Flow
      BY <2>2, <1>3, <1>5 DEF MainType
    <3>2. main[g].seqid = seqno[g] /\ main[g].seqid \in recorded[main[g].flow]
      BY <3>1 DEF VInv, HandFresh
    <3>3. recorded[main[g].flow] \subseteq recorded'[main[g].flow]
      BY <3>1, <1>3
    <3> QED
      BY <2>2, <3>1, <3>2, <3>3, <1>3
  <2> QED
    BY <2>1, <2>2
<1>7. Unsent'
  <2> SUFFICES ASSUME NEW g \in Flow, NEW x \in delivered[g] \cup OnWire[g]
               PROVE  /\ x <= seqno'[Src[g]]
                      /\ main'[Src[g]].pc # "idle" /\ main'[Src[g]].flow = g =>
                           x < main'[Src[g]].seqid
    BY <1>2 DEF Unsent, OnWire
  <2>1. /\ x <= seqno[Src[g]]
        /\ main[Src[g]].pc # "idle" /\ main[Src[g]].flow = g => x < main[Src[g]].seqid
    BY DEF VInv, Unsent
  <2>2. x \in Int
    <3>1. delivered[g] \subseteq Nat
      BY DEF QInv, TypeOK, HistoryType, Seqid
    <3>2. OnWire[g] \subseteq Nat
      <4>1. wire[Dst[g]][g] \in Seq(Seqid)
        BY Ends DEF QInv, TypeOK, WireType
      <4> QED
        BY <4>1 DEF OnWire, ElementsOf, Seqid
    <3> QED
      BY <3>1, <3>2
  <2>3. CASE Src[g] = h
    BY <2>1, <2>2, <2>3, <1>3, <1>4
  <2>4. CASE Src[g] # h
    BY <2>1, <2>4, <1>3, Ends
  <2> QED
    BY <2>3, <2>4
<1>8. LostIsAccounted'
  <2> SUFFICES ASSUME NEW g \in Flow, main'[Src[g]].pc = "recorded",
                      main'[Src[g]].flow = g, main'[Src[g]].seqid \in lost[g]
               PROVE  FALSE
    BY <1>2 DEF LostIsAccounted, Unaccounted
  <2>1. CASE Src[g] = h
    <3>1. g = f /\ s \in lost[f]
      BY <2>1, <1>3
    <3>2. s \in recorded[f]
      BY <3>1 DEF QInv, EachPacketCountedOnce
    <3> QED
      BY <3>2, <1>1, <1>4
  <2>2. CASE Src[g] # h
    BY <2>2, <1>3, Ends DEF VInv, LostIsAccounted, Unaccounted
  <2> QED
    BY <2>1, <2>2
<1>9. Accounted' = Accounted
  <2>1. ASSUME NEW g \in Flow
        PROVE  recorded'[g] \ Unaccounted(g)' = recorded[g] \ Unaccounted(g)
    <3>1. CASE Src[g] # h
      BY <3>1, <1>1, <1>3, Ends DEF Unaccounted
    <3>2. CASE Src[g] = h /\ g # f
      BY <3>2, <1>2, <1>3 DEF Unaccounted
    <3>3. CASE g = f
      <4>1. s \notin recorded[f]
        BY <1>1, <1>4
      <4>2. Unaccounted(f) = {} /\ Unaccounted(f)' = {s}
        BY <1>1, <1>2, <1>3 DEF Unaccounted
      <4> QED
        BY <3>3, <4>1, <4>2, <1>3
    <3> QED
      BY <3>1, <3>2, <3>3
  <2> QED
    BY <2>1 DEF Accounted
<1>10. VolumeExact'
  BY <1>2, <1>9 DEF VInv, VolumeExact, Pairs
<1>11. ProperHands(updator)' /\ LossExact'
  BY <1>2, HandsKept
<1> QED
  BY <1>6, <1>7, <1>8, <1>10, <1>11 DEF VInv

(* UpdateVolume: the packet in hand enters the volume. *)
LEMMA VolumeV ==
  ASSUME QInv, VInv, NEW h \in Host, UpdateVolume(h)
  PROVE  VInv'
<1>1. PICK f : f = main[h].flow
  OBVIOUS
<1>2. PICK s : s = main[h].seqid
  OBVIOUS
<1>3. /\ main[h].pc = "recorded"
      /\ main' = [main EXCEPT ![h] = Doing("accounted", f, s)]
      /\ volume' = [volume EXCEPT ![FlowSrcOf[f]] = @ + 1]
      /\ UNCHANGED <<seqno, recorded, wire, delivered, updator, loss, lost>>
  BY <1>1, <1>2 DEF UpdateVolume, netVars, updatorVars
<1>4. f \in Flow /\ Src[f] = h /\ s \in Seqid /\ s \in recorded[f]
  BY <1>1, <1>2, <1>3 DEF QInv, TypeOK, MainType, VInv, HandFresh
<1>5. /\ main'[h].pc = "accounted" /\ main'[h].flow = f /\ main'[h].seqid = s
      /\ \A g \in Host \ {h} : main'[g] = main[g]
  BY <1>3 DEF Doing, QInv, TypeOK, MainType
<1>6. HandFresh' /\ Unsent'
  <2>1. \A g \in Host : /\ main'[g].pc # "idle" <=> main[g].pc # "idle"
                         /\ main'[g].flow = main[g].flow
                         /\ main'[g].seqid = main[g].seqid
    BY <1>1, <1>2, <1>3, <1>5
  <2> QED
    BY <1>3, <2>1, Ends DEF VInv, HandFresh, Unsent, OnWire
<1>7. /\ Unaccounted(f) = {s} /\ Unaccounted(f)' = {}
      /\ \A g \in Flow \ {f} : Unaccounted(g)' = Unaccounted(g)
  <2>1. Unaccounted(f) = {s} /\ Unaccounted(f)' = {}
    BY <1>1, <1>2, <1>3, <1>4, <1>5 DEF Unaccounted
  <2>2. ASSUME NEW g \in Flow \ {f} PROVE Unaccounted(g)' = Unaccounted(g)
    <3>1. CASE Src[g] = h
      BY <3>1, <1>1, <1>5 DEF Unaccounted
    <3>2. CASE Src[g] # h
      BY <3>2, <1>5, Ends DEF Unaccounted
    <3> QED
      BY <3>1, <3>2
  <2> QED
    BY <2>1, <2>2
<1>8. LostIsAccounted'
  BY <1>3, <1>7 DEF VInv, LostIsAccounted
<1>9. /\ Accounted'[f] = Accounted[f] \cup {s} /\ s \notin Accounted[f]
      /\ \A g \in Flow \ {f} : Accounted'[g] = Accounted[g]
  BY <1>3, <1>4, <1>7 DEF Accounted
<1>10. VolumeExact'
  <2> SUFFICES ASSUME NEW a \in FlowSrc
               PROVE  /\ IsFiniteSet(Pairs(Accounted', a))
                      /\ volume'[a] = Cardinality(Pairs(Accounted', a))
    BY DEF VolumeExact, Pairs
  <2>1. IsFiniteSet(Pairs(Accounted, a)) /\ volume[a] = Cardinality(Pairs(Accounted, a))
    BY DEF VInv, VolumeExact
  <2>2. IsFiniteSet({s}) /\ Cardinality({s}) = 1 /\ {s} \cap Accounted[f] = {}
    BY <1>9, FS_Singleton
  <2>3. /\ IsFiniteSet(Pairs(Accounted', a))
        /\ Cardinality(Pairs(Accounted', a)) =
             Cardinality(Pairs(Accounted, a)) +
               (IF FlowSrcOf[f] = a THEN Cardinality({s}) ELSE 0)
    BY <1>4, <1>9, <2>1, <2>2, PairsGrow
  <2>4. volume[a] \in Nat /\ volume'[a] = volume[a] + (IF FlowSrcOf[f] = a THEN 1 ELSE 0)
    BY <1>3 DEF QInv, TypeOK, VolumeType
  <2> QED
    BY <2>1, <2>2, <2>3, <2>4
<1>11. ProperHands(updator)' /\ LossExact'
  BY <1>3, HandsKept
<1> QED
  BY <1>6, <1>8, <1>10, <1>11 DEF VInv

(* A step that only moves packets along the path of their flow. *)
LEMMA PathV ==
  ASSUME QInv, VInv,
         UNCHANGED <<seqno, recorded, main, volume, updator, loss, lost>>,
         \A f \in Flow : delivered'[f] \cup OnWire'[f] \subseteq delivered[f] \cup OnWire[f]
  PROVE  VInv'
<1>1. HandFresh' /\ LostIsAccounted'
  BY DEF VInv, HandFresh, LostIsAccounted, Unaccounted
<1>2. Unsent'
  BY DEF VInv, Unsent
<1>3. VolumeExact'
  BY DEF VInv, VolumeExact, Pairs, Accounted, Unaccounted
<1>4. ProperHands(updator)' /\ LossExact'
  BY HandsKept
<1> QED
  BY <1>1, <1>2, <1>3, <1>4 DEF VInv

(* A packet that is sent is added to the wire, unless sendpacket fails. *)
LEMMA SendOnWire ==
  ASSUME QInv, NEW h \in Host, SendPacket(h),
         NEW f, f = main[h].flow, NEW s, s = main[h].seqid
  PROVE  /\ OnWire'[f] \subseteq OnWire[f] \cup {s}
         /\ \A g \in Flow \ {f} : OnWire'[g] = OnWire[g]
<1>0. /\ f \in Flow /\ s \in Seqid
      /\ \/ wire' = wire
         \/ /\ wire'[Dst[f]][f] = Append(wire[Dst[f]][f], s)
            /\ \A g \in Flow : \A x \in Host :
                 x \notin {Src[f], Dst[f]} \/ g # f => wire'[x][g] = wire[x][g]
  BY SendEffect
<1>1. OnWire'[f] \subseteq OnWire[f] \cup {s}
  <2>1. CASE wire' = wire
    BY <2>1, <1>0 DEF OnWire
  <2>2. CASE wire'[Dst[f]][f] = Append(wire[Dst[f]][f], s)
    <3> DEFINE q == wire[Dst[f]][f]
    <3>1. q \in Seq(Seqid)
      BY <1>0, Ends DEF QInv, TypeOK, WireType
    <3>2. Len(q) \in Nat /\ Len(Append(q, s)) = Len(q) + 1
          /\ \A i \in 1 .. Len(q) + 1 :
               Append(q, s)[i] = IF i = Len(q) + 1 THEN s ELSE q[i]
      <4>1. q \in Seq(Seqid) /\ s \in Seqid
        BY <3>1, <1>0
      <4> HIDE DEF q
      <4>2. /\ Append(q, s) \in Seq(Seqid) /\ Len(Append(q, s)) = Len(q) + 1
            /\ \A i \in 1 .. Len(q) : Append(q, s)[i] = q[i]
            /\ Append(q, s)[Len(q) + 1] = s
        BY ONLY <4>1, AppendProperties
      <4>3. Len(q) \in Nat
        BY ONLY <4>1, LenProperties
      <4> QED
        BY ONLY <4>2, <4>3
    <3>3. ElementsOf(Append(q, s)) \subseteq ElementsOf(q) \cup {s}
      BY ONLY <3>2 DEF ElementsOf
    <3> QED
      BY <2>2, <3>3, <1>0 DEF OnWire
  <2> QED
    BY <2>1, <2>2, <1>0
<1>2. ASSUME NEW g \in Flow \ {f} PROVE OnWire'[g] = OnWire[g]
  BY <1>0, Ends DEF OnWire
<1> QED
  BY <1>1, <1>2

(* SendPacket: the packet in hand becomes the newest one on the wire. *)
LEMMA SendV ==
  ASSUME QInv, VInv, NEW h \in Host, SendPacket(h)
  PROVE  VInv'
<1>1. PICK f : f = main[h].flow
  OBVIOUS
<1>2. PICK s : s = main[h].seqid
  OBVIOUS
<1>3. /\ main[h].pc = "accounted" /\ f \in Flow /\ h = Src[f] /\ s \in Seqid
      /\ main' = [main EXCEPT ![h] = Idle]
      /\ \/ wire' = wire
         \/ /\ wire'[Dst[f]][f] = Append(wire[Dst[f]][f], s)
            /\ \A g \in Flow : \A x \in Host :
                 x \notin {Src[f], Dst[f]} \/ g # f => wire'[x][g] = wire[x][g]
      /\ UNCHANGED <<seqno, recorded, volume, volume_sent, listVars, fifo,
                     delivered, updatorVars>>
  BY <1>1, <1>2, SendEffect
<1>4. UNCHANGED <<updator, loss, lost>>
  BY <1>3 DEF updatorVars
<1>5. /\ main'[h].pc = "idle"
      /\ \A g \in Host \ {h} : main'[g] = main[g]
  BY <1>3 DEF Idle, Doing, QInv, TypeOK, MainType
<1>6. HandFresh'
  BY <1>3, <1>5 DEF VInv, HandFresh
<1>7. \A g \in Flow : Unaccounted(g)' = Unaccounted(g)
  <2> SUFFICES ASSUME NEW g \in Flow PROVE Unaccounted(g)' = Unaccounted(g)
    OBVIOUS
  <2>1. CASE Src[g] = h
    BY <2>1, <1>3, <1>5 DEF Unaccounted
  <2>2. CASE Src[g] # h
    BY <2>2, <1>5, Ends DEF Unaccounted
  <2> QED
    BY <2>1, <2>2
<1>8. LostIsAccounted'
  BY <1>4, <1>7 DEF VInv, LostIsAccounted
<1>9. Accounted' = Accounted
  BY <1>3, <1>7 DEF Accounted
<1>10. VolumeExact'
  BY <1>3, <1>9 DEF VInv, VolumeExact, Pairs
<1>11. ProperHands(updator)' /\ LossExact'
  BY <1>4, HandsKept
<1>12. s = seqno[h]
  BY <1>2, <1>3 DEF VInv, HandFresh
<1>13. /\ OnWire'[f] \subseteq OnWire[f] \cup {s}
       /\ \A g \in Flow \ {f} : OnWire'[g] = OnWire[g]
  BY <1>1, <1>2, SendOnWire
<1>14. Unsent'
  <2> SUFFICES ASSUME NEW g \in Flow, NEW x \in delivered[g] \cup OnWire'[g]
               PROVE  /\ x <= seqno[Src[g]]
                      /\ main'[Src[g]].pc # "idle" /\ main'[Src[g]].flow = g =>
                           x < main'[Src[g]].seqid
    BY <1>3 DEF Unsent
  <2>1. CASE x \in delivered[g] \cup OnWire[g]
    <3>1. /\ x <= seqno[Src[g]]
          /\ main[Src[g]].pc # "idle" /\ main[Src[g]].flow = g =>
               x < main[Src[g]].seqid
      BY <2>1 DEF VInv, Unsent
    <3> QED
      BY <3>1, <1>5, Ends
  <2>2. CASE g = f /\ x = s
    <3>1. seqno[h] \in Nat
      BY DEF QInv, TypeOK, SeqnoType
    <3> QED
      BY <2>2, <3>1, <1>3, <1>5, <1>12
  <2> QED
    BY <2>1, <2>2, <1>13
<1> QED
  BY <1>6, <1>8, <1>10, <1>11, <1>14 DEF VInv

(* What is left of a wire when a packet is taken off it. *)
LEMMA TakenOffWire ==
  ASSUME QInv, NEW h \in Host, NEW f \in Flow, NEW i \in 1 .. Len(wire[h][f]),
         wire' = [wire EXCEPT ![h][f] = RemoveAt(@, i)]
  PROVE  \A g \in Flow : OnWire'[g] \subseteq OnWire[g]
<1> SUFFICES ASSUME NEW g \in Flow PROVE OnWire'[g] \subseteq OnWire[g]
  OBVIOUS
<1>1. /\ h \in {Src[f], Dst[f]}
      /\ WireType' /\ OnPath'
      /\ wire'[h][f] = RemoveAt(wire[h][f], i)
      /\ \A x \in Host : \A y \in Flow :
           x # h \/ y # f => wire'[x][y] = wire[x][y]
  BY TakeOff
<1>2. CASE Dst[g] = h /\ g = f
  <2>1. wire[h][f] \in Seq(Seqid)
    BY DEF QInv, TypeOK, WireType
  <2> DEFINE q == wire[h][f]
             t == RemoveAt(q, i)
  <2>2. /\ t \in Seq(Seqid) /\ Len(t) = Len(q) - 1 /\ Len(q) \in Nat
        /\ \A j \in 1 .. Len(q) - 1 : t[j] = IF j < i THEN q[j] ELSE q[j + 1]
    <3>1. q \in Seq(Seqid) /\ i \in 1 .. Len(q)
      BY <2>1
    <3> HIDE DEF q
    <3>2. t \in Seq(Seqid) /\ Len(t) = Len(q) - 1
      BY ONLY <3>1, RemoveAtProperties
    <3>3. \A j \in 1 .. Len(q) - 1 : t[j] = IF j < i THEN q[j] ELSE q[j + 1]
      BY ONLY <3>1, RemoveAtProperties
    <3>4. Len(q) \in Nat
      BY ONLY <3>1, LenProperties
    <3> QED
      BY ONLY <3>2, <3>3, <3>4
  <2> HIDE DEF t
  <2> HIDE DEF q
  <2>3. ElementsOf(t) \subseteq ElementsOf(q)
    <3> SUFFICES ASSUME NEW x \in ElementsOf(t) PROVE x \in ElementsOf(q)
      OBVIOUS
    <3>1. PICK j \in 1 .. Len(q) - 1 : x = t[j]
      BY <2>2 DEF ElementsOf
    <3>2. j \in 1 .. Len(q) /\ j + 1 \in 1 .. Len(q)
      BY <2>2
    <3>3. x = q[j] \/ x = q[j + 1]
      BY <3>1, <2>2
    <3> QED
      BY <3>2, <3>3 DEF ElementsOf
  <2> QED
    BY <1>1, <1>2, <2>3 DEF OnWire, t, q
<1>3. CASE Dst[g] # h \/ g # f
  BY <1>1, <1>3, Ends DEF OnWire
<1> QED
  BY <1>2, <1>3

(* A packet the network drops. *)
LEMMA DropV ==
  ASSUME QInv, VInv, NEW h \in Host, NEW f \in Flow, Drop(h, f)
  PROVE  VInv'
<1>1. PICK i \in 1 .. Len(wire[h][f]) :
        wire' = [wire EXCEPT ![h][f] = RemoveAt(@, i)]
  BY DEF Drop
<1>2. UNCHANGED <<seqno, recorded, main, volume, updator, loss, lost, delivered>>
  BY DEF Drop, mainVars, updatorVars
<1>3. \A g \in Flow : OnWire'[g] \subseteq OnWire[g]
  BY <1>1, TakenOffWire
<1> QED
  BY <1>2, <1>3, PathV

(* A packet taken by a receiver comes from the wire. *)
LEMMA GotOnPath ==
  ASSUME QInv, NEW h \in Host, NEW f \in Flow, GotPacket(h, f)
  PROVE  \A g \in Flow :
           delivered'[g] \cup OnWire'[g] \subseteq delivered[g] \cup OnWire[g]
<1>1. PICK i \in 1 .. Len(wire[h][f]) :
        /\ wire' = [wire EXCEPT ![h][f] = RemoveAt(@, i)]
        /\ UNCHANGED <<mainVars, listVars, updatorVars>>
        /\ \/ UNCHANGED delivered
           \/ /\ h = Dst[f]
              /\ delivered' = [delivered EXCEPT ![f] = @ \cup {wire[h][f][i]}]
  BY GotEffect
<1>3. \A g \in Flow : OnWire'[g] \subseteq OnWire[g]
  BY <1>1, TakenOffWire
<1>4. ASSUME NEW g \in Flow
      PROVE  delivered'[g] \subseteq delivered[g] \cup OnWire[g]
  <2>1. CASE UNCHANGED delivered
    BY <2>1
  <2>2. CASE /\ h = Dst[f]
             /\ delivered' = [delivered EXCEPT ![f] = @ \cup {wire[h][f][i]}]
    <3>1. wire[h][f][i] \in OnWire[f]
      BY <2>2 DEF OnWire, ElementsOf
    <3>2. delivered \in [Flow -> SUBSET Seqid]
      BY DEF QInv, TypeOK, HistoryType
    <3>3. CASE g = f
      <4>1. delivered'[f] = delivered[f] \cup {wire[h][f][i]}
        BY <2>2, <3>2
      <4> QED
        BY <3>1, <3>3, <4>1
    <3>4. CASE g # f
      BY <2>2, <3>2, <3>4
    <3> QED
      BY <3>3, <3>4
  <2> QED
    BY <1>1, <2>1, <2>2
<1> QED
  BY <1>3, <1>4

(* A packet the receiver reports. *)
LEMMA GotV ==
  ASSUME QInv, VInv, NEW h \in Host, NEW f \in Flow, GotPacket(h, f)
  PROVE  VInv'
<1>1. UNCHANGED <<mainVars, listVars, updatorVars>>
  BY GotEffect
<1>2. UNCHANGED <<seqno, recorded, main, volume, updator, loss, lost>>
  BY <1>1 DEF mainVars, updatorVars
<1> QED
  BY <1>2, GotOnPath, PathV

(* flow_infor_update() counts exactly the packets it frees as lost. *)
LEMMA ReadCount ==
  ASSUME QInv, NEW h \in Host, ReadReport(h)
  PROVE  \/ UNCHANGED <<lost, updator>>
         \/ \E f \in Flow, D \in SUBSET Seqid, n \in Nat :
              /\ Src[f] = h /\ updator[h].pc = "read"
              /\ IsFiniteSet(D) /\ Cardinality(D) = n /\ D \cap lost[f] = {}
              /\ \E s \in delivered[f] : \A x \in D : x < s
              /\ lost' = [lost EXCEPT ![f] = @ \cup D]
              /\ updator' = [updator EXCEPT ![h] =
                               IF n > 0 THEN Applying(f, n) ELSE Reading]
<1> DEFINE f == Head(fifo[h]).flow
           s == Head(fifo[h]).seqid
           q == pkt_list[f]
           k == PopUpTo(q, s)
           D == {q[j] : j \in 1 .. k - 1}
<1>1. fifo[h] # <<>> /\ updator[h].pc = "read"
  BY DEF ReadReport
<1>3. f \in Flow /\ s \in Seqid /\ Src[f] = h /\ s \in delivered[f]
  BY <1>1, HeadReport
<1>2. \/ UNCHANGED <<lost, updator>>
      \/ /\ lost' = [lost EXCEPT ![f] = @ \cup D]
         /\ updator' = [updator EXCEPT ![h] =
                          IF k > 1 THEN Applying(f, k - 1) ELSE Reading]
  <2>1. CASE f \notin entries
    BY <2>1 DEF ReadReport
  <2>2. CASE f \in entries
    BY <1>3, <2>2 DEF ReadReport
  <2> QED
    BY <2>1, <2>2
<1>4. q \in Seq(Seqid) /\ Ascending(q)
  BY <1>3 DEF QInv, TypeOK, ListType, ListIsQueue
<1> HIDE DEF f, s, q
<1>5. k \in 1 .. Len(q) + 1 /\ D = {x \in ElementsOf(q) : x < s}
  BY <1>3, <1>4, PopSplits
<1> HIDE DEF k
<1>6. IsFiniteSet(D) /\ Cardinality(D) = k - 1
  BY <1>4, <1>5, PoppedCount
<1> HIDE DEF D
<1>7. D \cap lost[f] = {}
  BY <1>3, <1>5 DEF QInv, EachPacketCountedOnce, q
<1>8. \A x \in D : x < s
  BY <1>5
<1>9. D \in SUBSET Seqid
  BY <1>4, <1>5 DEF ElementsOf
<1>10. k - 1 \in Nat /\ (k > 1 <=> k - 1 > 0)
  <2>1. Len(q) \in Nat
    BY <1>4
  <2> QED
    BY <1>5, <2>1
<1>11. CASE UNCHANGED <<lost, updator>>
  BY <1>11
<1>12. CASE /\ lost' = [lost EXCEPT ![f] = @ \cup D]
            /\ updator' = [updator EXCEPT ![h] =
                             IF k > 1 THEN Applying(f, k - 1) ELSE Reading]
  <2>1. updator' = [updator EXCEPT ![h] =
                      IF k - 1 > 0 THEN Applying(f, k - 1) ELSE Reading]
    BY <1>10, <1>12
  <2>2. \E t \in delivered[f] : \A x \in D : x < t
    BY <1>3, <1>8
  <2> QED
    BY <1>1, <1>3, <1>6, <1>7, <1>9, <1>10, <1>12, <2>1, <2>2
<1> QED
  BY <1>2, <1>3, <1>11, <1>12

(* ReadReport: the freed packets become lost and go into one hand. *)
LEMMA ReadV ==
  ASSUME QInv, VInv, NEW h \in Host, ReadReport(h)
  PROVE  VInv'
<1>1. UNCHANGED <<seqno, recorded, main, volume, wire, delivered, loss>>
  BY DEF ReadReport, mainVars
<1>2. OnWire' = OnWire
  BY <1>1 DEF OnWire
<1>3. CASE UNCHANGED <<lost, updator>>
  BY <1>1, <1>2, <1>3, PathV
<1>4. ASSUME NEW f \in Flow, NEW D \in SUBSET Seqid, NEW n \in Nat,
             Src[f] = h, updator[h].pc = "read",
             IsFiniteSet(D), Cardinality(D) = n, D \cap lost[f] = {},
             NEW s \in delivered[f], \A x \in D : x < s,
             lost' = [lost EXCEPT ![f] = @ \cup D],
             updator' = [updator EXCEPT ![h] =
                           IF n > 0 THEN Applying(f, n) ELSE Reading]
      PROVE  VInv'
  <2>1. HandFresh' /\ Unsent' /\ VolumeExact'
    <3>1. HandFresh' /\ Unsent'
      BY <1>1, <1>2 DEF VInv, HandFresh, Unsent
    <3>2. VolumeExact'
      BY <1>1 DEF VInv, VolumeExact, Pairs, Accounted, Unaccounted
    <3> QED
      BY <3>1, <3>2
  <2>2. /\ lost'[f] = lost[f] \cup D
        /\ \A g \in Flow \ {f} : lost'[g] = lost[g]
    BY <1>4 DEF QInv, TypeOK, HistoryType
  <2>3. \A g \in Flow : Unaccounted(g)' = Unaccounted(g)
    BY <1>1 DEF Unaccounted
  <2>4. D \cap Unaccounted(f) = {}
    <3> SUFFICES ASSUME NEW x \in D, x \in Unaccounted(f) PROVE FALSE
      OBVIOUS
    <3>1. /\ main[Src[f]].pc = "recorded" /\ main[Src[f]].flow = f
          /\ x = main[Src[f]].seqid
      BY DEF Unaccounted
    <3>2. s < x /\ x < s
      BY <3>1, <1>4 DEF VInv, Unsent
    <3>3. s \in Int /\ x \in Int
      BY DEF QInv, TypeOK, HistoryType, Seqid
    <3> QED
      BY <3>2, <3>3
  <2>5. LostIsAccounted'
    <3> SUFFICES ASSUME NEW g \in Flow PROVE lost'[g] \cap Unaccounted(g)' = {}
      BY DEF LostIsAccounted
    <3>1. lost[g] \cap Unaccounted(g) = {}
      BY DEF VInv, LostIsAccounted
    <3> QED
      BY <3>1, <2>2, <2>3, <2>4
  <2>6. ProperHands(updator)
    BY DEF VInv
  <2>7. /\ \A g \in Host \ {h} : updator'[g] = updator[g]
        /\ n > 0 => /\ updator'[h].pc = "apply" /\ updator'[h].flow = f
                    /\ updator'[h].lost = n
        /\ ~ (n > 0) => updator'[h].pc = "read"
    BY <1>4 DEF QInv, TypeOK, UpdatorType, Applying, Reading
  <2>8. ProperHands(updator')
    <3> SUFFICES ASSUME NEW g \in Host, updator'[g].pc = "apply"
                 PROVE  /\ updator'[g].flow \in Flow /\ Src[updator'[g].flow] = g
                        /\ updator'[g].lost \in Nat \ {0}
      BY DEF ProperHands
    <3>1. CASE g = h
      BY <3>1, <2>7, <1>4
    <3>2. CASE g # h
      BY <3>2, <2>6, <2>7 DEF ProperHands
    <3> QED
      BY <3>1, <3>2
  <2>9. ASSUME NEW a \in FlowSrc
        PROVE  /\ IsFiniteSet(Pairs(lost', a))
               /\ loss'[a] + HandOf(updator', a) = Cardinality(Pairs(lost', a))
    <3>1. /\ IsFiniteSet(Pairs(lost, a))
          /\ loss[a] + HandOf(updator, a) = Cardinality(Pairs(lost, a))
      BY DEF VInv, LossExact
    <3>2. /\ IsFiniteSet(Pairs(lost', a))
          /\ Cardinality(Pairs(lost', a)) =
               Cardinality(Pairs(lost, a)) + (IF FlowSrcOf[f] = a THEN n ELSE 0)
      <4>1. /\ \A g \in Flow \ {f} : lost'[g] = lost[g]
            /\ lost'[f] = lost[f] \cup D
        BY <2>2
      <4>2. IsFiniteSet(D) /\ D \cap lost[f] = {} /\ Cardinality(D) = n
        BY <1>4
      <4>3. /\ IsFiniteSet(Pairs(lost', a))
            /\ Cardinality(Pairs(lost', a)) =
                 Cardinality(Pairs(lost, a))
                   + (IF FlowSrcOf[f] = a THEN Cardinality(D) ELSE 0)
        <5>1. Grows(lost, lost', f, D)
          BY ONLY <4>1, <4>2 DEF Grows
        <5>2. CountGrows(lost, lost', f, D, a)
          BY ONLY <3>1, <5>1, f \in Flow, PairsGrowth
        <5> QED
          BY ONLY <5>2 DEF CountGrows
      <4> QED
        BY ONLY <4>2, <4>3
    <3>3. loss[a] \in Nat
      BY DEF QInv, TypeOK, VolumeType
    <3>4. HandOf(updator, a) \in Nat
      <4>1. CASE \E g \in Host : Applied(updator, g, a)
        BY <4>1, <2>6, HandOfSender DEF ProperHands, Applied
      <4>2. CASE ~ \E g \in Host : Applied(updator, g, a)
        BY <4>2, HandOfNobody
      <4> QED
        BY <4>1, <4>2
    <3>5. CASE FlowSrcOf[f] = a
      <4>1. ASSUME NEW g \in Host, Applied(updator, g, a) PROVE FALSE
        <5>1. g # h
          BY <4>1, <1>4 DEF Applied
        <5>2. updator[g].flow \in Flow /\ Src[updator[g].flow] = g
              /\ FlowSrcOf[updator[g].flow] = FlowSrcOf[f]
          BY <4>1, <3>5, <2>6 DEF Applied, ProperHands
        <5>3. Src[updator[g].flow] = Src[f]
          BY <5>2, OneSender
        <5> QED
          BY <5>1, <5>2, <5>3, <1>4
      <4>2. HandOf(updator, a) = 0
        BY <4>1, HandOfNobody
      <4>3. HandOf(updator', a) = n
        <5>1. CASE n > 0
          <6>1. Applied(updator', h, a)
            BY <5>1, <2>7, <3>5 DEF Applied
          <6> QED
            BY <5>1, <6>1, <2>7, <2>8, HandOfSender
        <5>2. CASE ~ (n > 0)
          <6>1. \A g \in Host : ~ Applied(updator', g, a)
            BY <5>2, <4>1, <2>7 DEF Applied
          <6>2. HandOf(updator', a) = 0
            BY <6>1, HandOfNobody
          <6> QED
            BY <5>2, <6>2
        <5> QED
          BY <5>1, <5>2
      <4> QED
        BY <3>1, <3>2, <3>3, <3>5, <4>2, <4>3, <1>1
    <3>6. CASE FlowSrcOf[f] # a
      <4>1. \A g \in Host : Applied(updator', g, a) <=> Applied(updator, g, a)
        BY <3>6, <2>7, <1>4 DEF Applied
      <4>2. \A g \in Host : Applied(updator', g, a) => updator'[g].lost = updator[g].lost
        BY <3>6, <2>7, <1>4 DEF Applied
      <4>3. HandOf(updator', a) = HandOf(updator, a)
        BY <4>1, <4>2, <2>6, <2>8, HandOfSame
      <4>4. Cardinality(Pairs(lost, a)) \in Nat
        BY <3>1, FS_CardinalityType
      <4> QED
        BY <3>1, <3>2, <3>6, <4>3, <4>4, <1>1
    <3> QED
      BY <3>5, <3>6
  <2>10. LossExact' /\ ProperHands(updator)'
    BY <2>8, <2>9 DEF LossExact, Pairs, HandOf, Applied, ProperHands
  <2> QED
    BY <2>1, <2>5, <2>10 DEF VInv
<1> QED
  BY <1>3, <1>4, ReadCount

(* UpdateLoss: what is in hand enters the loss volume. *)
LEMMA LossV ==
  ASSUME QInv, VInv, NEW h \in Host, UpdateLoss(h)
  PROVE  VInv'
<1>1. PICK b : b = FlowSrcOf[updator[h].flow]
  OBVIOUS
<1>2. PICK n : n = updator[h].lost
  OBVIOUS
<1>3. ProperHands(updator) /\ Applied(updator, h, b)
  BY <1>1 DEF VInv, UpdateLoss, Applied
<1>4. n \in Nat \ {0} /\ b \in FlowSrc
  BY <1>1, <1>2, <1>3, Ends DEF ProperHands, Applied
<1>5. HandOf(updator, b) = n
  BY <1>2, <1>3, HandOfSender
<1>6. volume[b] # 0
  <2>1. loss[b] + n = Cardinality(Pairs(lost, b))
    BY <1>4, <1>5 DEF VInv, LossExact
  <2>2. Cardinality(Pairs(lost, b)) <= volume[b]
    BY <1>4, LossWithinVolume
  <2>3. loss[b] \in Nat
    BY <1>4 DEF QInv, TypeOK, VolumeType
  <2> QED
    BY <2>1, <2>2, <2>3, <1>4
<1>7. /\ loss' = [loss EXCEPT ![b] = @ + n]
      /\ updator' = [updator EXCEPT ![h] = Reading]
      /\ UNCHANGED <<seqno, recorded, main, volume, wire, delivered, lost>>
  BY <1>1, <1>2, <1>6 DEF UpdateLoss, mainVars, netVars
<1>8. /\ updator'[h].pc = "read"
      /\ \A g \in Host \ {h} : updator'[g] = updator[g]
  BY <1>7 DEF QInv, TypeOK, UpdatorType, Reading
<1>9. ProperHands(updator')
  BY <1>3, <1>8 DEF ProperHands
<1>10. ASSUME NEW a \in FlowSrc
       PROVE  /\ IsFiniteSet(Pairs(lost', a))
              /\ loss'[a] + HandOf(updator', a) = Cardinality(Pairs(lost', a))
  <2>1. /\ IsFiniteSet(Pairs(lost, a))
        /\ loss[a] + HandOf(updator, a) = Cardinality(Pairs(lost, a))
        /\ lost' = lost /\ loss[a] \in Nat
    BY <1>7 DEF VInv, LossExact, QInv, TypeOK, VolumeType
  <2>2. CASE a = b
    <3>1. \A g \in Host : ~ Applied(updator', g, a)
      <4> SUFFICES ASSUME NEW g \in Host, Applied(updator', g, a) PROVE FALSE
        OBVIOUS
      <4>1. g # h /\ Applied(updator, g, a)
        BY <1>8 DEF Applied
      <4>2. /\ updator[g].flow \in Flow /\ Src[updator[g].flow] = g
            /\ updator[h].flow \in Flow /\ Src[updator[h].flow] = h
            /\ FlowSrcOf[updator[g].flow] = FlowSrcOf[updator[h].flow]
        BY <4>1, <2>2, <1>3 DEF ProperHands, Applied
      <4>3. Src[updator[g].flow] = Src[updator[h].flow]
        BY <4>2, OneSender
      <4> QED
        BY <4>1, <4>2, <4>3
    <3>2. HandOf(updator', a) = 0
      BY <3>1, HandOfNobody
    <3>3. loss'[a] = loss[a] + n
      BY <2>2, <1>7 DEF QInv, TypeOK, VolumeType
    <3> QED
      BY <2>1, <2>2, <3>2, <3>3, <1>4, <1>5
  <2>3. CASE a # b
    <3>1. \A g \in Host : Applied(updator', g, a) <=> Applied(updator, g, a)
      BY <2>3, <1>3, <1>8 DEF Applied
    <3>2. \A g \in Host : Applied(updator', g, a) => updator'[g].lost = updator[g].lost
      BY <2>3, <1>3, <1>8 DEF Applied
    <3>3. HandOf(updator', a) = HandOf(updator, a)
      BY <3>1, <3>2, <1>3, <1>9, HandOfSame
    <3>4. loss'[a] = loss[a]
      BY <2>3, <1>7 DEF QInv, TypeOK, VolumeType
    <3> QED
      BY <2>1, <3>3, <3>4
  <2> QED
    BY <2>2, <2>3
<1>11. LossExact' /\ ProperHands(updator)'
  BY <1>9, <1>10 DEF LossExact, Pairs, HandOf, Applied, ProperHands
<1>12. HandFresh' /\ Unsent' /\ LostIsAccounted'
  BY <1>7 DEF VInv, HandFresh, Unsent, LostIsAccounted, Unaccounted, OnWire
<1>13. VolumeExact'
  BY <1>7 DEF VInv, VolumeExact, Pairs, Accounted, Unaccounted
<1> QED
  BY <1>11, <1>12, <1>13 DEF VInv

(* Every step keeps VInv. *)
LEMMA VNext == QInv /\ VInv /\ [Next]_vars => VInv'
<1> SUFFICES ASSUME QInv, VInv, [Next]_vars PROVE VInv'
  OBVIOUS
<1>1. ASSUME NEW h \in Host, Main(h)
      PROVE  VInv'
  BY <1>1, RecordV, VolumeV, SendV DEF Main
<1>2. ASSUME NEW h \in Host, Network(h)
      PROVE  VInv'
  BY <1>2, DropV DEF Network
<1>3. ASSUME NEW h \in Host, Receiver(h)
      PROVE  VInv'
  BY <1>3, GotV DEF Receiver
<1>4. ASSUME NEW h \in Host, Updator(h)
      PROVE  VInv'
  BY <1>4, ReadV, LossV DEF Updator
<1>5. CASE UNCHANGED vars
  <2>1. OnWire' = OnWire
    BY <1>5 DEF vars, OnWire
  <2> QED
    BY <1>5, <2>1, PathV DEF vars
<1> QED
  BY <1>1, <1>2, <1>3, <1>4, <1>5 DEF Next

(***************************************************************************)
(* A loss is only noticed together with a packet that counts as received:  *)
(* reports are about recorded packets (SentWasRecorded), and a report that *)
(* comes too late finds everything older popped already (PoppedFirst), so  *)
(* it counts no loss.                                                      *)
(***************************************************************************)
SentWasRecorded == \A f \in Flow : delivered[f] \cup OnWire[f] \subseteq recorded[f]
PoppedFirst ==
  \A f \in Flow : \A x \in received[f] \cup lost[f] : \A y \in Pending[f] : x < y
LossHasWitness == \A f \in Flow : lost[f] # {} => received[f] # {}
WInv == SentWasRecorded /\ PoppedFirst /\ LossHasWitness

(* Nothing is sent or popped at the start. *)
LEMMA WInit == Init => WInv
<1> SUFFICES ASSUME Init PROVE WInv
  OBVIOUS
<1>1. \A f \in Flow : lost[f] = {} /\ received[f] = {} /\ delivered[f] = {}
  BY DEF Init
<1>2. \A f \in Flow : OnWire[f] = {}
  BY Ends DEF Init, OnWire, ElementsOf
<1> QED
  BY <1>1, <1>2 DEF WInv, SentWasRecorded, PoppedFirst, LossHasWitness

(* A step that only moves packets along the path of their flow. *)
LEMMA PathW ==
  ASSUME WInv, UNCHANGED <<recorded, pkt_list, received, lost>>,
         \A f \in Flow : delivered'[f] \cup OnWire'[f] \subseteq delivered[f] \cup OnWire[f]
  PROVE  WInv'
<1>1. SentWasRecorded'
  BY DEF WInv, SentWasRecorded
<1>2. PoppedFirst'
  BY DEF WInv, PoppedFirst, Pending
<1>3. LossHasWitness'
  BY DEF WInv, LossHasWitness
<1> QED
  BY <1>1, <1>2, <1>3 DEF WInv

(* RecordPacket: the new packet is newer than all that were popped. *)
LEMMA RecordW ==
  ASSUME QInv, WInv, NEW h \in Host, NEW f \in Flow, RecordPacket(h, f)
  PROVE  WInv'
<1> DEFINE s == seqno[h] + 1
           p == Append(pkt_list[f], s)
<1>1. /\ \A x \in recorded[f] : x < s
      /\ pkt_list' = [pkt_list EXCEPT ![f] = p]
      /\ ElementsOf(p) = Pending[f] \cup {s}
  BY RecordEffect
<1>2. /\ recorded' = [recorded EXCEPT ![f] = @ \cup {s}]
      /\ UNCHANGED <<wire, delivered, received, lost>>
  BY DEF RecordPacket, netVars, updatorVars
<1> HIDE DEF s, p
<1>3. /\ recorded'[f] = recorded[f] \cup {s}
      /\ \A g \in Flow \ {f} : recorded'[g] = recorded[g]
  BY <1>2 DEF QInv, TypeOK, HistoryType
<1>4. /\ Pending'[f] = Pending[f] \cup {s}
      /\ \A g \in Flow \ {f} : Pending'[g] = Pending[g]
  <2>1. /\ pkt_list'[f] = p
        /\ \A g \in Flow \ {f} : pkt_list'[g] = pkt_list[g]
    BY <1>1 DEF QInv, TypeOK, ListType
  <2> QED
    BY <2>1, <1>1 DEF Pending
<1>5. SentWasRecorded'
  <2> SUFFICES ASSUME NEW g \in Flow
               PROVE  delivered[g] \cup OnWire[g] \subseteq recorded'[g]
    BY <1>2 DEF SentWasRecorded, OnWire
  <2> QED
    BY <1>3 DEF WInv, SentWasRecorded
<1>6. PoppedFirst'
  <2> SUFFICES ASSUME NEW g \in Flow, NEW x \in received[g] \cup lost[g],
                      NEW y \in Pending'[g]
               PROVE  x < y
    BY <1>2 DEF PoppedFirst
  <2>1. CASE y \in Pending[g]
    BY <2>1 DEF WInv, PoppedFirst
  <2>2. CASE g = f /\ y = s
    <3>1. x \in recorded[g]
      BY DEF QInv, EachPacketCountedOnce
    <3> QED
      BY <2>2, <3>1, <1>1
  <2> QED
    BY <2>1, <2>2, <1>4
<1>7. LossHasWitness'
  BY <1>2 DEF WInv, LossHasWitness
<1> QED
  BY <1>5, <1>6, <1>7 DEF WInv

(* SendPacket: the packet the main thread holds is recorded. *)
LEMMA SendW ==
  ASSUME QInv, VInv, WInv, NEW h \in Host, SendPacket(h)
  PROVE  WInv'
<1>1. PICK f : f = main[h].flow
  OBVIOUS
<1>2. PICK s : s = main[h].seqid
  OBVIOUS
<1>3. /\ main[h].pc = "accounted" /\ f \in Flow
      /\ UNCHANGED <<recorded, listVars, delivered, updatorVars>>
  BY <1>1, <1>2, SendEffect
<1>4. UNCHANGED <<pkt_list, received, lost>>
  BY <1>3 DEF listVars, updatorVars
<1>5. s \in recorded[f]
  BY <1>1, <1>2, <1>3 DEF VInv, HandFresh
<1>6. /\ OnWire'[f] \subseteq OnWire[f] \cup {s}
      /\ \A g \in Flow \ {f} : OnWire'[g] = OnWire[g]
  BY <1>1, <1>2, SendOnWire
<1>7. SentWasRecorded'
  <2> SUFFICES ASSUME NEW g \in Flow
               PROVE  delivered[g] \cup OnWire'[g] \subseteq recorded[g]
    BY <1>3 DEF SentWasRecorded
  <2>1. delivered[g] \cup OnWire[g] \subseteq recorded[g]
    BY DEF WInv, SentWasRecorded
  <2> QED
    BY <2>1, <1>5, <1>6
<1>8. PoppedFirst'
  BY <1>4 DEF WInv, PoppedFirst, Pending
<1>9. LossHasWitness'
  BY <1>4 DEF WInv, LossHasWitness
<1> QED
  BY <1>7, <1>8, <1>9 DEF WInv

(* ReadReport: what is popped is older than what stays, and a report of a  *)
(* packet that is no longer pending pops nothing.                          *)
LEMMA ReadW ==
  ASSUME QInv, WInv, NEW h \in Host, ReadReport(h)
  PROVE  WInv'
<1> DEFINE f == Head(fifo[h]).flow
           s == Head(fifo[h]).seqid
<1>1. /\ f \in Flow /\ s \in Seqid /\ s \in delivered[f]
      /\ UNCHANGED <<mainVars, wire, delivered>>
  BY ReadEffect
<1>2. UNCHANGED <<recorded, OnWire, delivered>>
  BY <1>1 DEF mainVars, OnWire
<1>3. SentWasRecorded'
  BY <1>2 DEF WInv, SentWasRecorded
<1>4. CASE UNCHANGED <<pkt_list, lost, received>>
  BY <1>2, <1>4, PathW
<1>5. ASSUME NEW rest,
             ElementsOf(rest) = {x \in Pending[f] : x > s},
             pkt_list' = [pkt_list EXCEPT ![f] = rest],
             lost' = [lost EXCEPT ![f] = @ \cup {x \in Pending[f] : x < s}],
             received' = [received EXCEPT ![f] =
                            @ \cup {x \in Pending[f] : x = s}]
      PROVE  WInv'
  <2> HIDE DEF f, s
  <2>1. /\ lost'[f] = lost[f] \cup {x \in Pending[f] : x < s}
        /\ received'[f] = received[f] \cup {x \in Pending[f] : x = s}
        /\ \A g \in Flow \ {f} : lost'[g] = lost[g] /\ received'[g] = received[g]
    BY <1>1, <1>5 DEF QInv, TypeOK, HistoryType
  <2>2. /\ Pending'[f] = {x \in Pending[f] : x > s}
        /\ \A g \in Flow \ {f} : Pending'[g] = Pending[g]
    BY <1>1, <1>5 DEF QInv, TypeOK, ListType, Pending
  <2>3. /\ s \in Nat /\ recorded[f] \subseteq Nat
        /\ recorded[f] = Pending[f] \cup received[f] \cup lost[f]
        /\ s \in recorded[f]
    BY <1>1 DEF QInv, TypeOK, HistoryType, Seqid, EachPacketCountedOnce, Pending,
       WInv, SentWasRecorded
  <2>4. PoppedFirst'
    <3> SUFFICES ASSUME NEW g \in Flow, NEW x \in received'[g] \cup lost'[g],
                        NEW y \in Pending'[g]
                 PROVE  x < y
      BY DEF PoppedFirst
    <3>1. CASE x \in received[g] \cup lost[g] /\ y \in Pending[g]
      BY <3>1 DEF WInv, PoppedFirst
    <3>2. CASE g = f /\ x \in Pending[f] /\ x <= s /\ y \in Pending[f] /\ y > s
      <4>1. x \in Nat /\ y \in Nat
        BY <3>2, <2>3
      <4> QED
        BY <3>2, <4>1, <2>3
    <3>3. y \in Pending[g] /\ (g = f => y > s)
      BY <2>2
    <3>4. x \in received[g] \cup lost[g] \/ (g = f /\ x \in Pending[f] /\ x <= s)
      <4>1. CASE g = f
        BY <4>1, <2>1, <2>3
      <4>2. CASE g # f
        BY <4>2, <2>1
      <4> QED
        BY <4>1, <4>2
    <3> QED
      BY <3>1, <3>2, <3>3, <3>4
  <2>5. LossHasWitness'
    <3> SUFFICES ASSUME NEW g \in Flow, lost'[g] # {} PROVE received'[g] # {}
      BY DEF LossHasWitness
    <3>1. CASE lost[g] # {}
      <4>1. received[g] # {}
        BY <3>1 DEF WInv, LossHasWitness
      <4> QED
        BY <4>1, <2>1
    <3>2. CASE lost[g] = {}
      <4>1. g = f
        BY <3>2, <2>1
      <4>2. PICK x \in Pending[f] : x < s
        BY <3>2, <4>1, <2>1
      <4>3. s \in Pending[f]
        <5> SUFFICES ASSUME s \in received[f] \cup lost[f] PROVE FALSE
          BY <2>3
        <5>1. s < x
          BY <1>1 DEF WInv, PoppedFirst
        <5>2. x \in Nat
          BY <2>3
        <5> QED
          BY <5>1, <5>2, <4>2, <2>3
      <4> QED
        BY <4>1, <4>3, <2>1
    <3> QED
      BY <3>1, <3>2
  <2> QED
    BY <1>3, <2>4, <2>5 DEF WInv
<1>6. \/ UNCHANGED <<pkt_list, lost, received>>
      \/ \E rest \in Seq(Seqid) :
           /\ ElementsOf(rest) = {x \in Pending[f] : x > s}
           /\ pkt_list' = [pkt_list EXCEPT ![f] = rest]
           /\ lost' = [lost EXCEPT ![f] = @ \cup {x \in Pending[f] : x < s}]
           /\ received' = [received EXCEPT ![f] =
                             @ \cup {x \in Pending[f] : x = s}]
  BY ReadEffect, Zenon
<1> QED
  BY <1>4, <1>5, <1>6

(* Every step keeps WInv. *)
LEMMA WNext == QInv /\ VInv /\ WInv /\ [Next]_vars => WInv'
<1> SUFFICES ASSUME QInv, VInv, WInv, [Next]_vars PROVE WInv'
  OBVIOUS
<1>1. ASSUME NEW h \in Host, Main(h)
      PROVE  WInv'
  <2>1. ASSUME UpdateVolume(h) PROVE WInv'
    <3>1. UNCHANGED <<recorded, listVars, netVars, updatorVars>>
      BY <2>1 DEF UpdateVolume
    <3>2. UNCHANGED <<recorded, pkt_list, received, lost, delivered, OnWire>>
      BY <3>1 DEF listVars, netVars, updatorVars, OnWire
    <3> QED
      BY <3>2, PathW
  <2> QED
    BY <1>1, <2>1, RecordW, SendW DEF Main
<1>2. ASSUME NEW h \in Host, NEW f \in Flow, Drop(h, f)
      PROVE  WInv'
  <2>1. PICK i \in 1 .. Len(wire[h][f]) :
          wire' = [wire EXCEPT ![h][f] = RemoveAt(@, i)]
    BY <1>2 DEF Drop
  <2>2. UNCHANGED <<recorded, pkt_list, received, lost, delivered>>
    BY <1>2 DEF Drop, mainVars, updatorVars, listVars
  <2>3. \A g \in Flow : OnWire'[g] \subseteq OnWire[g]
    BY <2>1, TakenOffWire
  <2> QED
    BY <2>2, <2>3, PathW
<1>3. ASSUME NEW h \in Host, NEW f \in Flow, GotPacket(h, f)
      PROVE  WInv'
  <2>1. UNCHANGED <<mainVars, listVars, updatorVars>>
    BY <1>3, GotEffect
  <2>2. UNCHANGED <<recorded, pkt_list, received, lost>>
    BY <2>1 DEF mainVars, listVars, updatorVars
  <2> QED
    BY <1>3, <2>2, GotOnPath, PathW
<1>4. ASSUME NEW h \in Host, UpdateLoss(h)
      PROVE  WInv'
  <2>1. UNCHANGED <<recorded, pkt_list, received, lost, delivered, OnWire>>
    BY <1>4 DEF UpdateLoss, mainVars, listVars, netVars, OnWire
  <2> QED
    BY <2>1, PathW
<1>5. CASE UNCHANGED vars
  <2>1. UNCHANGED <<recorded, pkt_list, received, lost, delivered, OnWire>>
    BY <1>5 DEF vars, OnWire
  <2> QED
    BY <2>1, PathW
<1> QED
  BY <1>1, <1>2, <1>3, <1>4, <1>5, ReadW DEF Next, Network, Receiver, Updator

(* The lost packets of a source flow are some of those in its volume, and  *)
(* if there are any, not all.                                              *)
LEMMA LossBelowVolume ==
  ASSUME QInv, VInv, WInv, NEW a \in FlowSrc, Cardinality(Pairs(lost, a)) > 0
  PROVE  Cardinality(Pairs(lost, a)) < volume[a]
<1>1. ASSUME NEW f \in Flow PROVE lost[f] \subseteq Accounted[f]
  BY DEF QInv, EachPacketCountedOnce, VInv, LostIsAccounted, Accounted
<1>2. ASSUME NEW f \in Flow PROVE received[f] \subseteq Accounted[f]
  <2> SUFFICES ASSUME NEW x \in received[f], x \in Unaccounted(f) PROVE FALSE
    BY DEF QInv, EachPacketCountedOnce, Accounted
  <2>1. /\ main[Src[f]].pc = "recorded" /\ main[Src[f]].flow = f
        /\ x = main[Src[f]].seqid
    BY DEF Unaccounted
  <2>2. x \in delivered[f]
    BY DEF QInv, ReceivedWasDelivered
  <2>3. x < x
    BY <2>1, <2>2 DEF VInv, Unsent
  <2>4. x \in Int
    BY DEF QInv, TypeOK, HistoryType, Seqid
  <2> QED
    BY <2>3, <2>4
<1>3. PICK p : p \in Pairs(lost, a)
  <2>1. Pairs(lost, a) # {}
    BY FS_EmptySet
  <2> QED
    BY <2>1
<1>4. PICK f \in Flow : FlowSrcOf[f] = a /\ \E x \in lost[f] : p = <<f, x>>
  BY <1>3, InPairs
<1>5. PICK r \in received[f] : r \notin lost[f]
  BY <1>4 DEF WInv, LossHasWitness, QInv, EachPacketCountedOnce
<1>6. <<f, r>> \in Pairs(Accounted, a) /\ <<f, r>> \notin Pairs(lost, a)
  BY <1>2, <1>4, <1>5, InPairs
<1>7. Pairs(lost, a) \subseteq Pairs(Accounted, a)
  <2> SUFFICES ASSUME NEW q \in Pairs(lost, a) PROVE q \in Pairs(Accounted, a)
    OBVIOUS
  <2>1. PICK g \in Flow : FlowSrcOf[g] = a /\ \E x \in lost[g] : q = <<g, x>>
    BY InPairs
  <2> QED
    BY <2>1, <1>1, InPairs
<1>8. IsFiniteSet(Pairs(Accounted, a)) /\ volume[a] = Cardinality(Pairs(Accounted, a))
  BY DEF VInv, VolumeExact
<1>9. Cardinality(Pairs(lost, a)) <= Cardinality(Pairs(Accounted, a))
  BY <1>7, <1>8, FS_Subset
<1>10. Cardinality(Pairs(lost, a)) # Cardinality(Pairs(Accounted, a))
  BY <1>6, <1>7, <1>8, FS_Subset
<1>11. /\ Cardinality(Pairs(lost, a)) \in Nat
       /\ Cardinality(Pairs(Accounted, a)) \in Nat
  BY <1>7, <1>8, FS_Subset, FS_CardinalityType
<1> QED
  BY <1>8, <1>9, <1>10, <1>11

(* The loss volume of a source flow counts exactly the packets of its      *)
(* 5-tuples that the updator took for lost, and is less than its volume    *)
(* unless it is zero, whatever the network drops or reorders.              *)
THEOREM LossVolumes == Spec => []LossVolumeIsExact
<1>1. QInv /\ VInv /\ WInv => LossVolumeIsExact
  <2> SUFFICES ASSUME QInv, VInv, WInv, NEW a \in FlowSrc
               PROVE  /\ loss[a] + InHand(a) = Cardinality(LostOf(a))
                      /\ loss[a] + InHand(a) > 0 => loss[a] + InHand(a) < volume[a]
    BY DEF LossVolumeIsExact
  <2>1. LostOf(a) = Pairs(lost, a)
    BY DEF LostOf, Pairs
  <2>2. loss[a] + InHand(a) = Cardinality(Pairs(lost, a))
    BY InHandIsHandOf DEF VInv, LossExact
  <2>3. Cardinality(Pairs(lost, a)) > 0 => Cardinality(Pairs(lost, a)) < volume[a]
    BY LossBelowVolume
  <2> QED
    BY <2>1, <2>2, <2>3
<1> QED
  BY <1>1, VInit, VNext, QInit, QNext, WInit, WNext, PTL DEF Spec
=============================================================================
