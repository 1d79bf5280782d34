---------------------------- MODULE LossTracker ----------------------------
(***************************************************************************)
(* How a sender learns which of its packets were lost, from the moment the *)
(* main thread takes a packet from the trace to the moment the loss is     *)
(* added to the flow's loss volume:                                        *)
(*   main thread   cm_handle_ipv4_packet() records the packet in the       *)
(*                 packet list of its 5-tuple, adds it to the volume of    *)
(*                 its source flow and sends it;                           *)
(*   network       switches (outside the repository) deliver or drop it;   *)
(*   receivers     got_packet() on every host reports the packets other    *)
(*                 hosts sent, through the FIFO of the sending host;       *)
(*   updator       flow_infor_update() takes a report, treats the packets  *)
(*                 recorded before the reported one as lost and adds them  *)
(*                 to the loss volume.                                     *)
(* Buffers do not rotate here (see DataWarehouse), so that what is said of *)
(* volumes is said of one interval: a loss reported after a rotation is    *)
(* looked up in the other buffer.  Every packet counts as one unit of      *)
(* volume; volumes are reckoned per source flow, packet lists are kept per *)
(* 5-tuple.                                                                *)
(***************************************************************************)
EXTENDS Integers, Sequences, FiniteSets, SequencesExt

CONSTANTS
  Host,       \* mininet hosts: each runs a sender and a receiver
  Flow,       \* 5-tuples
  FlowSrc,    \* source flows (source and destination address)
  FlowSrcOf,  \* Flow -> FlowSrc
  Src, Dst,   \* Flow -> Host
  MaxSeqid,   \* bound: packets each host's trace holds
  FifoCap,    \* reports a FIFO holds before a write blocks
  InOrder,    \* TRUE: the network keeps the order of each flow's packets
  NoFlow      \* no 5-tuple

ASSUME FlowAssumption ==
  /\ FlowSrcOf \in [Flow -> FlowSrc]
  /\ Src \in [Flow -> Host]
  /\ Dst \in [Flow -> Host]
  /\ \A f \in Flow : Src[f] # Dst[f]
  /\ \A f, g \in Flow : FlowSrcOf[f] = FlowSrcOf[g] => Src[f] = Src[g]
  /\ NoFlow \notin Flow
ASSUME BoundAssumption == MaxSeqid \in [Host -> Nat] /\ FifoCap \in Nat \ {0}
ASSUME OrderAssumption == InOrder \in BOOLEAN

VARIABLES
  seqno,       \* host -> seqid of the last packet taken from its trace
  entries,     \* 5-tuples that have an entry in flow_recePktList_map
  pkt_list,    \* 5-tuple -> recorded seqids, oldest_pkt first
  newest_pkt,  \* 5-tuple -> seqid of the node newest_pkt points to, 0: NULL
  main,        \* host -> what its main thread is doing, with which packet
  wire,        \* host -> 5-tuple -> packets on the way to the host's receiver
  fifo,        \* host -> reports the receivers wrote to its FIFO
  updator,     \* host -> what its updator thread is doing, with which result
  volume,      \* flow_volume_map: source flow -> volume, 0: not in the map
  loss,        \* flow_loss_volume_map: source flow -> volume, 0: not in the map
  volume_lost, \* host -> total lost volume
  volume_sent, \* host -> total sent volume
  errors,      \* FAIL and FATAL messages printed so far
  recorded, lost, received, delivered
               \* history, per 5-tuple: seqids recorded, counted as lost,
               \* counted as received, and reported by the receiver

mainVars == <<seqno, recorded, main, volume, volume_sent>>
listVars == <<entries, pkt_list, newest_pkt>>
netVars == <<wire, fifo, delivered>>
updatorVars == <<updator, loss, volume_lost, errors, lost, received>>
vars == <<seqno, entries, pkt_list, newest_pkt, main, wire, fifo, updator,
          volume, loss, volume_lost, volume_sent, errors, recorded, lost,
          received, delivered>>

Doing(pc, f, s) == [pc |-> pc, flow |-> f, seqid |-> s]
Idle == Doing("idle", NoFlow, 0)
(* Mutant of Applying: the flow does not reach update_flow_loss_volume. *)
ApplyingNoFlow(f, n) == [pc |-> "apply", flow |-> NoFlow, lost |-> n]

Report(f, s) == [flow |-> f, seqid |-> s]
Applying(f, n) == [pc |-> "apply", flow |-> f, lost |-> n]
Reading == [pc |-> "read", flow |-> NoFlow, lost |-> 0]

Init ==
  /\ seqno = [h \in Host |-> 0]
  /\ entries = {}
  /\ pkt_list = [f \in Flow |-> <<>>]
  /\ newest_pkt = [f \in Flow |-> 0]
  /\ main = [h \in Host |-> Idle]
  /\ wire = [h \in Host |-> [f \in Flow |-> <<>>]]
  /\ fifo = [h \in Host |-> <<>>]
  /\ updator = [h \in Host |-> Reading]
  /\ volume = [a \in FlowSrc |-> 0]
  /\ loss = [a \in FlowSrc |-> 0]
  /\ volume_lost = [h \in Host |-> 0]
  /\ volume_sent = [h \in Host |-> 0]
  /\ errors = {}
  /\ recorded = [f \in Flow |-> {}]
  /\ lost = [f \in Flow |-> {}]
  /\ received = [f \in Flow |-> {}]
  /\ delivered = [f \in Flow |-> {}]
-----------------------------------------------------------------------------
(* Mutant of AppendPkt: newest_pkt stays where it was in a non-empty list. *)
AppendPktStale(f, s) ==
  /\ pkt_list' = [pkt_list EXCEPT ![f] =
                    IF @ = <<>> THEN <<s>>
                    ELSE IF newest_pkt[f] = Last(@) THEN Append(@, s) ELSE @]
  /\ newest_pkt' = [newest_pkt EXCEPT ![f] =
                      IF pkt_list[f] = <<>> THEN s ELSE @]

(* ht_vl_set(), the list: the packet becomes the only node of an empty     *)
(* list, or is linked behind the node newest_pkt points to, which puts it  *)
(* in the list only if that is the list's last node (ListIsQueue: it is).  *)
AppendPkt(f, s) ==
  /\ pkt_list' = [pkt_list EXCEPT ![f] =
                    IF @ = <<>> THEN <<s>>
                    ELSE IF newest_pkt[f] = Last(@) THEN Append(@, s) ELSE @]
  /\ newest_pkt' = [newest_pkt EXCEPT ![f] = s]

(* cm_handle_ipv4_packet(), first part: the next packet of the trace,      *)
(* which belongs to flow f, is recorded by ht_vl_set().  The seqids of one *)
(* 5-tuple are assumed to ascend, with gaps: the generator means to number *)
(* the packets of one source.  (TraceGenerator shows that they ascend per  *)
(* key, of which the code leaves a part unassigned: equal numbers for two  *)
(* packets of a 5-tuple are outside this module.)                          *)
RecordPacket(h, f) ==
  LET s == seqno[h] + 1
  IN  /\ main[h].pc = "idle"
      /\ Src[f] = h
      /\ s <= MaxSeqid[h]
      /\ seqno' = [seqno EXCEPT ![h] = s]
      /\ entries' = entries \cup {f}
      /\ AppendPkt(f, s)
      /\ recorded' = [recorded EXCEPT ![f] = @ \cup {s}]
      /\ main' = [main EXCEPT ![h] = Doing("recorded", f, s)]
      /\ UNCHANGED <<volume, volume_sent, netVars, updatorVars>>

(* cm_handle_ipv4_packet(), last part: update_flow_normal_volume() and the *)
(* sent counters.                                                          *)
UpdateVolume(h) ==
  LET a == FlowSrcOf[main[h].flow]
  IN  /\ main[h].pc = "recorded"
      /\ volume' = [volume EXCEPT ![a] = @ + 1]
      /\ volume_sent' = [volume_sent EXCEPT ![h] = @ + 1]
      /\ main' = [main EXCEPT ![h] = Doing("accounted", @.flow, @.seqid)]
      /\ UNCHANGED <<seqno, recorded, listVars, netVars, updatorVars>>

(* Mutant of SendPoint: the packet leaves before it is accounted for. *)
SendPointEarly == "recorded"

(* Where cm_handle_ipv4_packet() has left the packet when it is sent. *)
SendPoint == "accounted"

(* send_packets(): sendpacket() puts the packet on the wire, where the     *)
(* host's own receiver captures it as well; when it fails the packet is    *)
(* gone and only a warning is printed.                                     *)
SendPacket(h) ==
  LET f == main[h].flow
      s == main[h].seqid
  IN  /\ main[h].pc = SendPoint
      /\ \/ wire' = [wire EXCEPT ![Dst[f]][f] = Append(@, s),
                                 ![h][f] = Append(@, s)]
         \/ wire' = wire
      /\ main' = [main EXCEPT ![h] = Idle]
      /\ UNCHANGED <<seqno, recorded, volume, volume_sent, listVars, fifo,
                     delivered, updatorVars>>
-----------------------------------------------------------------------------
(* The network drops a packet (a switch, or the capture buffer of the      *)
(* receiver).                                                              *)
Drop(h, f) ==
  /\ \E i \in 1 .. Len(wire[h][f]) :
       wire' = [wire EXCEPT ![h][f] = RemoveAt(@, i)]
  /\ UNCHANGED <<mainVars, listVars, fifo, delivered, updatorVars>>

(* Which packets on the wire may arrive next. *)
Arrivals(q) == IF InOrder THEN {i \in {1} : i <= Len(q)} ELSE 1 .. Len(q)

(* Mutant of SentByUs: a receiver also reports its own host's packets. *)
SentByUsNever(h, f) == FALSE

(* got_packet() drops packets whose source is in the host's own network. *)
SentByUs(h, f) == Src[f] = h

(* Mutant of SenderFifo: the FIFO of the destination. *)
SenderFifoOfDst(f) == Dst[f]

(* get_sender_fifo_handler(): the FIFO that leads to the flow's sender. *)
SenderFifo(f) == Src[f]

(* got_packet() on host h: a packet of another host is reported to its     *)
(* sender.  The write blocks while the FIFO is full.  pcap_loop() runs in  *)
(* one thread: that it then also keeps the packets of other flows waiting  *)
(* is left out, each flow waits for its own report here.                   *)
GotPacket(h, f) ==
  \E i \in Arrivals(wire[h][f]) :
    /\ wire' = [wire EXCEPT ![h][f] = RemoveAt(@, i)]
    /\ IF SentByUs(h, f)
       THEN UNCHANGED <<fifo, delivered>>
       ELSE /\ Len(fifo[SenderFifo(f)]) < FifoCap
            /\ fifo' = [fifo EXCEPT ![SenderFifo(f)] =
                          Append(@, Report(f, wire[h][f][i]))]
            /\ delivered' = IF h = Dst[f]
                            THEN [delivered EXCEPT ![f] = @ \cup {wire[h][f][i]}]
                            ELSE delivered
    /\ UNCHANGED <<mainVars, listVars, updatorVars>>
-----------------------------------------------------------------------------
(* Mutant of PopUpTo: the walk also takes the reported packet itself. *)
PopUpToAndIncluding(q, s) ==
  CHOOSE k \in 1 .. Len(q) + 1 :
    /\ \A j \in 1 .. k - 1 : q[j] <= s
    /\ k <= Len(q) => q[k] > s

(* Mutant of PopUpTo: at most one older packet is taken for lost. *)
PopAtMostOne(q, s) == IF q # <<>> /\ q[1] < s THEN 2 ELSE 1

(* The walk of ht_vl_get_rece_lost_volume() from oldest_pkt stops at the   *)
(* first packet whose seqid is not smaller than the reported one.          *)
PopUpTo(q, s) ==
  CHOOSE k \in 1 .. Len(q) + 1 :
    /\ \A j \in 1 .. k - 1 : q[j] < s
    /\ k <= Len(q) => q[k] >= s

(* Mutant of Remaining: the received packet stays in the list. *)
RemainingKeepsReceived(q, k, found) == SubSeq(q, k, Len(q))

(* The list from the new oldest_pkt on: the received packet is freed too.  *)
Remaining(q, k, found) == SubSeq(q, IF found THEN k + 1 ELSE k, Len(q))

(* flow_infor_update(): read a report and call ht_vl_get_rece_lost_volume, *)
(* which frees the packets before the reported one as lost and the         *)
(* reported one as received.                                               *)
ReadReport(h) ==
  LET f     == Head(fifo[h]).flow
      s     == Head(fifo[h]).seqid
      q     == pkt_list[f]
      k     == PopUpTo(q, s)
      found == k <= Len(q) /\ q[k] = s
      rest  == Remaining(q, k, found)
  IN  /\ updator[h].pc = "read"
      /\ fifo[h] # <<>>
      /\ fifo' = [fifo EXCEPT ![h] = Tail(@)]
      /\ IF f \notin entries \/ Src[f] # h   \* no entry in this host's map
         THEN /\ errors' = errors \cup {"FAIL: flow not in hashmap"}
              /\ UNCHANGED <<listVars, updator, lost, received>>
         ELSE /\ errors' = errors \cup
                   (IF found THEN {}
                    ELSE {"FATAL ERROR: packet received not set!"})
              /\ pkt_list' = [pkt_list EXCEPT ![f] = rest]
              /\ newest_pkt' = [newest_pkt EXCEPT ![f] =
                                  IF rest = <<>> THEN 0 ELSE @]
              /\ lost' = [lost EXCEPT ![f] = @ \cup {q[j] : j \in 1 .. k - 1}]
              /\ received' = IF found
                             THEN [received EXCEPT ![f] = @ \cup {s}]
                             ELSE received
              /\ updator' = [updator EXCEPT ![h] =
                               IF k > 1 THEN Applying(f, k - 1) ELSE Reading]
              /\ UNCHANGED entries
      /\ UNCHANGED <<mainVars, wire, delivered, loss, volume_lost>>

(* flow_infor_update(), last part: update_flow_loss_volume(), which drops  *)
(* the loss of a source flow that has no volume.                           *)
UpdateLoss(h) ==
  LET a == FlowSrcOf[updator[h].flow]
      n == updator[h].lost
  IN  /\ updator[h].pc = "apply"
      /\ volume_lost' = [volume_lost EXCEPT ![h] = @ + n]
      /\ IF volume[a] = 0
         THEN /\ errors' = errors \cup
                             {"FATAL: flow_volume = 0 while loss_volume > 0"}
              /\ UNCHANGED loss
         ELSE /\ loss' = [loss EXCEPT ![a] = @ + n]
              /\ UNCHANGED errors
      /\ updator' = [updator EXCEPT ![h] = Reading]
      /\ UNCHANGED <<mainVars, listVars, netVars, lost, received>>
-----------------------------------------------------------------------------
Main(h) == (\E f \in Flow : RecordPacket(h, f)) \/ UpdateVolume(h) \/ SendPacket(h)
Network(h) == \E f \in Flow : Drop(h, f)
Receiver(h) == \E f \in Flow : GotPacket(h, f)
Updator(h) == ReadReport(h) \/ UpdateLoss(h)

Next == \E h \in Host : Main(h) \/ Network(h) \/ Receiver(h) \/ Updator(h)

Spec == Init /\ [][Next]_vars

(* The receivers are called for every packet that arrives and the updator  *)
(* blocks only on an empty FIFO; nothing obliges the main thread to send   *)
(* another packet nor the network to drop one.                             *)
FairSpec ==
  /\ Spec
  /\ \A h \in Host : /\ \A f \in Flow : SF_vars(GotPacket(h, f))
                     /\ WF_vars(ReadReport(h)) /\ WF_vars(UpdateLoss(h))
-----------------------------------------------------------------------------
Seqid == Nat \ {0}
Task == [pc : {"idle", "recorded", "accounted"}, flow : Flow \cup {NoFlow},
         seqid : Nat]

SeqnoType == seqno \in [Host -> Nat]
ListType ==
  /\ entries \subseteq Flow
  /\ pkt_list \in [Flow -> Seq(Seqid)]
  /\ newest_pkt \in [Flow -> Nat]
MainType ==
  /\ main \in [Host -> Task]
  /\ \A h \in Host : main[h].pc # "idle" =>
       main[h].flow \in Flow /\ Src[main[h].flow] = h /\ main[h].seqid \in Seqid
WireType == wire \in [Host -> [Flow -> Seq(Seqid)]]
FifoType == fifo \in [Host -> Seq([flow : Flow, seqid : Seqid])]
UpdatorType ==
  /\ updator \in [Host -> [pc : {"read", "apply"}, flow : Flow \cup {NoFlow},
                           lost : Nat]]
  /\ \A h \in Host : updator[h].pc = "apply" => updator[h].flow \in Flow
VolumeType ==
  /\ volume \in [FlowSrc -> Nat] /\ loss \in [FlowSrc -> Nat]
  /\ volume_lost \in [Host -> Nat] /\ volume_sent \in [Host -> Nat]
ErrorsType ==
  errors \subseteq {"FAIL: flow not in hashmap",
                    "FATAL ERROR: packet received not set!",
                    "FATAL: flow_volume = 0 while loss_volume > 0"}
HistoryType ==
  /\ recorded \in [Flow -> SUBSET Seqid]
  /\ lost \in [Flow -> SUBSET Seqid]
  /\ received \in [Flow -> SUBSET Seqid]
  /\ delivered \in [Flow -> SUBSET Seqid]

TypeOK ==
  /\ SeqnoType /\ ListType /\ MainType /\ WireType /\ FifoType
  /\ UpdatorType /\ VolumeType /\ ErrorsType /\ HistoryType

ElementsOf(q) == {q[i] : i \in 1 .. Len(q)}
Ascending(q) == \A i \in 1 .. Len(q) : \A j \in 1 .. i - 1 : q[j] < q[i]

(* The packet list of a 5-tuple is a queue: seqids ascend from oldest_pkt  *)
(* to newest_pkt, newest_pkt is its last node and is NULL exactly when the *)
(* list is empty (the assertion commented out in ht_vl_set).               *)
ListIsQueue ==
  \A f \in Flow :
    /\ Ascending(pkt_list[f])
    /\ newest_pkt[f] = IF pkt_list[f] = <<>> THEN 0
                       ELSE pkt_list[f][Len(pkt_list[f])]

(* Every recorded packet is pending, counted as received or counted as     *)
(* lost, and is only one of them, whatever the network reorders: no report *)
(* counts a packet a second time.                                          *)
EachPacketCountedOnce ==
  \A f \in Flow :
    LET pending == ElementsOf(pkt_list[f])
    IN  /\ recorded[f] = pending \cup received[f] \cup lost[f]
        /\ pending \cap received[f] = {}
        /\ pending \cap lost[f] = {}
        /\ received[f] \cap lost[f] = {}

(* A packet counted as received has been reported by its receiver. *)
ReceivedWasDelivered == \A f \in Flow : received[f] \subseteq delivered[f]

(* In a network that keeps the order of a flow, a packet counted as lost   *)
(* has really been lost: its receiver has not got it and never will.       *)
OnlyDropsAreLost ==
  \A f \in Flow :
    lost[f] \cap (delivered[f] \cup ElementsOf(wire[Dst[f]][f])) = {}

(* In a network that keeps the order of a flow, the updator finds every    *)
(* flow and every packet it gets a report for, and its source flow has a   *)
(* volume: no FAIL or FATAL branch is taken within an interval.            *)
NoErrorReported == errors = {}

(* The lost packets of flows with source flow a. *)
LostOf(a) == UNION {{f} \X lost[f] : f \in {g \in Flow : FlowSrcOf[g] = a}}

(* The updator of host h has popped packets of source flow a and not yet   *)
(* added them to a's loss volume.                                          *)
Applies(h, a) ==
  updator[h].pc = "apply" /\ FlowSrcOf[updator[h].flow] = a

(* How many packets of a those are.  All 5-tuples of a source flow have    *)
(* one sender, so only its updator can have them.                          *)
InHand(a) ==
  IF \E h \in Host : Applies(h, a)
  THEN updator[CHOOSE h \in Host : Applies(h, a)].lost
  ELSE 0

(* A source flow's loss volume counts exactly the packets of its 5-tuples  *)
(* that were taken for lost, and stays below its volume, so that its loss  *)
(* rate is less than 1: a loss is noticed only when a later packet of the  *)
(* 5-tuple is found to be received, even if reports overtake each other.   *)
(* (Within an interval: a rotation starts the volume anew.)                *)
LossVolumeIsExact ==
  \A a \in FlowSrc :
    /\ loss[a] + InHand(a) = Cardinality(LostOf(a))
    /\ loss[a] + InHand(a) > 0 => loss[a] + InHand(a) < volume[a]

(* A lost packet is noticed once a later packet of its 5-tuple has been    *)
(* delivered (a loss at the end of a flow never is).                       *)
LossIsNoticed ==
  \A f \in Flow : \A s \in 1 .. MaxSeqid[Src[f]] :
    (/\ s \in recorded[f] \ delivered[f]
     /\ s \notin ElementsOf(wire[Dst[f]][f])
     /\ ~(main[Src[f]].pc # "idle" /\ main[Src[f]].seqid = s)
     /\ \E t \in delivered[f] : t > s)
    ~> (s \in lost[f] /\ updator[Src[f]].pc = "read")
=============================================================================
