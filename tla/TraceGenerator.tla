--------------------------- MODULE TraceGenerator ---------------------------
(***************************************************************************)
(* pcapFileGenerator: turns the lines of a captured trace into one packet  *)
(* file per sender.  Every address of the trace is given to a sender and   *)
(* replaced by an address of that sender's network, packets between two    *)
(* addresses of one sender are dropped, the others get a sequence number   *)
(* and go to the file of the sender of their source.                       *)
(*                                                                         *)
(* The key under which packets are numbered is a flow_t of which only      *)
(* srcip is assigned: the rest is what the stack holds, a value of Garbage *)
(* that may differ from packet to packet.                                  *)
(***************************************************************************)
EXTENDS Integers, Sequences

CONSTANTS
  Ip,           \* addresses in the captured trace
  NumSenders,   \* NUM_SENDERS
  SenderIps,    \* ONE_SENDER_IP_NUM, addresses in a sender's network
  FirstPrefix,  \* START_IP in units of SenderIps
  Garbage,      \* contents of the unassigned part of a key
  IntMod,       \* 2^32, the range of an address
  SeqMod,       \* 2^32, the range of a seqid
  MaxPayload,   \* MAX_PAYLOAD_SIZE
  LenMod,       \* 2^16, the range of packet_s.len
  LineLen,      \* the lengths that lines state
  MaxLines      \* bound: lines of the trace

ASSUME GeneratorAssumption ==
  /\ NumSenders \in Nat \ {0} /\ SenderIps \in Nat \ {0}
  /\ FirstPrefix \in Nat /\ IntMod \in Nat /\ SeqMod \in Nat \ {0, 1}
  /\ 2 * ((FirstPrefix + NumSenders) * SenderIps) <= IntMod
  /\ MaxPayload \in Nat /\ LenMod \in Nat \ {0} /\ LineLen \subseteq Nat
  /\ MaxLines \in Nat

Node == 0 .. NumSenders - 1
Absent == -1
Line == [src : Ip, dst : Ip, tokens : {6, 7}, len : LineLen]

VARIABLES
  srcip_to_node_idx_map,    \* address -> node, or Absent
  srcip_to_node_srcip_map,  \* address -> new address, or Absent
  unique_ip_num,            \* addresses seen
  flow_seqid_hashmap,       \* key -> the last seqid, or Absent
  files,                    \* node -> packets of its file
  read_num_lines

maps == <<srcip_to_node_idx_map, srcip_to_node_srcip_map, unique_ip_num>>
generator == <<maps, flow_seqid_hashmap, files, read_num_lines>>

Addr == 0 .. IntMod - 1
Key == Addr \X Garbage
Packet == [srcip : Addr, dstip : Addr, seqid : 0 .. SeqMod - 1, rest : Garbage,
           len : 0 .. LenMod - 1]

(* init_srcip_dstip_to_b4_srcip_dstip(), init_write_pkts_to_files() *)
GeneratorInit ==
  /\ srcip_to_node_idx_map = [a \in Ip |-> Absent]
  /\ srcip_to_node_srcip_map = [a \in Ip |-> Absent]
  /\ unique_ip_num = 0
  /\ flow_seqid_hashmap = <<>>
  /\ files = [i \in Node |-> <<>>]
  /\ read_num_lines = 0
-----------------------------------------------------------------------------
(* ITH_SENDER_START_IP(i) and GET_SENDER_IDX(ip) *)
StartIp(i) == (FirstPrefix + i) * SenderIps
SenderIdx(ip) == (ip \div SenderIps) - FirstPrefix

(* The node that the n-th new address is given to, ... *)
NodeOf(n) == n % NumSenders

(* Mutant of IpOf: addresses are counted from 1. *)
IpOfFromOne(n) == (StartIp(NodeOf(n)) + n \div NumSenders) % IntMod

(* ... and its address there. *)
IpOf(n) == (StartIp(NodeOf(n)) + (n - 1) \div NumSenders) % IntMod

(* get_mapped_info(): the maps m after address a was looked up. *)
Mapped(m, a) ==
  IF m.idx[a] # Absent THEN m
  ELSE LET n == m.num + 1
       IN  [idx |-> [m.idx EXCEPT ![a] = NodeOf(n)],
            ip  |-> [m.ip EXCEPT ![a] = IpOf(n)],
            num |-> n]

(* The maps after both addresses of line l, the source first. *)
LineMaps(l) ==
  LET m == [idx |-> srcip_to_node_idx_map, ip |-> srcip_to_node_srcip_map,
            num |-> unique_ip_num]
  IN  Mapped(Mapped(m, l.src), l.dst)

(* The two stores of one line. *)
StoreMaps(m) ==
  /\ srcip_to_node_idx_map' = m.idx
  /\ srcip_to_node_srcip_map' = m.ip
  /\ unique_ip_num' = m.num

(* parse_one_line(): len is kept in 16 bits before it is compared. *)
WellFormed(l) == l.tokens >= 7 /\ l.len % LenMod <= MaxPayload

(* ht_kf_get() returns an int: a value of 2^31 or more looks absent. *)
AsInt(v) == IF 2 * v >= SeqMod THEN v - SeqMod ELSE v
Stored(k) ==
  IF k \in DOMAIN flow_seqid_hashmap THEN flow_seqid_hashmap[k] ELSE Absent

(* Mutant of NextSeqid: a key that was found is numbered from 1 again. *)
NextSeqidRestart(k) == IF AsInt(Stored(k)) < 1 THEN 1 ELSE AsInt(Stored(k))

(* get_seqid_of_flow() *)
NextSeqid(k) == (IF AsInt(Stored(k)) < 0 THEN 0 ELSE AsInt(Stored(k))) + 1

(* Mutant of SameSender: the addresses are compared, not their senders. *)
SameSenderAddr(s, d) == s = d

(* !(GET_SENDER_IDX(s) ^ GET_SENDER_IDX(d)) *)
SameSender(s, d) == SenderIdx(s) = SenderIdx(d)

SkipLine(l) ==
  /\ ~ WellFormed(l)
  /\ UNCHANGED <<maps, flow_seqid_hashmap, files>>

DropSelfTraffic(l) ==
  LET m == LineMaps(l)
  IN  /\ WellFormed(l)
      /\ SameSender(m.ip[l.src], m.ip[l.dst])
      /\ StoreMaps(m)
      /\ UNCHANGED <<flow_seqid_hashmap, files>>

(* generate_one_pcap_pkt(): numbered and appended to the file of its       *)
(* source's node.                                                          *)
WritePacket(l, rest) ==
  LET m == LineMaps(l)
      k == <<m.ip[l.src], rest>>
      p == [srcip |-> m.ip[l.src], dstip |-> m.ip[l.dst],
            seqid |-> NextSeqid(k), rest |-> rest, len |-> l.len % LenMod]
  IN  /\ WellFormed(l)
      /\ ~ SameSender(m.ip[l.src], m.ip[l.dst])
      /\ StoreMaps(m)
      /\ flow_seqid_hashmap' =
           [x \in DOMAIN flow_seqid_hashmap \cup {k} |->
              IF x = k THEN p.seqid ELSE flow_seqid_hashmap[x]]
      /\ files' = [files EXCEPT ![m.idx[l.src]] = Append(@, p)]

(* main(): the next line of the trace. *)
ReadLine ==
  /\ read_num_lines < MaxLines
  /\ read_num_lines' = read_num_lines + 1
  /\ \E l \in Line :
       SkipLine(l) \/ DropSelfTraffic(l) \/ \E rest \in Garbage : WritePacket(l, rest)

GeneratorSpec == GeneratorInit /\ [][ReadLine]_generator
-----------------------------------------------------------------------------
MapType ==
  /\ srcip_to_node_idx_map \in [Ip -> Node \cup {Absent}]
  /\ srcip_to_node_srcip_map \in [Ip -> Addr \cup {Absent}]
  /\ unique_ip_num \in Nat
GeneratorTypeOK ==
  /\ MapType
  /\ DOMAIN flow_seqid_hashmap \subseteq Key
  /\ \A k \in DOMAIN flow_seqid_hashmap : flow_seqid_hashmap[k] \in 0 .. SeqMod - 1
  /\ files \in [Node -> Seq(Packet)]
  /\ read_num_lines \in Nat

(* No sender has more addresses than its network holds. *)
NetworksSuffice == unique_ip_num <= NumSenders * SenderIps

(* get_mapped_info(): two addresses of the trace never become one, and     *)
(* every address lies in the network of the node it was given to, as long  *)
(* as the networks suffice.                                                *)
MappingIsInjective ==
  NetworksSuffice =>
    \A a \in Ip : srcip_to_node_idx_map[a] # Absent =>
      /\ SenderIdx(srcip_to_node_srcip_map[a]) = srcip_to_node_idx_map[a]
      /\ \A b \in Ip : b # a =>
           srcip_to_node_srcip_map[b] # srcip_to_node_srcip_map[a]

(* main(): a sender's file holds packets from its own network to another   *)
(* sender's, never to itself, and none longer than the longest payload.    *)
FilesAreReplayable ==
  NetworksSuffice =>
    \A i \in Node : \A j \in 1 .. Len(files[i]) :
      LET p == files[i][j]
      IN  /\ SenderIdx(p.srcip) = i
          /\ SenderIdx(p.dstip) \in Node \ {i}
          /\ p.len <= MaxPayload

(* get_seqid_of_flow(): the packets of a source under one key are numbered *)
(* 1, 2, 3, ... in the order of the file, up to 2^31; then again from 1.   *)
SameKey(p, q) == p.srcip = q.srcip /\ p.rest = q.rest
SeqidsCount ==
  NetworksSuffice =>
    \A i \in Node : \A j \in 1 .. Len(files[i]) :
      LET f == files[i]
          earlier == {h \in 1 .. j - 1 : SameKey(f[h], f[j])}
      IN  /\ earlier = {} => f[j].seqid = 1
          /\ \A h \in earlier : (\A g \in earlier : g <= h) =>
               f[j].seqid = IF 2 * f[h].seqid >= SeqMod THEN 1 ELSE f[h].seqid + 1
=============================================================================
