--------------------------- MODULE TrafficReplay ---------------------------
(***************************************************************************)
(* From the captured trace to the tagged packet.  The generator writes the *)
(* packet files (TraceGenerator); then the sender on host hostid reads the *)
(* task file (task_manager.c) and replays its packet file: a packet of a   *)
(* task's traffic is tagged for the switches that monitor the task, and    *)
(* as sampled or with its flow's selected level (vlan_tag.c), as the data  *)
(* warehouse says (DataWarehouse; here any answer).  Condition packets     *)
(* carry a level and nothing else.                                         *)
(*                                                                         *)
(* The VLAN field is the set of its bits.  Hosts and switches are numbered *)
(* from 1, nodes and tag positions from 0.                                 *)
(***************************************************************************)
EXTENDS TraceGenerator

CONSTANTS
  Switch,     \* switch ids
  TaskFiles,  \* contents the task file may have
  Comment     \* a line that begins with #

Host == 1 .. NumSenders
Task == [sender_host : Host, receiver_host : Host, monitors : SUBSET Switch]

(* task_manager.h: "between one pair of hosts, there is only one task". *)
OneTaskPerPair(f) ==
  \A i, j \in DOMAIN f :
    (i # j /\ f[i] # Comment /\ f[j] # Comment) =>
      <<f[i].sender_host, f[i].receiver_host>> #
        <<f[j].sender_host, f[j].receiver_host>>

ASSUME TaskAssumption ==
  /\ Switch \subseteq 1 .. 12 /\ Comment \notin Task
  /\ \A f \in TaskFiles : f \in Seq(Task \cup {Comment}) /\ OneTaskPerPair(f)

VARIABLES
  sender,     \* "off", then "reading", "replaying" or "failed"
  hostid,     \* the host the sender runs on
  task_file,
  next_line,  \* position in the task file
  tasks,      \* p_task_manager->tasks
  replayed,   \* packets of the file that were sent
  sent        \* the packet sent last, what it was sent for, and its tag

replay == <<sender, hostid, task_file, next_line, tasks, replayed, sent>>
vars == <<generator, replay>>

Nothing == [kind |-> "none"]

Init ==
  /\ GeneratorInit
  /\ sender = "off"
  /\ hostid \in Host
  /\ task_file \in TaskFiles
  /\ next_line = 1
  /\ tasks = <<>>
  /\ replayed = 0
  /\ sent = Nothing

Generate == sender = "off" /\ ReadLine /\ UNCHANGED replay

(* The files are closed; tcpreplay starts on hostid. *)
StartSender ==
  /\ sender = "off"
  /\ sender' = "reading"
  /\ UNCHANGED <<generator, hostid, task_file, next_line, tasks, replayed, sent>>
-----------------------------------------------------------------------------
(* Only tasks with their selector on this host are kept. *)
Keep(t) == t.sender_host = hostid

(* read_tasks_from_file(): one line; a task without monitors is an error. *)
ReadTaskLine ==
  /\ sender = "reading"
  /\ next_line <= Len(task_file)
  /\ next_line' = next_line + 1
  /\ LET t == task_file[next_line]
     IN  \/ t = Comment /\ UNCHANGED <<sender, tasks>>
         \/ /\ t # Comment /\ t.monitors # {}
            /\ tasks' = IF Keep(t) THEN Append(tasks, t) ELSE tasks
            /\ UNCHANGED sender
         \/ /\ t # Comment /\ t.monitors = {}
            /\ sender' = "failed"
            /\ UNCHANGED tasks
  /\ UNCHANGED <<generator, hostid, task_file, replayed, sent>>

(* The end of the file; init_task_srcip_dstip_prefixes() follows. *)
TasksRead ==
  /\ sender = "reading"
  /\ next_line > Len(task_file)
  /\ sender' = "replaying"
  /\ UNCHANGED <<generator, hostid, task_file, next_line, tasks, replayed, sent>>

(* Mutant of Prefix: hosts are taken for nodes. *)
PrefixOfHost(host) == StartIp(host)

(* srcip_prefix and dstip_prefix of a task. *)
Prefix(host) == StartIp(host - 1)

(* ip & IP_MASK *)
Masked(ip) == (ip \div SenderIps) * SenderIps

(* get_task_of_traffic(): the tasks it may return, first match only. *)
Matches(i, p) ==
  /\ Prefix(tasks[i].sender_host) = Masked(p.srcip)
  /\ Prefix(tasks[i].receiver_host) = Masked(p.dstip)
TaskOf(p) ==
  {tasks[i] : i \in {j \in 1 .. Len(tasks) :
     Matches(j, p) /\ \A h \in 1 .. j - 1 : ~ Matches(h, p)}}
-----------------------------------------------------------------------------
(* TAG_VLAN_FOR_SWITCH_I(i), TAG_VLAN_SELECTED_FLOW_VAL(level) and         *)
(* TAG_VLAN_PACKET_SAMPLED_VAL; the field has 16 bits.                     *)
SwitchBit(i) == IF i < 1 THEN i + 3 ELSE i + 4
LevelBits(level) ==
  (IF level % 2 = 1 THEN {1} ELSE {}) \cup (IF level \div 2 % 2 = 1 THEN {2} ELSE {})
SampledBit == 0
Field == 0 .. 15

tag_packet_for_switches(v, monitors) ==
  (v \cup {SwitchBit(s - 1) : s \in monitors}) \cap Field
tag_packet_as_sampled(v, sampled) == IF sampled THEN v \cup {SampledBit} ELSE v
tag_selected_flow_level(v, level) == v \cup LevelBits(level)

tag_packet_selected_level(v, level) == LevelBits(level)

(* cm_handle_ipv4_packet(): the next packet, copied from the file with a   *)
(* field of zeros.  The flow's level is read after the packet was sampled. *)
ReplayPacket(sampled, level) ==
  LET p == files[hostid - 1][replayed + 1]
      tag == {tag_selected_flow_level(tag_packet_as_sampled(
                tag_packet_for_switches({}, t.monitors), sampled), level) :
                t \in TaskOf(p)}
  IN  /\ sender = "replaying"
      /\ replayed < Len(files[hostid - 1])
      /\ replayed' = replayed + 1
      /\ sent' = [kind |-> "packet", packet |-> p, sampled |-> sampled,
                  level |-> level, tag |-> UNION tag]
      /\ UNCHANGED <<generator, sender, hostid, task_file, next_line, tasks>>

(* send_udp_condition_pkt(): the header is a local variable whose field    *)
(* holds anything before it is assigned.                                   *)
SendCondition(field, level) ==
  /\ sender = "replaying"
  /\ sent' = [kind |-> "condition", level |-> level,
              tag |-> tag_packet_selected_level(field, level)]
  /\ UNCHANGED <<generator, sender, hostid, task_file, next_line, tasks, replayed>>

Next ==
  \/ Generate \/ StartSender \/ ReadTaskLine \/ TasksRead
  \/ \E level \in 0 .. 2 :
       \/ \E sampled \in BOOLEAN : ReplayPacket(sampled, level)
       \/ \E field \in {{}, {0, 4, 7}} : SendCondition(field, level)

Spec == Init /\ [][Next]_vars
-----------------------------------------------------------------------------
TypeOK ==
  /\ GeneratorTypeOK
  /\ sender \in {"off", "reading", "replaying", "failed"}
  /\ hostid \in Host
  /\ task_file \in TaskFiles
  /\ next_line \in 1 .. Len(task_file) + 1
  /\ tasks \in Seq(Task)
  /\ replayed \in 0 .. Len(files[hostid - 1])
  /\ sent = Nothing \/ sent.tag \subseteq Field

(* What the switches read from a tag (packet.h). *)
Monitors(tag) == {s \in Switch : SwitchBit(s - 1) \in tag}
GET_VLAN_SELECTED_FLOW_VAL(tag) ==
  (IF 1 \in tag THEN 1 ELSE 0) + (IF 2 \in tag THEN 2 ELSE 0)

(* get_task_of_traffic(), tag_packet_for_switches(): a replayed packet     *)
(* tells exactly the switches that the task file names for the host it     *)
(* comes from and the host it goes to, and carries no tag without a task.  *)
TagTellsMonitors ==
  (sent.kind = "packet" /\ NetworksSuffice) =>
    LET named == {i \in DOMAIN task_file :
          /\ task_file[i] # Comment
          /\ task_file[i].sender_host = hostid
          /\ task_file[i].receiver_host = SenderIdx(sent.packet.dstip) + 1}
    IN  /\ Monitors(sent.tag) = UNION {task_file[i].monitors : i \in named}
        /\ named = {} => sent.tag = {}

(* vlan_tag.c: whatever else it says, the tag of a packet with a task      *)
(* gives back the sampling decision and the level, that of a condition     *)
(* packet the level and nothing else, and bit 4 is never used.             *)
TagTellsSelection ==
  /\ (sent.kind = "packet" /\ Monitors(sent.tag) # {}) =>
       /\ (SampledBit \in sent.tag) = sent.sampled
       /\ GET_VLAN_SELECTED_FLOW_VAL(sent.tag) = sent.level
  /\ sent.kind = "condition" =>
       /\ GET_VLAN_SELECTED_FLOW_VAL(sent.tag) = sent.level
       /\ Monitors(sent.tag) = {} /\ SampledBit \notin sent.tag
  /\ sent.kind # "none" => 4 \notin sent.tag

(* What the sender puts into a tag is what the switches read from it: the  *)
(* monitors of the packet's task, the sampling decision and the level.     *)
TagReadsBack == TagTellsMonitors /\ TagTellsSelection
=============================================================================
