--------------------------- MODULE DataWarehouse ---------------------------
(***************************************************************************)
(* The data warehouse of one sender and the four threads that share it:    *)
(*   main      samples and tags a packet, adds it to the flow's volume and *)
(*             sends it (cm_handle_ipv4_packet, send_packets);             *)
(*   updator   adds reported losses (update_flow_loss_volume);             *)
(*   cond      tells the switches which flows are selected                 *)
(*             (send_condition_to_network);                                *)
(*   rotator   swaps the two buffers, writes and resets the old one        *)
(*             (rotate_interval).                                          *)
(* main and updator exclude each other per bin by mutexs[], cond and       *)
(* rotator by data_warehouse_mutex, main and cond by packet_send_mutex;    *)
(* nothing excludes main and updator from rotator.                         *)
(*                                                                         *)
(* The maps of a buffer are functions, one value per flow, Absent for a    *)
(* flow that is not in the map; a call of a map is one step, but for the   *)
(* ht_kfs_vi_del that moves the cursor of an iteration (see FlowHashTable  *)
(* for what happens inside the others).  Pointers to maps are fetched      *)
(* where the code fetches them and carry the generation of the buffer, so  *)
(* that a pointer into a reset buffer is told apart.  A read through such  *)
(* a pointer may return anything, a write is lost.  Every packet is one    *)
(* unit of volume, so pkt_num_sent and volume_sent are one counter.        *)
(*                                                                         *)
(* The settings are read once: the tasks of the host monitor some of the   *)
(* flows; it samples these or leaves it to the switches; a host that       *)
(* samples injects condition packets (with replacement set, or cond is not *)
(* started) or tags its packets; levels follow the exact loss map or the   *)
(* one of fixed size, of which only ht_kfs_fixSize_add_value and _get are  *)
(* used here (FixSizeTable has the whole table).                           *)
(***************************************************************************)
EXTENDS Integers, FiniteSets, FiniteSetsExt, Functions

CONSTANTS
  N,              \* source flows 1 .. N, numbered as ht_kfs_vi_next visits them
  BinOf,          \* flow_src_hash_bin(): flow -> bin
  FixedBinOf,     \* the same for the size of the fixed map: flow -> bucket
  Settings,       \* the settings the sender may be started with
  VolumeThr, LossThr, SelectedLossThr,  \* thresholds of a target flow
  RateNum, RateDen,                     \* loss_rate_threshold = RateNum/RateDen
  MaxPackets,     \* bound: packets sent
  MaxRotations,   \* bound: rotations of the buffers
  AllocFails      \* TRUE: the creation of a map may fail

Flow == 1 .. N
Buffer == {0, 1}
Bins == {BinOf[f] : f \in Flow}

ASSUME FlowAssumption ==
  /\ N \in Nat
  /\ BinOf \in [Flow -> Nat] /\ FixedBinOf \in [Flow -> Nat]
  /\ \A f \in Flow : \A g \in 1 .. f : BinOf[g] <= BinOf[f]
ASSUME SettingAssumption ==
  Settings \subseteq [conditions : {"switch", "inject", "tag"},
                      loss_map_mem_type : {"INFINITE", "FIXED"},
                      monitored : SUBSET Flow]
ASSUME ThresholdAssumption ==
  /\ VolumeThr \in Nat /\ RateNum \in Nat /\ RateDen \in Nat \ {0}
  /\ SelectedLossThr \in Nat /\ LossThr \in Nat /\ SelectedLossThr <= LossThr
ASSUME BoundAssumption ==
  MaxPackets \in Nat /\ MaxRotations \in Nat /\ AllocFails \in BOOLEAN

VARIABLES
  setting,        \* cm_experiment_setting and the tasks
  active_idx,
  gen,            \* buffer -> how often its maps have been destroyed
  exists,         \* buffer -> kinds of maps its pointers are valid for
  flow_volume_map, fixed_flow_loss_volume_map, flow_loss_volume_map,
  flow_loss_rate_map, flow_selected_level_map, flow_sample_map,
  flow_not_sampled_volume_map,
                  \* buffer -> flow -> value
  volume_sent, volume_lost, condition_pkt_num_sent,   \* buffer -> total
  last_sent_flow_selected_level_map,                  \* flow -> level
  last_exists,    \* last_sent_flow_selected_level_map is a valid pointer
  mutexs,         \* bin -> the thread that holds its mutex
  packet_send_mutex, data_warehouse_mutex,  \* the threads that hold them
  main, updator, cond, rotator,  \* what each thread is doing
  cursor,         \* next_last_visit_entry of the map cond is iterating
  rotations,      \* rotations so far
  fatal,          \* "FATAL: flow_volume = 0 while loss_volume > 0" printed
  accounted, reported,  \* history: flow -> packets sent, losses reported
  told,           \* history: flow -> level the condition packets said
  untold,         \* history: flows whose last condition packet was not sent
  raced,          \* history: a level changed while cond was in a round
  alloc_failed    \* history: a map could not be created

maps == <<flow_volume_map, fixed_flow_loss_volume_map, flow_loss_volume_map,
          flow_loss_rate_map, flow_sample_map, flow_not_sampled_volume_map>>
levels == <<flow_selected_level_map, cursor, raced>>
buffers == <<setting, active_idx, gen, exists, rotations>>
totals == <<volume_sent, volume_lost, condition_pkt_num_sent>>
conditions == <<last_sent_flow_selected_level_map, last_exists, told, untold>>
locks == <<mutexs, packet_send_mutex, data_warehouse_mutex>>
history == <<fatal, accounted, reported, alloc_failed>>
vars == <<maps, levels, buffers, totals, conditions, locks, history, main,
          updator, cond, rotator>>

Absent == -1
NO_SELECTED_LEVEL == 0
SELECTED_LEVEL == 1
TARGET_LEVEL == 2
NoRate == <<Absent, Absent>>
Free == "none"

(* The maps of a buffer in the order in which they are created. *)
Kinds == <<"volume", "fixed", "loss", "rate", "level", "sample", "not_sampled">>
AllKinds == {Kinds[i] : i \in 1 .. 7}

(* data_warehouse_get_..._map(): a pointer to a map of the active buffer. *)
Active == [idx |-> active_idx, gen |-> gen[active_idx]]
NoPtr == [idx |-> 0, gen |-> -1]
Valid(kind, p) == gen[p.idx] = p.gen /\ kind \in exists[p.idx]
Inactive == 1 - active_idx

(* What a read through p may return, and what a write through p does. *)
Reads(map, kind, p, f) ==
  IF Valid(kind, p) THEN {map[p.idx][f]} ELSE Absent .. MaxPackets
Store(map, kind, p, f, v) ==
  IF Valid(kind, p) THEN [map EXCEPT ![p.idx][f] = v] ELSE map

(* Mutant of OrZero: the -1 of a flow that is not in the map is used. *)
OrZeroNone(v) == v

(* A flow that is not in the map counts as 0. *)
OrZero(v) == IF v < 0 THEN 0 ELSE v
EmptyMap(none) == [f \in Flow |-> none]
EmptyMaps(none) == [b \in Buffer |-> EmptyMap(none)]

MainIdle == [pc |-> "idle", flow |-> 0, level_map |-> NoPtr, volume_map |-> NoPtr,
             other_maps |-> NoPtr, volume |-> 0, loss |-> 0, idx |-> 0,
             total |-> 0, sampled |-> FALSE, tag |-> NO_SELECTED_LEVEL,
             moved |-> FALSE]
UpdatorIdle == [pc |-> "read", flow |-> 0, lost |-> 0, volume_map |-> NoPtr,
                other_maps |-> NoPtr, volume |-> 0, loss |-> 0, idx |-> 0,
                total |-> 0]

Init ==
  /\ setting \in Settings
  /\ active_idx = 0
  /\ gen = [b \in Buffer |-> 0]
  /\ exists = [b \in Buffer |-> AllKinds]
  /\ flow_volume_map = EmptyMaps(Absent)
  /\ fixed_flow_loss_volume_map = EmptyMaps(Absent)
  /\ flow_loss_volume_map = EmptyMaps(Absent)
  /\ flow_loss_rate_map = EmptyMaps(NoRate)
  /\ flow_selected_level_map = EmptyMaps(Absent)
  /\ flow_sample_map = EmptyMaps(Absent)
  /\ flow_not_sampled_volume_map = EmptyMaps(Absent)
  /\ volume_sent = [b \in Buffer |-> 0]
  /\ volume_lost = [b \in Buffer |-> 0]
  /\ condition_pkt_num_sent = [b \in Buffer |-> 0]
  /\ last_sent_flow_selected_level_map = EmptyMap(Absent)
  /\ last_exists = TRUE
  /\ mutexs = [b \in Bins |-> Free]
  /\ packet_send_mutex = Free
  /\ data_warehouse_mutex = Free
  /\ main = MainIdle
  /\ updator = UpdatorIdle
  /\ cond = [pc |-> "wait", level_map |-> NoPtr]
  /\ rotator = "sleep"
  /\ cursor = 0
  /\ rotations = 0
  /\ fatal = FALSE
  /\ accounted = [f \in Flow |-> 0]
  /\ reported = [f \in Flow |-> 0]
  /\ told = [f \in Flow |-> NO_SELECTED_LEVEL]
  /\ untold = {}
  /\ raced = FALSE
  /\ alloc_failed = FALSE
-----------------------------------------------------------------------------
(* update_flow_selected_level_map(): the level of a flow with this volume  *)
(* and loss; Absent: the flow is deleted from the map.                     *)
LevelOf(volume, loss) ==
  IF /\ volume >= VolumeThr
     /\ loss * RateDen >= RateNum * volume
     /\ loss >= SelectedLossThr
  THEN IF loss >= LossThr THEN TARGET_LEVEL ELSE SELECTED_LEVEL
  ELSE Absent

(* Where ht_kfs_vi_del leaves the cursor when it deletes f at the cursor:  *)
(* on f's successor in the bin, or at the end of the bin.                  *)
AfterDel(map, f) ==
  LET bin  == {g \in Flow : BinOf[g] = BinOf[f]}
      succ == {g \in bin : g > f /\ map[g] # Absent}
  IN  IF succ # {} THEN Min(succ) ELSE Max(bin)

(* ht_kfs_vi_del on the level map of the active buffer finds f under the   *)
(* cursor of cond's iteration, which it is then to move.                   *)
AtCursor(f, l) ==
  /\ cond.pc \in {"plus", "copy"} /\ cond.level_map = Active
  /\ cursor = f /\ flow_selected_level_map[active_idx][f] # Absent /\ l = Absent

(* ht_kfs_vi_set or ht_kfs_vi_del on the level map of the active buffer,   *)
(* whose pointer is fetched anew.                                          *)
SetLevel(f, l) ==
  /\ flow_selected_level_map' =
       Store(flow_selected_level_map, "level", Active, f, l)
  /\ raced' = (raced \/ /\ l # flow_selected_level_map[active_idx][f]
                        /\ cond.pc \notin {"wait", "dw"})

(* The write of the cursor that ends a ht_kfs_vi_del in the map p: to f's  *)
(* successor if the iteration has not moved; if it has gone on to another  *)
(* bin, which it does under the mutex of that bin, f was the last of its   *)
(* own, and the NULL that is written makes it skip the rest of the other.  *)
MoveCursor(p, f) ==
  cursor' =
    IF cond.pc \notin {"plus", "copy"} \/ cond.level_map # p \/ cursor = 0
    THEN cursor
    ELSE IF cursor = f THEN AfterDel(flow_selected_level_map[p.idx], f)
         ELSE Max({g \in Flow : BinOf[g] = BinOf[cursor]})
-----------------------------------------------------------------------------
(* cm_handle_ipv4_packet(): the next packet belongs to f; for a flow of    *)
(* interest the level map is fetched.                                      *)
TakePacket(f) ==
  /\ main.pc = "idle"
  /\ SumFunction(accounted) < MaxPackets
  /\ main' = [main EXCEPT !.flow = f,
                !.pc = IF f \in setting.monitored THEN "sample" ELSE "lock",
                !.level_map = IF f \in setting.monitored THEN Active ELSE NoPtr]
  /\ UNCHANGED <<maps, levels, buffers, totals, conditions, locks, history,
                 updator, cond, rotator>>

(* Hosts that leave sampling to the switches do not look at the level. *)
LeaveSampling ==
  /\ main.pc = "sample" /\ setting.conditions = "switch"
  /\ main' = [main EXCEPT !.pc = "lock", !.level_map = NoPtr]
  /\ UNCHANGED <<maps, levels, buffers, totals, conditions, locks, history,
                 updator, cond, rotator>>

(* Mutant of SampleAlways: a selected flow is sampled like any other. *)
SampleAlwaysNever(l) == FALSE

(* A packet of a selected flow is always sampled. *)
SampleAlways(l) == l > NO_SELECTED_LEVEL

(* Any other packet is sampled if its flow is in the sample map, or at     *)
(* random, and then enters the sample map.  The first sampled packet of a  *)
(* flow fixes its not-sampled volume (update_flow_not_sampled_volume).     *)
(* These maps are fetched and used in one step; the level map is not, its  *)
(* pointer is the one of TakePacket.                                       *)
SamplePacket ==
  LET f == main.flow
  IN  /\ main.pc = "sample" /\ setting.conditions # "switch"
      /\ \E l \in Reads(flow_selected_level_map, "level", main.level_map, f),
            held \in Reads(flow_sample_map, "sample", Active, f),
            skipped \in Reads(flow_not_sampled_volume_map, "not_sampled", Active, f),
            volume \in Reads(flow_volume_map, "volume", Active, f),
            drawn \in BOOLEAN :
           LET selected == SampleAlways(l)
               sampled  == selected \/ held >= 0 \/ drawn
           IN  /\ flow_sample_map' =
                    IF sampled /\ ~ selected /\ held < 0
                    THEN Store(flow_sample_map, "sample", Active, f, 1)
                    ELSE flow_sample_map
               /\ flow_not_sampled_volume_map' =
                    IF sampled /\ skipped < 0
                    THEN Store(flow_not_sampled_volume_map, "not_sampled",
                               Active, f, OrZero(volume))
                    ELSE flow_not_sampled_volume_map
               /\ main' = IF setting.conditions = "tag"
                           THEN [main EXCEPT !.pc = "tag", !.sampled = sampled]
                           ELSE [main EXCEPT !.pc = "lock", !.sampled = sampled,
                                             !.level_map = NoPtr]
      /\ UNCHANGED <<flow_volume_map, fixed_flow_loss_volume_map,
                     flow_loss_volume_map, flow_loss_rate_map, levels, buffers,
                     totals, conditions, locks, history, updator, cond, rotator>>

(* The level is read a second time, through the same pointer, for the tag. *)
TagPacket ==
  /\ main.pc = "tag"
  /\ \E l \in Reads(flow_selected_level_map, "level", main.level_map, main.flow) :
       main' = [main EXCEPT !.pc = "lock", !.level_map = NoPtr,
                  !.tag = IF l > NO_SELECTED_LEVEL THEN l ELSE NO_SELECTED_LEVEL]
  /\ UNCHANGED <<maps, levels, buffers, totals, conditions, locks, history,
                 updator, cond, rotator>>

(* update_flow_normal_volume(): lock the bin and fetch the first map, ... *)
NormalLock ==
  /\ main.pc = "lock"
  /\ mutexs[BinOf[main.flow]] = Free
  /\ mutexs' = [mutexs EXCEPT ![BinOf[main.flow]] = "main"]
  /\ main' = [main EXCEPT !.pc = "fetch", !.volume_map = Active]
  /\ UNCHANGED <<maps, levels, buffers, totals, conditions, packet_send_mutex,
                 data_warehouse_mutex, history, updator, cond, rotator>>

(* ... fetch the other maps, ... *)
NormalFetch ==
  /\ main.pc = "fetch"
  /\ main' = [main EXCEPT !.pc = "update", !.other_maps = Active]
  /\ UNCHANGED <<maps, levels, buffers, totals, conditions, locks, history,
                 updator, cond, rotator>>

(* ... add the packet and set the loss rate, with the loss volume of the   *)
(* map of fixed size, 0 if it is not there, or else the exact one, ...     *)
NormalUpdate ==
  LET f == main.flow
  IN  /\ main.pc = "update"
      /\ \E old \in Reads(flow_volume_map, "volume", main.volume_map, f),
            loss \in IF setting.loss_map_mem_type = "FIXED"
                     THEN Reads(fixed_flow_loss_volume_map, "fixed",
                                main.other_maps, f)
                     ELSE Reads(flow_loss_volume_map, "loss",
                                main.other_maps, f) :
           LET v == OrZero(old) + 1
               l == OrZero(loss)
           IN  /\ flow_volume_map' =
                    Store(flow_volume_map, "volume", main.volume_map, f, v)
               /\ flow_loss_rate_map' =
                    Store(flow_loss_rate_map, "rate", main.other_maps, f, <<l, v>>)
               /\ main' = [main EXCEPT !.pc = "level", !.volume = v, !.loss = l,
                             !.volume_map = NoPtr, !.other_maps = NoPtr]
      /\ UNCHANGED <<fixed_flow_loss_volume_map, flow_loss_volume_map,
                     flow_sample_map, flow_not_sampled_volume_map, levels,
                     buffers, totals, conditions, locks, history, updator, cond,
                     rotator>>

(* ... set the flow's level and unlock the bin, ... *)
NormalLevel ==
  LET l == LevelOf(main.volume, main.loss)
  IN  /\ main.pc = "level"
      /\ SetLevel(main.flow, l)
      /\ \/ /\ AtCursor(main.flow, l)
            /\ main' = [main EXCEPT !.pc = "cursor", !.other_maps = Active]
            /\ UNCHANGED mutexs
         \/ /\ ~ AtCursor(main.flow, l)
            /\ mutexs' = [mutexs EXCEPT ![BinOf[main.flow]] = Free]
            /\ main' = [main EXCEPT !.pc = "count", !.volume = 0, !.loss = 0]
      /\ UNCHANGED <<maps, cursor, buffers, totals, conditions, packet_send_mutex,
                     data_warehouse_mutex, history, updator, cond, rotator>>

(* ... having moved the cursor off the entry that was deleted. *)
NormalCursor ==
  /\ main.pc = "cursor"
  /\ MoveCursor(main.other_maps, main.flow)
  /\ mutexs' = [mutexs EXCEPT ![BinOf[main.flow]] = Free]
  /\ main' = [main EXCEPT !.pc = "count", !.volume = 0, !.loss = 0,
                          !.other_maps = NoPtr]
  /\ UNCHANGED <<maps, flow_selected_level_map, raced, buffers, totals,
                 conditions, packet_send_mutex, data_warehouse_mutex, history,
                 updator, cond, rotator>>

(* The sent counters of the active buffer are read ... *)
CountRead ==
  /\ main.pc = "count"
  /\ main' = [main EXCEPT !.pc = "add", !.idx = active_idx,
                          !.total = volume_sent[active_idx]]
  /\ UNCHANGED <<maps, levels, buffers, totals, conditions, locks, history,
                 updator, cond, rotator>>

(* ... and written back. *)
CountWrite ==
  /\ main.pc = "add"
  /\ volume_sent' = [volume_sent EXCEPT ![main.idx] = main.total + 1]
  /\ main' = [main EXCEPT !.pc = "send", !.idx = 0, !.total = 0]
  /\ UNCHANGED <<maps, levels, buffers, volume_lost, condition_pkt_num_sent,
                 conditions, locks, history, updator, cond, rotator>>

(* send_packets(): the packet is sent under packet_send_mutex. *)
SendPacket ==
  /\ main.pc = "send"
  /\ packet_send_mutex = Free
  /\ accounted' = [accounted EXCEPT ![main.flow] = @ + 1]
  /\ main' = MainIdle
  /\ UNCHANGED <<maps, levels, buffers, totals, conditions, locks, fatal,
                 reported, alloc_failed, updator, cond, rotator>>
-----------------------------------------------------------------------------
(* flow_infor_update(): n more lost packets of f are reported.  A loss is  *)
(* seen only when a later packet of its 5-tuple has arrived, so fewer      *)
(* packets are lost than were sent.                                        *)
ReportLoss(f, n) ==
  /\ updator.pc = "read"
  /\ reported[f] + n < accounted[f]
  /\ reported' = [reported EXCEPT ![f] = @ + n]
  /\ updator' = [updator EXCEPT !.pc = "lock", !.flow = f, !.lost = n]
  /\ UNCHANGED <<maps, levels, buffers, totals, conditions, locks, fatal,
                 accounted, alloc_failed, main, cond, rotator>>

(* Mutant of LossLock: update_flow_loss_volume takes no mutex. *)
LossLockNone ==
  /\ updator.pc = "lock"
  /\ updator' = [updator EXCEPT !.pc = "fetch", !.volume_map = Active]
  /\ UNCHANGED <<maps, levels, buffers, totals, conditions, locks, history,
                 main, cond, rotator>>

(* update_flow_loss_volume(): lock the bin and fetch the first map, ... *)
LossLock ==
  /\ updator.pc = "lock"
  /\ mutexs[BinOf[updator.flow]] = Free
  /\ mutexs' = [mutexs EXCEPT ![BinOf[updator.flow]] = "updator"]
  /\ updator' = [updator EXCEPT !.pc = "fetch", !.volume_map = Active]
  /\ UNCHANGED <<maps, levels, buffers, totals, conditions, packet_send_mutex,
                 data_warehouse_mutex, history, main, cond, rotator>>

(* ... fetch the other maps and read volume_lost, ... *)
LossFetch ==
  /\ updator.pc = "fetch"
  /\ updator' = [updator EXCEPT !.pc = "add", !.other_maps = Active,
                   !.idx = active_idx, !.total = volume_lost[active_idx]]
  /\ UNCHANGED <<maps, levels, buffers, totals, conditions, locks, history,
                 main, cond, rotator>>

(* ... write it back, ... *)
LossCount ==
  /\ updator.pc = "add"
  /\ volume_lost' = [volume_lost EXCEPT ![updator.idx] =
                       updator.total + updator.lost]
  /\ updator' = [updator EXCEPT !.pc = "update", !.idx = 0, !.total = 0]
  /\ UNCHANGED <<maps, levels, buffers, volume_sent, condition_pkt_num_sent,
                 conditions, locks, history, main, cond, rotator>>

(* Mutant of FixedOutcomes: the key of the entry is not compared. *)
FixedOutcomesAnyKey(map, f, n) ==
  LET held == {g \in Flow : FixedBinOf[g] = FixedBinOf[f] /\ map[g] # Absent}
  IN  IF held # {} THEN {map[g] + n : g \in held} ELSE {Absent, n}

(* sample_packet_fixSize_map_sender() and ht_kfs_fixSize_add_value(): what *)
(* a map of fixed size may hold for f after n more losses.  A flow that is *)
(* held counts them all; another one enters an empty bucket if it is drawn *)
(* and an entry can be allocated; a bucket is not taken from its flow.     *)
FixedOutcomes(map, f, n) ==
  IF map[f] > 0 THEN {map[f] + n}
  ELSE IF \E g \in Flow : FixedBinOf[g] = FixedBinOf[f] /\ map[g] # Absent
       THEN {map[f]}
       ELSE {Absent, n}

(* The outcomes for the updator: none to choose from when the map is not   *)
(* in use, anything when it has been destroyed.                            *)
FixedViews ==
  LET p == updator.other_maps
  IN  IF setting.loss_map_mem_type # "FIXED" THEN {Absent}
      ELSE IF Valid("fixed", p)
           THEN FixedOutcomes(fixed_flow_loss_volume_map[p.idx], updator.flow,
                              updator.lost)
           ELSE Absent .. MaxPackets

(* ... give up on a flow that has no volume, or add the loss and set the   *)
(* loss rate, ...                                                          *)
LossUpdate ==
  LET f == updator.flow
  IN  /\ updator.pc = "update"
      /\ \E v \in Reads(flow_volume_map, "volume", updator.volume_map, f),
            old \in Reads(flow_loss_volume_map, "loss", updator.other_maps, f),
            kept \in FixedViews :
           \/ /\ v < 0
              /\ fatal' = TRUE
              /\ mutexs' = [mutexs EXCEPT ![BinOf[f]] = Free]
              /\ updator' = UpdatorIdle
              /\ UNCHANGED <<fixed_flow_loss_volume_map, flow_loss_volume_map,
                             flow_loss_rate_map>>
           \/ LET fixed == setting.loss_map_mem_type = "FIXED"
                  exact == OrZero(old) + updator.lost
                  l     == IF fixed THEN OrZero(kept) ELSE exact
              IN  /\ v >= 0
                  /\ flow_loss_volume_map' =
                       Store(flow_loss_volume_map, "loss", updator.other_maps, f,
                             exact)
                  /\ fixed_flow_loss_volume_map' =
                       IF fixed THEN Store(fixed_flow_loss_volume_map, "fixed",
                                           updator.other_maps, f, kept)
                       ELSE fixed_flow_loss_volume_map
                  /\ flow_loss_rate_map' =
                       Store(flow_loss_rate_map, "rate", updator.other_maps, f,
                             <<l, v>>)
                  /\ updator' = [updator EXCEPT !.pc = "level", !.volume = v,
                                   !.loss = l, !.volume_map = NoPtr,
                                   !.other_maps = NoPtr]
                  /\ UNCHANGED <<fatal, mutexs>>
      /\ UNCHANGED <<flow_volume_map, flow_sample_map,
                     flow_not_sampled_volume_map, levels, buffers, totals,
                     conditions, packet_send_mutex, data_warehouse_mutex,
                     accounted, reported, alloc_failed, main, cond, rotator>>

(* ... set the flow's level and unlock the bin.  A further loss does not   *)
(* deselect a flow, so that no time passes here between a deletion under   *)
(* the cursor and the write of the cursor.                                 *)
LossLevel ==
  LET f == updator.flow
      l == LevelOf(updator.volume, updator.loss)
  IN  /\ updator.pc = "level"
      /\ SetLevel(f, l)
      /\ IF AtCursor(f, l) THEN MoveCursor(Active, f) ELSE UNCHANGED cursor
      /\ mutexs' = [mutexs EXCEPT ![BinOf[f]] = Free]
      /\ updator' = UpdatorIdle
      /\ main' = [main EXCEPT !.moved = @ \/ (main.pc = "tag" /\ main.flow = f)]
      /\ UNCHANGED <<maps, buffers, totals, conditions, packet_send_mutex,
                     data_warehouse_mutex, history, cond, rotator>>
-----------------------------------------------------------------------------
(* What an iteration over the level map, or over the map of what was last  *)
(* sent, may find there.                                                   *)
LevelViews ==
  IF Valid("level", cond.level_map)
  THEN {flow_selected_level_map[cond.level_map.idx]}
  ELSE [Flow -> {Absent, SELECTED_LEVEL, TARGET_LEVEL}]
LastViews ==
  IF last_exists THEN {last_sent_flow_selected_level_map}
  ELSE [Flow -> {Absent, SELECTED_LEVEL, TARGET_LEVEL}]

(* ht_kfs_vi_next(): the flows of the map that are still to be visited. *)
ToVisit(map) == {f \in Flow : f > cursor /\ map[f] # Absent}

(* It waits for the mutex of a bin in which a ht_kfs_vi_del has yet to     *)
(* move the cursor, unless it had left that bin already, having found no   *)
(* further flow there, and was about to go on to the next one.  (A flow    *)
(* that enters the bin just then is the matter of FlowHashTable.)          *)
NextWaits(map) ==
  LET b == BinOf[main.flow]
  IN  /\ main.pc = "cursor" /\ main.other_maps = cond.level_map
      /\ ToVisit(map) # {} => b <= BinOf[Min(ToVisit(map))]
      /\ IF cursor = main.flow
         THEN ToVisit(map) # {} /\ BinOf[Min(ToVisit(map))] = b
         ELSE cursor = 0 \/ BinOf[cursor] <= b

(* send_condition_to_network(): a round begins with packet_send_mutex ... *)
CondLockSend ==
  /\ cond.pc = "wait" /\ setting.conditions = "inject"
  /\ packet_send_mutex = Free
  /\ packet_send_mutex' = "cond"
  /\ cond' = [cond EXCEPT !.pc = "dw"]
  /\ UNCHANGED <<maps, levels, buffers, totals, conditions, mutexs,
                 data_warehouse_mutex, history, main, updator, rotator>>

(* Mutant of CondLockWarehouse: the round does not wait for the rotator. *)
CondLockNone ==
  /\ cond.pc = "dw"
  /\ cond' = [pc |-> "plus", level_map |-> Active]
  /\ UNCHANGED <<maps, levels, buffers, totals, conditions, locks, history,
                 main, updator, rotator>>

(* ... and data_warehouse_mutex. *)
CondLockWarehouse ==
  /\ cond.pc = "dw"
  /\ data_warehouse_mutex = Free
  /\ data_warehouse_mutex' = "cond"
  /\ cond' = [pc |-> "plus", level_map |-> Active]
  /\ UNCHANGED <<maps, levels, buffers, totals, conditions, mutexs,
                 packet_send_mutex, history, main, updator, rotator>>

(* A condition packet tells the switches the level of f; when it cannot be *)
(* sent, send_udp_condition_pkt returns -1 and its callers go on as if it  *)
(* had been.                                                               *)
SendCondition(f, l) ==
  /\ \/ told' = [told EXCEPT ![f] = l] /\ untold' = untold \ {f}
     \/ UNCHANGED told /\ untold' = untold \cup {f}
  /\ condition_pkt_num_sent' = [condition_pkt_num_sent EXCEPT ![active_idx] = @ + 1]

(* 1. A flow whose level differs from the one last sent is sent. *)
PlusNeeded(pre, l) == pre # l

CondPlus ==
  /\ cond.pc = "plus"
  /\ \E map \in LevelViews, last \in LastViews : ~ NextWaits(map) /\
       \/ /\ ToVisit(map) # {}
          /\ LET f == Min(ToVisit(map))
             IN  /\ cursor' = f
                 /\ IF PlusNeeded(last[f], map[f])
                    THEN SendCondition(f, map[f])
                    ELSE UNCHANGED <<told, untold, condition_pkt_num_sent>>
          /\ UNCHANGED cond
       \/ /\ ToVisit(map) = {}
          /\ cursor' = 0
          /\ cond' = [cond EXCEPT !.pc = "minus"]
          /\ UNCHANGED <<told, untold, condition_pkt_num_sent>>
  /\ UNCHANGED <<maps, flow_selected_level_map, raced, buffers, volume_sent,
                 volume_lost, last_sent_flow_selected_level_map, last_exists,
                 locks, history, main, updator, rotator>>

(* Mutant of MinusNeeded: a flow that is selected no more is not sent. *)
MinusNeededNever(l) == FALSE

(* 2. A flow last sent that is selected no more is sent. *)
MinusNeeded(l) == l <= 0

CondMinus ==
  /\ cond.pc = "minus"
  /\ \E map \in LevelViews, last \in LastViews :
       \/ /\ ToVisit(last) # {}
          /\ LET f == Min(ToVisit(last))
             IN  /\ cursor' = f
                 /\ IF MinusNeeded(map[f])
                    THEN SendCondition(f, NO_SELECTED_LEVEL)
                    ELSE UNCHANGED <<told, untold, condition_pkt_num_sent>>
          /\ UNCHANGED cond
       \/ /\ ToVisit(last) = {}
          /\ cursor' = 0
          /\ cond' = [cond EXCEPT !.pc = "renew"]
          /\ UNCHANGED <<told, untold, condition_pkt_num_sent>>
  /\ UNCHANGED <<maps, flow_selected_level_map, raced, buffers, volume_sent,
                 volume_lost, last_sent_flow_selected_level_map, last_exists,
                 locks, history, main, updator, rotator>>

(* 3. The map of what was last sent is destroyed and created anew; when    *)
(* that fails the thread ends, with both mutexes locked.                   *)
CondRenew ==
  /\ cond.pc = "renew"
  /\ last_sent_flow_selected_level_map' = EmptyMap(Absent)
  /\ \/ /\ last_exists' = TRUE
        /\ cond' = [cond EXCEPT !.pc = "copy"]
        /\ UNCHANGED alloc_failed
     \/ /\ AllocFails /\ alloc_failed' = TRUE
        /\ last_exists' = FALSE
        /\ cond' = [cond EXCEPT !.pc = "ended"]
  /\ UNCHANGED <<maps, levels, buffers, totals, told, untold, locks, fatal,
                 accounted, reported, main, updator, rotator>>

(* The level map is copied into it. *)
CondCopy ==
  /\ cond.pc = "copy"
  /\ \E map \in LevelViews :
       /\ ToVisit(map) # {} /\ ~ NextWaits(map)
       /\ LET f == Min(ToVisit(map))
          IN  /\ cursor' = f
              /\ last_sent_flow_selected_level_map' =
                   [last_sent_flow_selected_level_map EXCEPT ![f] = map[f]]
  /\ UNCHANGED <<maps, flow_selected_level_map, raced, buffers, totals, told,
                 untold, last_exists, locks, history, main, updator, cond, rotator>>

(* Mutant of CondUnlock: packet_send_mutex stays locked. *)
CondUnlockOne ==
  /\ data_warehouse_mutex' = Free
  /\ UNCHANGED packet_send_mutex

(* The round ends. *)
CondUnlock ==
  /\ data_warehouse_mutex' = Free
  /\ packet_send_mutex' = Free

CondEnd ==
  /\ cond.pc = "copy"
  /\ \E map \in LevelViews : ToVisit(map) = {} /\ ~ NextWaits(map)
  /\ cursor' = 0
  /\ CondUnlock
  /\ cond' = [pc |-> "wait", level_map |-> NoPtr]
  /\ UNCHANGED <<maps, flow_selected_level_map, raced, buffers, totals,
                 conditions, mutexs, history, main, updator, rotator>>
-----------------------------------------------------------------------------
(* rotate_interval(): under data_warehouse_mutex the other buffer becomes  *)
(* the active one, ...                                                     *)
Rotate ==
  /\ rotator = "sleep"
  /\ rotations < MaxRotations
  /\ data_warehouse_mutex = Free
  /\ data_warehouse_mutex' = "rotator"
  /\ active_idx' = Inactive
  /\ rotations' = rotations + 1
  /\ rotator' = "write"
  /\ UNCHANGED <<maps, levels, setting, gen, exists, totals, conditions, mutexs,
                 packet_send_mutex, history, main, updator, cond>>

(* ... the old one is written to the target flow file, ... *)
WriteInterval ==
  /\ rotator = "write"
  /\ rotator' = "destroy"
  /\ UNCHANGED <<maps, levels, buffers, totals, conditions, locks, history,
                 main, updator, cond>>

(* ... data_warehouse_reset_noactive_buf() destroys its maps, and the map  *)
(* of what was last sent, ...                                              *)
DestroyMaps ==
  /\ rotator = "destroy"
  /\ gen' = [gen EXCEPT ![Inactive] = @ + 1]
  /\ exists' = [exists EXCEPT ![Inactive] = {}]
  /\ last_exists' = FALSE
  /\ rotator' = "create"
  /\ UNCHANGED <<setting, active_idx, rotations, maps, levels, totals,
                 last_sent_flow_selected_level_map, told, untold, locks, history,
                 main, updator, cond>>

(* ... creates them anew, up to the first one that cannot be created, and  *)
(* resets the counters.                                                    *)
CreateMaps ==
  LET b == Inactive
  IN  /\ rotator = "create"
      /\ \E k \in 0 .. 8 :
           /\ k < 8 => AllocFails
           /\ exists' = [exists EXCEPT ![b] = {Kinds[i] : i \in {j \in 1 .. 7 : j <= k}}]
           /\ last_exists' = (k = 8)
           /\ alloc_failed' = (alloc_failed \/ k < 8)
           /\ IF k = 8
              THEN /\ volume_sent' = [volume_sent EXCEPT ![b] = 0]
                   /\ volume_lost' = [volume_lost EXCEPT ![b] = 0]
                   /\ condition_pkt_num_sent' =
                        [condition_pkt_num_sent EXCEPT ![b] = 0]
              ELSE UNCHANGED totals
      /\ flow_volume_map' = [flow_volume_map EXCEPT ![b] = EmptyMap(Absent)]
      /\ fixed_flow_loss_volume_map' =
           [fixed_flow_loss_volume_map EXCEPT ![b] = EmptyMap(Absent)]
      /\ flow_loss_volume_map' =
           [flow_loss_volume_map EXCEPT ![b] = EmptyMap(Absent)]
      /\ flow_loss_rate_map' = [flow_loss_rate_map EXCEPT ![b] = EmptyMap(NoRate)]
      /\ flow_selected_level_map' =
           [flow_selected_level_map EXCEPT ![b] = EmptyMap(Absent)]
      /\ flow_sample_map' = [flow_sample_map EXCEPT ![b] = EmptyMap(Absent)]
      /\ flow_not_sampled_volume_map' =
           [flow_not_sampled_volume_map EXCEPT ![b] = EmptyMap(Absent)]
      /\ last_sent_flow_selected_level_map' = EmptyMap(Absent)
      /\ data_warehouse_mutex' = Free
      /\ rotator' = "sleep"
      /\ UNCHANGED <<setting, active_idx, gen, rotations, cursor, raced, told, untold,
                     mutexs, packet_send_mutex, fatal, accounted, reported, main,
                     updator, cond>>
-----------------------------------------------------------------------------
Main ==
  \/ \E f \in Flow : TakePacket(f)
  \/ LeaveSampling \/ SamplePacket \/ TagPacket
  \/ NormalLock \/ NormalFetch \/ NormalUpdate \/ NormalLevel \/ NormalCursor
  \/ CountRead \/ CountWrite \/ SendPacket
Updator ==
  \/ \E f \in Flow : \E n \in 1 .. MaxPackets : ReportLoss(f, n)
  \/ LossLock \/ LossFetch \/ LossCount \/ LossUpdate \/ LossLevel
Cond ==
  \/ CondLockSend \/ CondLockWarehouse
  \/ CondPlus \/ CondMinus \/ CondRenew \/ CondCopy \/ CondEnd
Rotator == Rotate \/ WriteInterval \/ DestroyMaps \/ CreateMaps

Next == Main \/ Updator \/ Cond \/ Rotator
Spec == Init /\ [][Next]_vars

(* Every thread goes on while it can; packets, losses and rotations need   *)
(* not come.  packet_send_mutex is taken again and again by cond, and main *)
(* gets it when it is released often enough; the other mutexes are taken   *)
(* as often as there are packets, losses and rotations, that is finitely   *)
(* often here, so that those who wait for them need no more than that.     *)
FairSpec ==
  /\ Spec
  /\ WF_vars(Main /\ main.pc # "idle") /\ SF_vars(SendPacket)
  /\ WF_vars(Updator /\ updator.pc # "read")
  /\ WF_vars(Cond)
  /\ WF_vars(Rotator /\ rotator # "sleep")
-----------------------------------------------------------------------------
Pointer == [idx : Buffer, gen : Nat \cup {-1}]
Value == Nat \cup {Absent}
Amount == (Nat \ {0}) \cup {Absent}
Levels == {Absent, SELECTED_LEVEL, TARGET_LEVEL}

BufferType ==
  /\ setting \in Settings /\ active_idx \in Buffer /\ rotations \in Nat
  /\ gen \in [Buffer -> Nat] /\ exists \in [Buffer -> SUBSET AllKinds]
MapType ==
  /\ flow_volume_map \in [Buffer -> [Flow -> Amount]]
  /\ fixed_flow_loss_volume_map \in [Buffer -> [Flow -> Amount]]
  /\ flow_loss_volume_map \in [Buffer -> [Flow -> Amount]]
  /\ flow_loss_rate_map \in [Buffer -> [Flow -> Value \X Value]]
  /\ flow_sample_map \in [Buffer -> [Flow -> {Absent, 1}]]
  /\ flow_not_sampled_volume_map \in [Buffer -> [Flow -> Value]]
LevelType ==
  /\ flow_selected_level_map \in [Buffer -> [Flow -> Levels]]
  /\ last_sent_flow_selected_level_map \in [Flow -> Levels]
  /\ last_exists \in BOOLEAN
  /\ cursor \in 0 .. N
CountType ==
  /\ volume_sent \in [Buffer -> Nat] /\ volume_lost \in [Buffer -> Nat]
  /\ condition_pkt_num_sent \in [Buffer -> Nat]
LockType ==
  /\ mutexs \in [Bins -> {Free, "main", "updator"}]
  /\ packet_send_mutex \in {Free, "cond"}
  /\ data_warehouse_mutex \in {Free, "cond", "rotator"}
ThreadType ==
  /\ main \in [pc : {"idle", "sample", "tag", "lock", "fetch", "update", "level",
                     "cursor", "count", "add", "send"},
               flow : 0 .. N, level_map : Pointer, volume_map : Pointer,
               other_maps : Pointer, volume : Nat, loss : Nat, idx : Buffer,
               total : Nat, sampled : BOOLEAN, tag : Nat, moved : BOOLEAN]
  /\ updator \in [pc : {"read", "lock", "fetch", "add", "update", "level"},
                  flow : 0 .. N, lost : Nat, volume_map : Pointer,
                  other_maps : Pointer, volume : Nat, loss : Nat, idx : Buffer,
                  total : Nat]
  /\ cond \in [pc : {"wait", "dw", "plus", "minus", "renew", "copy", "ended"},
               level_map : Pointer]
  /\ rotator \in {"sleep", "write", "destroy", "create"}
HistoryType ==
  /\ fatal \in BOOLEAN /\ raced \in BOOLEAN /\ alloc_failed \in BOOLEAN
  /\ accounted \in [Flow -> Nat] /\ reported \in [Flow -> Nat]
  /\ untold \subseteq Flow
  /\ told \in [Flow -> {NO_SELECTED_LEVEL, SELECTED_LEVEL, TARGET_LEVEL}]

TypeOK ==
  /\ BufferType /\ MapType /\ LevelType /\ CountType /\ LockType
  /\ ThreadType /\ HistoryType

(* The loss volume the levels of buffer 0 are to follow. *)
LossMap == IF setting.loss_map_mem_type = "FIXED"
           THEN fixed_flow_loss_volume_map[0] ELSE flow_loss_volume_map[0]

(* Until the first rotation, whenever no thread is updating a flow, its    *)
(* loss rate and its selected level are those of its current volume and    *)
(* loss volume, although two threads compute them from values they read    *)
(* one after the other.                                                    *)
LevelsMatchLosses ==
  \A f \in Flow :
    (rotations = 0 /\ mutexs[BinOf[f]] = Free) =>
      LET volume == flow_volume_map[0][f]
          loss   == OrZero(LossMap[f])
      IN  IF volume = Absent
          THEN /\ flow_loss_rate_map[0][f] = NoRate
               /\ flow_selected_level_map[0][f] = Absent
          ELSE /\ flow_loss_rate_map[0][f] = <<loss, volume>>
               /\ flow_selected_level_map[0][f] = LevelOf(volume, loss)

(* Until the first rotation the levels never say more than the losses that *)
(* were reported: a flow in the map of fixed size has lost at least what   *)
(* is counted there, whatever flows it shares its bucket with.             *)
FixedNeverOverselects ==
  \A f \in Flow :
    (rotations = 0 /\ mutexs[BinOf[f]] = Free) =>
      flow_selected_level_map[0][f] <=
        LevelOf(OrZero(flow_volume_map[0][f]), reported[f])

(* Until the first rotation a reported loss finds the volume of its flow:  *)
(* the FATAL message of update_flow_loss_volume is not printed, since a    *)
(* packet is accounted before it is sent.                                  *)
LossFindsVolume == rotations = 0 => ~ fatal

(* Until the first rotation a packet that carries a selected level is      *)
(* marked as sampled, unless the updator changed the level between the two *)
(* reads of cm_handle_ipv4_packet.                                         *)
TaggedIsSampled ==
  (rotations = 0 /\ main.tag # NO_SELECTED_LEVEL) => main.sampled \/ main.moved

(* A round of condition packets works from beginning to end on the level   *)
(* map of the active buffer and on the map of what was last sent, and both *)
(* exist if they could be created: the rotator does not destroy them ("in  *)
(* order to avoid IntervalRotator thread destory the data").               *)
RoundKeepsItsMaps ==
  cond.pc \in {"plus", "minus", "renew", "copy"} =>
    /\ cond.level_map = Active
    /\ ~ alloc_failed => Valid("level", Active) /\ last_exists

(* A sender that injects condition packets lets the switches know in the   *)
(* end the level of every flow, unless a level has changed during a round; *)
(* a flow whose last condition packet could not be sent is excepted, as    *)
(* send_condition_to_network does not notice and sends it again only when  *)
(* its level changes once more.                                            *)
SwitchesLearnLevels ==
  \/ setting.conditions # "inject"
  \/ <>[]raced
  \/ <>[](\A f \in Flow \ untold :
            told[f] = OrZero(flow_selected_level_map[0][f]))

(* The main thread always gets to send its packet: rounds of condition     *)
(* packets and rotations end and release their mutexes, although main and  *)
(* the updator change the level map and the cursor meanwhile, also behind  *)
(* its back; unless a round has ended for want of memory with              *)
(* packet_send_mutex locked (condition_sender.c, line 202).                *)
MainSends == main.pc = "send" ~> (main.pc = "idle" \/ cond.pc = "ended")
-----------------------------------------------------------------------------
(* No thread keeps a pointer into a buffer that has been reset: the reset  *)
(* comes "after non-active buffer is useless" (data_warehouse.h).          *)
ResetBufferIsUseless ==
  \A p \in {main.level_map, main.volume_map, main.other_maps,
            updator.volume_map, updator.other_maps} :
    p = NoPtr \/ gen[p.idx] = p.gen

(* What the sender remembers to have sent is what the switches were told:  *)
(* a flow "not sent last time" is sent (condition_sender.c).  Flows whose  *)
(* condition packet could not be sent are left aside.                      *)
RemembersWhatItSent ==
  cond.pc = "wait" =>
    \A f \in Flow \ untold : told[f] = OrZero(last_sent_flow_selected_level_map[f])
=============================================================================
