# A verification project for the CM testbed

The repository is a network measurement testbed. On every mininet host a modified
tcpreplay replays a trace and keeps, per source flow, how much it sent and how
much of it was lost; it selects the flows whose loss matters and tells the switches
about them with "condition packets". A receiver on every host reports what arrived
back to the sending host. This directory holds TLA+ models of the testbed's own
code, TLC runs that check them on small instances, and TLAPS proofs.

`PROJECT.json` is the index: components, runs, the source lines every definition
models, mutants, findings, hazards and theorems.

To repeat the checks, in this directory:

    tlc -workers 2 -config FlowHashTable_map.cfg MCFlowHashTable
    tlapm FlowHashTable_proofs.tla

## 1. Inventory

### Processes and threads

| who | code | what it does |
|---|---|---|
| sender, main thread | `send_packets.c`: `send_packets`, `cm_handle_ipv4_packet` | takes a packet from the trace, records it, samples and tags it, adds its volume, sends it |
| sender, updator thread | `flow_infor_updator.c` | reads reports from the sender's FIFO, works out which packets were lost, adds the loss |
| sender, condition thread | `condition_sender.c` | every round: sends the changes of the level map to the switches |
| sender, rotator thread | `interval_rotator.c` | every interval: swaps the two buffers, writes the old one to a file, resets it |
| receiver | `receiverSendReceFlowSeqid.c` | captures packets, reports those of other hosts into the FIFO of their sender |
| switches | not in the repository | forward or drop packets, take note of condition packets |
| sender, main thread at start and end | `tcpreplay.c` | reads the setting, initialises, starts the threads, replays, joins, destroys |
| trace generator | `pcapFileGenerator/` | offline: maps addresses to hosts, numbers the packets of a source, writes one file per sender |

### Components, their state and what makes them correct

| component | state | operations | correct when |
|---|---|---|---|
| flow hash tables `mt_hashtable_kFlowSrc_vInt/vFloat.c` | sorted chains per bin, a mutex per bin, one cursor for iteration | create, destory, get, set, del, next | a linearizable map; an iteration returns what is there, once, and ends; no use after free |
| packet lists `mt_hashtable_kFlow_vLinklist.c` | per 5-tuple a list of recorded packets, `oldest_pkt`, `newest_pkt` | `ht_vl_set`, `ht_vl_get_rece_lost_volume` | each packet becomes received or lost, once |
| FIFOs `multi_write_one_read_fifo.c`, `senderFIFOsManager.c` | one named pipe per sender | blocking write of a whole report, read | reports reach the right sender, in the order written |
| data warehouse `data_warehouse.c` | two buffers of maps and counters, `active_idx`, a mutex per bin, `data_warehouse_mutex`, `packet_send_mutex`, the map of levels last sent | update functions, rotate, reset | volume, loss, rate and level of a flow agree; no thread uses a buffer that has been reset |
| condition sender | the cursor of the maps it iterates | one round of three passes | the switches know the level of every flow |
| interval rotator | - | rotate, write, reset, sleep | an interval's data is complete when written |
| packet handler | locals of one packet | sample, tag, account, send | a selected flow is sampled; a packet is accounted for before it can be reported |
| sampling `sample_packet.c` | sample map | sample and hold | a sampled flow stays sampled |
| fixed-size table `mt_hashtable_kFlowSrc_fixsize.c` | one entry per bucket with value and level, shared mutexes, a cursor, a collision counter | get, add, add with level, set level, del, next, refresh | a cache with exact counts that gives a bucket away by priority only |
| VLAN tag `vlan_tag.c`, `packet.h` | 16 bits of a packet | set and read bits | a switch reads back what the sender meant |
| task manager `task_manager.c` | list of prefixes and monitoring switches | read, match | the first match is the task of the packet's two hosts |
| interval timer `time_library.c` | - | wait for the next interval | it returns in a later interval than it was called in |
| trace generator | maps from captured to testbed addresses, numbers per source, files | one line of the trace | addresses stay distinct and in their sender's network; numbers ascend |
| startup and shutdown `tcpreplay.c` | threads, the clock | init, start, join, destroy | nothing is destroyed under a thread that uses it; a broken sender ends |

Components interact through shared memory (the four sender threads share the
data warehouse), FIFOs (receivers to updators) and packets (main to receivers,
main and condition sender to switches).

### What is hard here

* **Locks that do not cover the data.** The bin mutexes of a table protect its
  chains, not its cursor. vInt's `get` reads the value after the unlock. The
  rotator's mutex is not taken by the two threads that write to the buffers.
* **Values read at different moments.** A flow's level is read twice for one
  packet; a round of condition packets reads the level map three times while it
  changes; pointers to maps are fetched before a rotation and used after it.
* **Order.** A loss is inferred from the order of reports; a report may come after
  the rotation that ended the interval of its packet.
* **Collisions.** A bucket of the fixed-size table holds one flow; its collision
  counter and its cursor are outside the mutexes.
* **Numbers.** An unsigned 32-bit sleep, a 32-bit number read back as `int`,
  addresses derived by division, hosts counted from 1 and nodes from 0, a key of
  which only one field is assigned.
* **Failure.** Dropped packets, a send that fails, a full FIFO, a map that cannot
  be created.

`PROJECT.json` "hazards" lists these, each with its line and its properties.

## 2. Modules

    FlowMap         what a flow table promises: a map
       ^ refinement
    FlowHashTable   tables, cursor and heap           <- FlowHashTable_proofs, MCFlowHashTable
    FlowCache       what the fixed-size table promises: a cache
       ^ refinement
    FixSizeTable    buckets, mutexes, cursor          <- FixSizeTable_proofs,  MCFixSizeTable
    LossTracker     sender, network, receivers        <- LossTracker_proofs,   MCLossTracker
    DataWarehouse   the four threads of a sender      <- DataWarehouse_proofs, MCDataWarehouse
    SenderProcess   start, clock and end of a sender  <- SenderProcess_proofs, MCSenderProcess
    TraceGenerator  from the trace to packet files
       ^ EXTENDS
    TrafficReplay   tasks, replay and tags            <- TrafficReplay_proofs, MCTrafficReplay
    SeqLemmas       facts on InsertAt, RemoveAt, ... used by the proofs

The modules meet at these interfaces. DataWarehouse uses the tables as plain maps,
with one step per call (two for a deletion at the cursor): the theorems on FlowHashTable justify this for set, get and
next in a map nothing is deleted from, and its runs show for the one map with
deletions (the levels) what goes wrong; DataWarehouse therefore models the level map's
cursor itself. Its `ReportLoss` stands for what LossTracker's `ReadReport` hands to the
loss update; its guard says that fewer packets are lost than were sent, and LossTracker's
theorem `LossVolumes` that fewer are lost than are in the volume, which is at most one
more. Its loss map of fixed size has the outcomes of FixSizeTable's `AddValue`
and `Get`, the only calls the sender makes. TrafficReplay composes the generator with one sender: it leaves to
DataWarehouse what the sampling decision and the level of a packet are.
LossTracker assumes ascending seqids within a 5-tuple. TraceGenerator does not give it
that by itself: `SeqidsCount` is about the generator's key, whose unassigned part may
differ between two packets of one 5-tuple, and then both may get the same number.
The assumption holds in builds whose stack holds the same value there. SenderProcess has the same
threads as DataWarehouse, with time and without data.

Definitions named "mutant of" are wrong variants of the definition that follows
them. No specification uses them; they exist to show that the properties notice
the mistake.

### FlowHashTable

State: `table` (bin to chain of addresses), `heap` (address to entry or `NULL`),
`mutexs`, the cursor (`next_current_bin`, `next_last_visit_entry`), and per thread a
program counter and the locals of its call. `seen`, `visited` and `stable` are
history variables.

| code | actions |
|---|---|
| `ht_kfs_vi_get`, `ht_kfs_vf_get` | `GetLookup`, `GetReturn` (vInt's read after the unlock), `GetDone` |
| `ht_kfs_vi_set` | `Set` |
| `ht_kfs_vi_del` | `DelUnlink`, `DelFree` |
| `ht_kfs_vi_next` | `NextStart`, `NextInBin`, `NextAdvance`, `NextBin`, `NextEnd` |

A critical section is one step, except where it touches state its mutex does not
protect (the cursor). A pointer to a freed cell may be read: the result is any
value, or what a new owner stored there. The constant `ReadsUnderLock` tells the two
tables apart, `Ops` which calls the writers make. The hash is an arbitrary function
(constant `HashBin`): `flow_src_hash_bin` has no return statement in the branch that
is compiled, and what the build returns in practice is still a function of the flow.
`set` waits when no cell is free: a failing `malloc` inside `set` is not modelled.

### FixSizeTable and FlowCache

State: `table` (bucket to entry or `NoEntry`), `collision_times`, `next_current_bin`,
`mutexs`, and per thread the call it is in with what it has read. A call is `Call`,
`Lock`, `Load` (of the bucket and of the counter) and one step that writes both and
unlocks: `Get`, `AddValue`, `AddValueUpdateLevel`, `SetSelectedLevel` or `Del`. `next`
is `CallNext`, `Advance`, `Visit`, `EndScan`; `refresh` is `CallRefresh`, `Clear` per
bucket, `Reset`. Only one thread iterates and refreshes (constant `Scanner`), as in
the code that uses the table. `AllocFails` lets the creation of an entry fail. Counts
are modulo `ValueMod` (2^32).

`FlowCache` is the abstract specification: an object with one flow per bucket and, per
thread, the call it has begun and that has not taken effect yet (`pending`). `TakeEffect`
is the only way a call changes the cache; it replaces the content `e` of the bucket by an
element of `After(e, r)`, so an addition adds exactly its count (modulo 2^32) to what the
bucket holds at that moment, a call that has begun takes effect once before it returns,
and a bucket changes hands only as `Takes` allows. The refinement mapping takes the
content of `table` for `cache` and the call in progress for `pending`. What `get`
returns is not part of `FlowCache`.

### LossTracker

State: per host the trace position, main thread, FIFO and updator; per 5-tuple the
packet list with `newest_pkt`; packets on the wire; volumes, losses and the messages
printed. `recorded`, `lost`, `received` and `delivered` are history variables.

| code | actions |
|---|---|
| `cm_handle_ipv4_packet`: `ht_vl_set` | `RecordPacket` |
| `cm_handle_ipv4_packet`: `update_flow_normal_volume`, counters | `UpdateVolume` |
| `send_packets`: `sendpacket`, which may fail | `SendPacket` |
| switches, capture buffers (external) | `Drop` |
| `got_packet`, `get_sender_fifo_handler`, `writeConditionToFIFO` | `GotPacket` |
| `flow_infor_update`: read, `ht_vl_get_rece_lost_volume` | `ReadReport` |
| `flow_infor_update`: `update_flow_loss_volume` | `UpdateLoss` |

Buffers do not rotate in this module. What it says about volumes holds within one
interval: a loss reported after a rotation is looked up in the new buffer, where it may
find no volume (the FATAL branch) or a smaller one. The receiver is one `pcap_loop`
thread; in the model a full FIFO blocks the flow whose report is to be written, not the
other flows and senders that thread serves.

`InOrder` says whether the network keeps the order of the packets of one 5-tuple.
In the mininet testbed a flow takes one path, so it does; the runs with
`InOrder = FALSE` show what survives without it. Every packet is one unit of volume.

### DataWarehouse

State: `active_idx`, the maps and counters of both buffers, the map last sent, all
three kinds of mutexes, and for each of the four threads its program counter and
locals. A pointer to a map is a buffer index with the buffer's generation (`gen`);
`Valid` tells whether the map it points to still exists. A read through an invalid
pointer returns anything, a write through one is lost. Memory that such a write
would corrupt elsewhere is outside the model: `dw_free` reports the access itself.

| code | actions |
|---|---|
| `cm_handle_ipv4_packet` | `TakePacket`, `SamplePacket`, `TagPacket`, `CountRead`, `CountWrite` |
| `update_flow_normal_volume` | `NormalLock`, `NormalFetch`, `NormalUpdate`, `NormalLevel`, `NormalCursor` |
| `send_packets` | `SendPacket` |
| `flow_infor_update` (a loss to add) | `ReportLoss` |
| `update_flow_loss_volume` | `LossLock`, `LossFetch`, `LossCount`, `LossUpdate`, `LossLevel` |
| `send_condition_to_network` | `CondLockSend`, `CondLockWarehouse`, `CondPlus`, `CondMinus`, `CondRenew`, `CondCopy`, `CondEnd` |
| `rotate_interval`, `data_warehouse_reset_noactive_buf` | `Rotate`, `WriteInterval`, `DestroyMaps`, `CreateMaps` |

`setting` is one of the settings a run allows: the host samples (and then injects
condition packets or tags its packets) or leaves it to the switches, and the levels
follow the exact loss map or the one of fixed size; `setting.monitored` are the flows of
interest to its tasks.

`ht_kfs_vi_del` compares the cursor of a running iteration with the entry it unlinks and
then writes the cursor, under the mutex of the entry's bin; `ht_kfs_vi_next` moves the
cursor under the mutex of the bin it has reached. When the main thread deselects the
flow under the cursor it goes through `NormalLevel` (unlink and test) and `NormalCursor`
(write and unlock). In between `next` may go on to another bin, and the late write of
NULL then makes it skip the rest of that bin (`MoveCursor`); in the entry's own bin it
waits (`NextWaits`). The updator's `LossLevel` keeps both in one step: a further loss
never lowers a level, so it deletes nothing.

`send_udp_condition_pkt` may fail. Its callers ignore the result: the counter goes up
and the level is remembered as sent. `SendCondition` has both outcomes; `told` is what
the switches were told, `untold` holds the flows whose last condition packet failed.

### TraceGenerator and TrafficReplay

| code | definitions |
|---|---|
| `main` of the generator, one line | `ReadLine`: `SkipLine`, `DropSelfTraffic` or `WritePacket` |
| `get_mapped_info` | `Mapped`, `NodeOf`, `IpOf` |
| `get_seqid_of_flow`, `ht_kf_get`, `ht_kf_set` | `NextSeqid`, `Stored`, `AsInt` |
| `read_tasks_from_file`, `read_one_task_from_one_line` | `ReadTaskLine`, `TasksRead` |
| `get_task_of_traffic` | `Prefix`, `Masked`, `TaskOf` |
| `vlan_tag.c`, `packet.h` | `tag_packet_for_switches`, `tag_packet_as_sampled`, ... on sets of bits |
| `cm_handle_ipv4_packet` | `ReplayPacket` |
| `send_udp_condition_pkt` | `SendCondition` |

An address of the trace is a model value; testbed addresses are numbers, `SenderIps`
to a network. The unassigned fields of the generator's key are a value of `Garbage`,
chosen anew for every packet: what the stack holds there is undefined.

### SenderProcess

| code | actions |
|---|---|
| `main` of `tcpreplay.c` | `InitSetting`, `InitWarehouse`, `StartThreads`, `StartReplay`, `SendLast`, `EndReplay`, `JoinUpdator`, `JoinRotator`, `Exit` |
| `flow_infor_update`: open and read | `OpenFIFO`, `ReadFails` |
| `rotate_interval` and its wait | `OpenTargetFile`, `RotatorLeaves`, `FirstRotation`, `RotatorLocks`, `EndRotation`, `NextRotation` |
| `send_condition_to_network` and its wait | `ConditionLeaves`, `BeginRound`, `RoundLocksSend`, `RoundLocksWarehouse`, `EndRound`, `RoundFails` |
| the clock (external) | `Tick` |

Time is in milliseconds and not set back. A thread that polls the clock sees any later
time. A rotation takes any time, the wait for `data_warehouse_mutex` included, and
`nanosleep` returns at most `WakeLate` late. The mutexes are read off the program
counters (`PacketSendFree`, `WarehouseFree`): a round holds both from its two locks to its
end, a rotation the second, and a condition sender that could not create its map has
ended with both locked (`RoundFails`). A replay consists of its last packet, for which
main needs `packet_send_mutex` (`SendLast`), and may end before it with an error. When main
returns or exits, every thread is gone (`Running`).

## 3. Runs

### The tables

| run | checks | shows |
|---|---|---|
| `table_map` | `TypeOK`, `ChainsSorted`, `UnlinkedIsPrivate`, `GetIsLinearizable`, `ImplementsMap`, `CallsActOnTheirFlow` | vFloat with two writers and the iterating thread: chains stay sorted, nothing is freed twice or while it is reachable, no deadlock; the table is a linearizable map that implements `FlowMap`, and each call has its effect on its own flow |
| `table_insert` | `GetIsLinearizable`, `ScanIsComplete`, `NoFlowReturnedTwice`, `ScanTerminates` | without deletions vInt's late read is harmless and iterations that overlap insertions miss nothing, repeat nothing and end |
| `table_skip` | `ScanIsComplete` **violated** | a `del` at the cursor makes the iteration skip an entry |

Bounds: three flows, two of them in bin 0 and one in bin 1, so that a chain has a
head and a tail and there is a bin to go on to. Freed heap cells are reused. Two
writers are all the code has for any table. Symmetry is over cells and writers, and
only in `table_map`, which checks no liveness; `CHOOSE` in the module ranges over
positions, never over symmetric values. `table_insert` stores a single value, which
keeps the state space small enough for liveness: its lookups are told apart by
found, not found and freed.

That vInt's `get` is not linearizable once flows are deleted concurrently is the
mutant of `GetIsLinearizable` in `table_map` (`AlwaysReadsLate` is the code of vInt).

### The table of fixed size

| run | checks | shows |
|---|---|---|
| `fixsize` | `TypeOK`, `CollisionsNotOvercounted`, `ScanFindsStaying`, `ImplementsCache`, `CallsReturn` | all operations from two threads: every call takes effect once, on what its bucket holds then, as in `FlowCache`, so that no count is lost or doubled and buckets are given away by priority only; an iteration misses no flow that stays; the unprotected collision counter may lose increments but never counts too many; every call returns, the early return of `set_selected_level` included |

Bounds: two buckets with two flows each, so that flows collide in both buckets at the
same time; four calls, enough to enter, replace and iterate; levels 0 and 1; counts
modulo 3, so that they wrap; allocations may fail. The run ends after four calls,
hence no deadlock check.

### Losses

| run | checks | shows |
|---|---|---|
| `loss_order` | `OnlyDropsAreLost`, `NoErrorReported`, `LossIsNoticed` | in an order-keeping network the packets taken for lost never arrive, no FAIL/FATAL branch is taken, and a loss enters the loss volume once a later packet of its 5-tuple has arrived |
| `loss_reorder` | `TypeOK`, `ListIsQueue`, `EachPacketCountedOnce`, `ReceivedWasDelivered`, `LossVolumeIsExact` | even under reordering the lists stay intact, no packet is counted twice, and the loss volume counts exactly what was taken for lost and is less than the volume unless it is zero |

Bounds: in `loss_reorder` host A sends four packets over two 5-tuples of one source
flow and B one packet back, so that both hosts are sender and receiver; in
`loss_order`, where liveness is checked, A sends three. FIFOs hold two reports, so
writes block. Both runs are about one interval: there is no rotation in the module, and
"no FATAL branch" and "less than the volume" are not claimed beyond one. These runs end when the traces end, hence no deadlock check.

### The data warehouse

| run | checks | shows |
|---|---|---|
| `dw_interval` | `LevelsMatchLosses`, `FixedNeverOverselects`, `TaggedIsSampled`, `SwitchesLearnLevels`, `MainSends` | within an interval and in three settings: the bin mutexes keep rate and level of every flow equal to what its volume and loss give; the map of fixed size never selects a flow its losses do not justify; a packet tagged with a level is sampled unless the level changed between the two reads; unless a level changes during a round the switches end up knowing the level of every flow whose last condition packet could be sent; the main thread is never kept from sending, the late write of the cursor included |
| `dw_rotate` | `TypeOK`, `RoundKeepsItsMaps`, `MainSends` | with a rotation and failing creations of maps, a round never loses the maps it iterates over to the rotator; live maps keep their types although threads read through dangling pointers; the main thread is kept from sending only by a condition sender that has ended with `packet_send_mutex` locked |
| `dw_free` | `ResetBufferIsUseless` **violated** | the rotator resets a buffer the main thread still points into |
| `dw_told` | `RemembersWhatItSent` **violated** | a level that changes between the passes is remembered as sent although it was not |

Bounds: two flows with a bin each that share a bucket of the map of fixed size
(`dw_interval`), so that a deletion at the cursor can race with an iteration that goes on
to the other bin; one flow elsewhere. Five packets select both flows, make one a target
and deselect the first while a round stands on it, which four do not. In `dw_interval`
the host that injects condition packets monitors neither flow, which leaves out its
sampling; `dw_rotate` has it. Thresholds are volume 1, loss 1 (selected) and 2 (target),
rate 1/2. `MaxRotations = 0` is not an artificial state: the rotator waits for the
next whole interval before its first rotation, and the statements about one interval
are made of that time. `dw_rotate` stops after one rotation: once an active buffer
lacks its level map, a round may find anything there and the count of condition
packets has no bound. In this run the condition sender may end while it holds both
mutexes and everything behind them stops, hence no deadlock check there. In
`dw_interval` the trace ends and then nothing more need happen.

`FixedNeverOverselects` is about the first interval only: a loss reported after a
rotation is looked up in the new buffer, finds no volume there, and is dropped with a
FATAL message although `volume_lost` has been increased. That no loss is dropped before
the first rotation (`LossFindsVolume`) is proved and has no run of its own, which
would repeat what `loss_order` checks.

### From the trace to the tag

| run | checks | shows |
|---|---|---|
| `traffic` | `MappingIsInjective`, `FilesAreReplayable`, `SeqidsCount`, `TagReadsBack` | captured addresses become distinct addresses in the network of their sender; a file holds packets from its sender to others only; numbers ascend per key without a gap up to 2^31 and then start again; a replayed packet tells exactly the switches the task file names for its two hosts, and its sampling and level; a condition packet carries its level and nothing else |

Bounds: five addresses for two networks of two, so that the networks fill up and
overflow (what then goes wrong is excluded by `NetworksSuffice`; the code does not
check it); three lines; seqids modulo 4; task files with a comment, with a task
without monitors and with a host that has no task; switches 1, 2 and 12, the ends of
the bit range and the gap at bit 4. Symmetry is over the captured addresses, which are
only compared. The trace ends, hence no deadlock check.

### The life of a sender

| run | checks | shows |
|---|---|---|
| `sender` | `TypeOK`, `StartsInLaterInterval`, `RotationsKeepTime`, `DestroyedAfterUsers`, `BrokenSenderExits` | the wait for an interval ends in a later one however late the clock is read; two consecutive rotations begin at least an interval apart, the second late only by what `nanosleep` adds, or by 2^32 milliseconds at least if the first took longer than an interval and the unsigned sleep wrapped; the data warehouse is destroyed after updator and rotator have ended; a sender in which both have ended ends too, unless the condition sender has ended as well, with `packet_send_mutex` locked |

Bounds: an interval of 2, a condition interval of 2, "ten minutes" of 3 and sleeps
modulo 3, over nine ticks: enough for several rotations and rounds, for rotations
longer than an interval and for sleeps that wrap. A sender that works never ends by
itself, and after `MaxTime` the clock stands still, hence no deadlock check.

## 4. Fairness

* FlowHashTable: the iterating thread keeps calling `next` (a round runs through to
  the end) and is scheduled; a mutex that is free again and again is obtained (strong
  fairness on the steps that lock), which is what a pthread mutex under Linux gives
  in practice; a writer inside `del` leaves it. Nobody has to call anything.
* LossTracker: `pcap_loop` calls `got_packet` for packets that arrive (strong
  fairness: several flows and hosts compete for a FIFO's space), and the updator loops.
  Neither a further packet nor a drop is assumed.
* DataWarehouse: every thread goes on inside its loop body (weak fairness), and the
  condition sender's loop is periodic. Strong fairness is assumed for one lock only,
  main's on `packet_send_mutex`, which the condition sender releases and takes again for
  ever. No packet, loss or rotation has to come.
* FixSizeTable: a thread inside a call goes on; mutexes as above. Nobody has to call.
* SenderProcess: main, the condition sender's rounds and the clock go on (weak
  fairness), and main gets `packet_send_mutex` if it is free again and again (strong
  fairness of `SendLast`). No fairness of updator and rotator is used: that a thread
  fails is never assumed, the property is about what main does then.

## 5. Proofs

Proved for all values of the constants that satisfy the `ASSUME`s of each module.

**FlowHashTable_proofs**: `TypeCorrect` (`TypeOK`), `Sortedness` (`ChainsSorted`) and
`NoDoubleFree` (`UnlinkedIsPrivate`). `TypeOK` alone is not inductive: that `DelFree`
may free its entry depends on no other `del` holding it and on no chain containing
it; that in turn needs that no two positions of the chains hold the same address,
which follows from sorted keys and `HashBin[key] = bin`. The inductive invariant is
therefore the conjunction of the three (`IInv`). `SeqLemmas` supplies what `InsertAt`
and `RemoveAt` do to the elements of a sequence. From `IInv` follow:

* `TableImplementsMap` (`ImplementsMap`), the refinement of `FlowMap`. In sorted chains
  a flow has at most one entry, so the value the chains give a flow is a function of the
  flow; `set` and `del` change it for their own flow, every other step for none. It
  needs `ValueAssumption`: -1, which `get` returns for a missing flow, is never stored
  (what the sender stores are volumes, losses, rates and levels).
* `EveryCallActsOnItsFlow` (`CallsActOnTheirFlow`): the early stop of the walk in a
  sorted chain neither misses the call's flow nor takes another for it.
* `GetIsAtomic` (`GetIsLinearizable`), if the value is copied under the lock or no
  thread deletes. `GetInv` says that a `get` that has unlocked still holds an entry of
  its flow, whose value the flow has had since the call. A `del` breaks this; the level
  map of the sender, a vInt table with deletions, is outside the theorem (section 6).
* `ScanMissesNothing` (`ScanIsComplete`) and `ScanRepeatsNothing`
  (`NoFlowReturnedTwice`), if no thread deletes. `ScanPosition` relates what was returned
  to the bin and entry the cursor stands at: every stable flow up to there, no flow
  beyond. Insertions go before or behind that entry and never move it. With deletions
  `ScanIsComplete` is false (run `table_skip`).

**LossTracker_proofs**: for any network `LossTypes` (`TypeOK`), `QueuesIntact`
(`ListIsQueue`), `CountedOnce` (`EachPacketCountedOnce`) and
`ReceivedOnlyIfDelivered` (`ReceivedWasDelivered`), from the inductive invariant
`QInv`, which adds that recorded seqids do not exceed the trace position of their
host (`Fresh`), that packets travel only to the two ends of their flow (`OnPath`) and
that reports reach the sender of a delivered packet (`ReportsDelivered`). For a network that keeps the
order of a flow, `LostMeansDropped` (`OnlyDropsAreLost`) and `NoFatalReport`
(`NoErrorReported`), from `OInv`. Its core is that along the path FIFO, wire, main
thread the seqids of a flow ascend and all of them are pending, so that a report frees
only packets that have left the path (`WireOrder`, `FifoOrder`, `HandOrder`). A
delivered packet is counted as received or still has its report in the FIFO
(`DeliveredKnown`); what has been sent has been added to the volume first
(`HasVolume`).

For any network again, `LossVolumes` (`LossVolumeIsExact`). The property relates two
counters to the sizes of sets, one of them across several 5-tuples, and is not
inductive: `VInv` says that the volume of a source flow is the number of its recorded
packets without the one `update_flow_normal_volume` has still to be called for
(`VolumeExact`), that its loss and what the updator has in hand is the number of its
lost packets (`LossExact`), and that a lost packet is never the one the main thread
still holds (`LostIsAccounted`), because it is older than a delivered one (`Unsent`).
That a loss rate never reaches 1 needs one more (`WInv`): packets are popped in order
(`PoppedFirst`), so a report that was overtaken pops nothing, and a flow that has lost a
packet has also received one (`LossHasWitness`).
Here the proof uses that the 5-tuples of one source flow have one sender
(`FlowAssumption`; `srcip` is part of every kind of `flow_src_t`): then only one updator
can have packets of it in hand.

**DataWarehouse_proofs**: `RoundIsProtected` (`RoundKeepsItsMaps`). The inductive
invariant `RoundInv` says who holds `data_warehouse_mutex` in which phase of a round
and of a rotation, and that unless a creation has failed only the buffer being reset
may lack its maps. `TypeCorrect` (`TypeOK`): a thread may read anything through a pointer
into a destroyed buffer; the types survive because a call keeps its flow and a reported
loss is not empty (`CallsHaveFlows`).

For any number of flows, bins and buckets and all settings, until the first rotation:
`LevelsAreCurrent` (`LevelsMatchLosses`), `NeverOverselects` (`FixedNeverOverselects`),
`LossAlwaysFindsVolume` (`LossFindsVolume`) and `TaggedIsAlwaysSampled`
(`TaggedIsSampled`). Main keeps the mutex of its bin while it has still to write the
cursor (`NormalCursor`). `IntervalInv` says at all times who holds the mutex of a bin
(`BinsLocked`: main thread and updator never compute the level of one flow together) and
in the first interval that all threads use the first buffer (`FirstBuffer`), that between
the rate and the level a thread's locals equal the maps (`LevelsFollow`), that the loss
maps and the report in hand do not exceed what was reported (`LossesReported`), that
volumes precede packets and packets precede losses (`VolumeKnown`) and who may have
changed the level of the packet being tagged (`TagKnown`).

**FixSizeTable_proofs**: `TypeCorrect` (`TypeOK`), `TableIsCache` (`ImplementsCache`),
`ScanIsComplete` (`ScanFindsStaying`) and `CollisionsBounded`
(`CollisionsNotOvercounted`), for any number of threads, flows, buckets and mutexes.
That a step of the table is a step of the cache, the one in which its call takes effect
on the bucket's current content, needs that what a thread has loaded is
still in the bucket when it writes, which holds because it owns the bucket's mutex:
`CacheInv` relates program counters, mutexes, loaded entries and the bucket of each
key. For iterations `ScanInv` says that a flow that stayed and was not returned lies
in a bucket the cursor has not passed, and that a thread other than the scanner never
moves the cursor.

**SenderProcess_proofs**: `TypeCorrect` (`TypeOK`), `StartsLater`
(`StartsInLaterInterval`), `RotatorKeepsTime` (`RotationsKeepTime`) and
`WarehouseOutlives` (`DestroyedAfterUsers`), for any lengths of intervals and delays.
The inductive invariant says what each program counter of the two waits knows about
the clock (`RotatorWaits`, `ConditionWaits`), when the rotator's sleep ends, counted
from the beginning of the rotation before it, with and without the wrap (`OnTime`) and which threads have ended in which phase of main
(`Lifetime`). Lemmas on `\div` and `%` for arbitrary divisors carry the argument that a
later start is a later interval.

**TrafficReplay_proofs**: `AddressesStayDistinct` (`MappingIsInjective`),
`FilesReplayable` (`FilesAreReplayable`), `NumbersAscend` (`SeqidsCount`),
`TagsReadBack` (`TagReadsBack`) and `TypeCorrect` (`TypeOK`), for any number of senders
and addresses, any size of the networks, any trace and any task file with one task per
pair of hosts. For the generator `GenInv` says that every mapped address has the node
and the address of a number that was given out (`MapOK`); numbers within the capacity
give different addresses because quotient and remainder are unique. The number stored
under a key is that of the key's last packet (`LastStored`), and a key has its packets
in one file, the one of the network its address lies in. For the sender `ReplayInv`
adds that the list of tasks holds exactly this host's lines of the part of the task
file that was read, each once (`KeptOnly`, `KeptOnce`, `KeptAll`): then the first match
is the only one.

Every invariant, action property and refinement that the passing runs check is a
theorem. Only model-checked are the liveness properties, which are outside the prover:
`ScanTerminates`, `LossIsNoticed`, `SwitchesLearnLevels`, `MainSends`, `CallsReturn` and
`BrokenSenderExits`.

## 6. Findings

Three runs show the code doing something other than what a comment or message beside
it says: `del` at the cursor makes an iteration skip an entry; a buffer is reset while
other threads use it; a level that changes during a round is remembered as sent.
`PROJECT.json` quotes the lines. Besides, and noted with the hazards: vInt's `get` reads
after unlocking; a condition packet that could not be sent is remembered as sent; a
condition sender that cannot create a map leaves both mutexes locked; a loss reported after a rotation is dropped; the condition sender is
not joined before the data warehouse is destroyed; a rotation longer than an interval
makes the rotator sleep for weeks.

## 7. Not modelled

* Vendored code (libpcap, tcpreplay itself: by far the most of the repository's
  lines), mininet and plotting scripts. The project models the testbed's own code,
  `public_lib/*.c`, the files of `tcpreplay/src` the testbed added or changed,
  `receiverSendReceFlowSeqid` and `pcapFileGenerator`; measured against all lines of the
  repository its coverage is therefore small.
* Parsing of settings, traces and packet headers; output formats, the contents of the
  target flow file.
* `refresh` and `copy` of the vInt and vFloat tables and a few helpers (no caller), the
  5-tuple copies of the tables (tests only), creation of the FIFO files.
* `g_rand_buffer`, shared without a mutex: sampling is a free choice here.
* The totals of an interval (`volume_sent` and the like), incremented without a mutex:
  the race is in DataWarehouse, but nothing in the code says what the totals must
  satisfy after a rotation.

## 8. Plan

Left to do, in this order:

1. The safety part of the liveness properties as theorems, where it has one: what a
   scan has still to visit never grows without an insertion.
2. What survives a rotation: `LevelsMatchLosses` for calls that begin and end in one
   interval.
3. What the rotator writes (targets, false negatives, totals), from the buffer it has
   just retired, once a statement of the code about it is found.
