----------------------- MODULE DataWarehouse_proofs -----------------------
(***************************************************************************)
(* What is proved of the data warehouse, for any number of flows, bins,    *)
(* packets and rotations, and whichever creations of maps fail.            *)
(*                                                                         *)
(*   1. A round of condition packets keeps the maps it iterates over.  The *)
(*      argument is about data_warehouse_mutex alone: who holds it says    *)
(*      where the condition sender and the rotator are (RoundInv).         *)
(*   2. Type correctness, although pointers into a destroyed buffer are    *)
(*      read and written (TypeInv).                                        *)
(*   3. The first interval, in which every pointer is valid: levels match  *)
(*      losses, never exceed what was reported, every loss finds a volume, *)
(*      and a tagged packet is sampled (IntervalInv).  The argument is     *)
(*      that the mutex of a bin keeps main and the updator off each        *)
(*      other's flow between the reading of its volume and the setting of  *)
(*      its level.                                                         *)
(***************************************************************************)
EXTENDS DataWarehouse, SeqLemmas, TLAPS

InRound == {"plus", "minus", "renew", "copy"}

(* The condition sender holds data_warehouse_mutex exactly during a round, *)
(* and for ever once it has ended; the rotator exactly while it rotates.   *)
MutexTells ==
  /\ data_warehouse_mutex \in {Free, "cond", "rotator"}
  /\ cond.pc \in InRound \cup {"wait", "dw", "ended"}
  /\ rotator \in {"sleep", "write", "destroy", "create"}
  /\ cond.pc \in InRound \cup {"ended"} <=> data_warehouse_mutex = "cond"
  /\ rotator # "sleep" <=> data_warehouse_mutex = "rotator"

(* A round that has begun has the level map of the active buffer. *)
RoundIsActive == cond.pc \in InRound => cond.level_map = Active

(* Unless a creation has failed, only the buffer that is being reset, and  *)
(* the map of what was last sent, may be missing.                          *)
MapsExist ==
  ~ alloc_failed =>
    /\ "level" \in exists[active_idx]
    /\ rotator # "create" => "level" \in exists[Inactive] /\ last_exists

BufferShape ==
  /\ active_idx \in Buffer
  /\ DOMAIN gen = Buffer
  /\ DOMAIN exists = Buffer
  /\ cond = [pc |-> cond.pc, level_map |-> cond.level_map]

RoundInv == BufferShape /\ MutexTells /\ RoundIsActive /\ MapsExist

(* What RoundInv is about. *)
roundVars == <<active_idx, gen, exists, last_exists, data_warehouse_mutex, cond,
               rotator, alloc_failed>>

LEMMA RoundInit == Init => RoundInv
  BY DEF Init, RoundInv, BufferShape, MutexTells, RoundIsActive, MapsExist,
         InRound, Buffer, AllKinds, Kinds, Inactive, Active, Free

LEMMA RoundStutter == RoundInv /\ UNCHANGED roundVars => RoundInv'
  BY DEF RoundInv, BufferShape, MutexTells, RoundIsActive, MapsExist,
         roundVars, Inactive, Active

(* The steps of the two threads that do not take data_warehouse_mutex. *)
LEMMA OthersStutter == Main \/ Updator => UNCHANGED roundVars
<1>1. ASSUME NEW f \in Flow, TakePacket(f) PROVE UNCHANGED roundVars
  BY <1>1 DEF TakePacket, roundVars, buffers, conditions, locks, history
<1>2. CASE SamplePacket \/ LeaveSampling
  BY <1>2 DEF SamplePacket, LeaveSampling, roundVars, buffers, conditions, locks, history
<1>3. CASE TagPacket
  BY <1>3 DEF TagPacket, roundVars, buffers, conditions, locks, history
<1>4. CASE NormalLock
  BY <1>4 DEF NormalLock, roundVars, buffers, conditions, history
<1>5. CASE NormalFetch
  BY <1>5 DEF NormalFetch, roundVars, buffers, conditions, locks, history
<1>6. CASE NormalUpdate
  BY <1>6 DEF NormalUpdate, roundVars, buffers, conditions, locks, history
<1>7. CASE NormalLevel \/ NormalCursor
  BY <1>7 DEF NormalLevel, NormalCursor, roundVars, buffers, conditions, history
<1>8. CASE CountRead
  BY <1>8 DEF CountRead, roundVars, buffers, conditions, locks, history
<1>9. CASE CountWrite
  BY <1>9 DEF CountWrite, roundVars, buffers, conditions, locks, history
<1>10. CASE SendPacket
  BY <1>10 DEF SendPacket, roundVars, buffers, conditions, locks
<1>11. ASSUME NEW f \in Flow, NEW n \in 1 .. MaxPackets, ReportLoss(f, n)
       PROVE  UNCHANGED roundVars
  BY <1>11 DEF ReportLoss, roundVars, buffers, conditions, locks
<1>12. CASE LossLock
  BY <1>12 DEF LossLock, roundVars, buffers, conditions, history
<1>13. CASE LossFetch
  BY <1>13 DEF LossFetch, roundVars, buffers, conditions, locks, history
<1>14. CASE LossCount
  BY <1>14 DEF LossCount, roundVars, buffers, conditions, locks, history
<1>15. CASE LossUpdate
  BY <1>15 DEF LossUpdate, roundVars, buffers, conditions
<1>16. CASE LossLevel
  BY <1>16 DEF LossLevel, roundVars, buffers, conditions, history
<1> QED
  BY <1>1, <1>2, <1>3, <1>4, <1>5, <1>6, <1>7, <1>8, <1>9, <1>10, <1>11,
     <1>12, <1>13, <1>14, <1>15, <1>16 DEF Main, Updator

(* Within a round the condition sender moves from pass to pass and may     *)
(* renew the map of what was last sent; it touches no other map.           *)
LEMMA PassKeepsRound ==
  ASSUME RoundInv, cond.pc \in InRound,
         cond' = [cond EXCEPT !.pc = cond'.pc],
         cond'.pc \in InRound \cup {"ended"},
         last_exists' = last_exists \/ last_exists' = TRUE \/ alloc_failed',
         alloc_failed => alloc_failed',
         cond'.pc = "ended" => alloc_failed',
         UNCHANGED <<active_idx, gen, exists, data_warehouse_mutex, rotator>>
  PROVE  RoundInv'
  BY DEF RoundInv, BufferShape, MutexTells, RoundIsActive, MapsExist, InRound,
         Inactive, Active, Free

LEMMA RoundStep == RoundInv /\ [Next]_vars => RoundInv'
<1> SUFFICES ASSUME RoundInv, [Next]_vars PROVE RoundInv'
  OBVIOUS
<1>1. CASE Main \/ Updator
  BY <1>1, OthersStutter, RoundStutter
<1>2. CASE CondLockSend
  BY <1>2 DEF CondLockSend, RoundInv, BufferShape, MutexTells, RoundIsActive,
              MapsExist, InRound, buffers, conditions, history, Inactive, Active,
              Free
<1>3. CASE CondLockWarehouse
  BY <1>3 DEF CondLockWarehouse, RoundInv, BufferShape, MutexTells,
              RoundIsActive, MapsExist, InRound, buffers, conditions, history,
              Inactive, Active, Free
<1>4. CASE CondPlus
  <2>1. cond' = cond \/ cond' = [cond EXCEPT !.pc = "minus"]
    BY <1>4 DEF CondPlus
  <2>2. /\ cond.pc = "plus"
        /\ UNCHANGED <<active_idx, gen, exists, data_warehouse_mutex, rotator,
                       last_exists, alloc_failed>>
    BY <1>4 DEF CondPlus, buffers, locks, history
  <2> QED
    BY <2>1, <2>2, PassKeepsRound DEF RoundInv, BufferShape, InRound
<1>5. CASE CondMinus
  <2>1. cond' = cond \/ cond' = [cond EXCEPT !.pc = "renew"]
    BY <1>5 DEF CondMinus
  <2>2. /\ cond.pc = "minus"
        /\ UNCHANGED <<active_idx, gen, exists, data_warehouse_mutex, rotator,
                       last_exists, alloc_failed>>
    BY <1>5 DEF CondMinus, buffers, locks, history
  <2> QED
    BY <2>1, <2>2, PassKeepsRound DEF RoundInv, BufferShape, InRound
<1>6. CASE CondRenew
  <2>1. \/ /\ cond' = [cond EXCEPT !.pc = "copy"]
           /\ last_exists' = TRUE /\ UNCHANGED alloc_failed
        \/ /\ cond' = [cond EXCEPT !.pc = "ended"]
           /\ alloc_failed' = TRUE
    BY <1>6 DEF CondRenew
  <2>2. /\ cond.pc = "renew"
        /\ UNCHANGED <<active_idx, gen, exists, data_warehouse_mutex, rotator>>
    BY <1>6 DEF CondRenew, buffers, locks
  <2>3. CASE cond' = [cond EXCEPT !.pc = "copy"] /\ last_exists' = TRUE
                /\ UNCHANGED alloc_failed
    <3>1. cond'.pc = "copy" /\ cond' = [cond EXCEPT !.pc = cond'.pc]
      BY <2>3 DEF RoundInv, BufferShape
    <3> QED
      BY <2>2, <2>3, <3>1, PassKeepsRound DEF InRound
  <2>4. CASE cond' = [cond EXCEPT !.pc = "ended"] /\ alloc_failed' = TRUE
    <3>1. cond'.pc = "ended" /\ cond' = [cond EXCEPT !.pc = cond'.pc]
      BY <2>4 DEF RoundInv, BufferShape
    <3> QED
      BY <2>2, <2>4, <3>1, PassKeepsRound DEF InRound
  <2> QED
    BY <2>1, <2>3, <2>4
<1>7. CASE CondCopy
  BY <1>7, RoundStutter DEF CondCopy, roundVars, buffers, locks, history
<1>8. CASE CondEnd
  BY <1>8 DEF CondEnd, CondUnlock, RoundInv, BufferShape, MutexTells,
              RoundIsActive, MapsExist, InRound, buffers, conditions, history,
              Inactive, Active, Free
<1>9. CASE Rotate
  BY <1>9 DEF Rotate, RoundInv, BufferShape, MutexTells, RoundIsActive,
              MapsExist, InRound, conditions, history, Inactive, Active, Free,
              Buffer
<1>10. CASE WriteInterval
  BY <1>10 DEF WriteInterval, RoundInv, BufferShape, MutexTells, RoundIsActive,
               MapsExist, InRound, buffers, conditions, locks, history, Inactive,
               Active, Free
<1>11. CASE DestroyMaps
  BY <1>11 DEF DestroyMaps, RoundInv, BufferShape, MutexTells, RoundIsActive,
               MapsExist, InRound, locks, history, Inactive, Active, Free, Buffer
<1>12. CASE CreateMaps
  <2>1. PICK k \in 0 .. 8 :
          /\ exists' = [exists EXCEPT ![Inactive] =
                          {Kinds[i] : i \in {j \in 1 .. 7 : j <= k}}]
          /\ last_exists' = (k = 8)
          /\ alloc_failed' = (alloc_failed \/ k < 8)
    BY <1>12 DEF CreateMaps
  <2>2. k = 8 => "level" \in {Kinds[i] : i \in {j \in 1 .. 7 : j <= k}}
    BY DEF Kinds
  <2>3. /\ rotator = "create" /\ rotator' = "sleep"
        /\ data_warehouse_mutex' = Free
        /\ UNCHANGED <<active_idx, gen, cond>>
    BY <1>12 DEF CreateMaps
  <2>4. MapsExist'
    <3> SUFFICES ASSUME ~ alloc_failed'
                 PROVE  /\ "level" \in exists'[active_idx]
                        /\ "level" \in exists'[Inactive]
                        /\ last_exists'
      BY <2>3 DEF MapsExist, Inactive
    <3>1. ~ alloc_failed /\ ~ (k < 8)
      BY <2>1
    <3>2. k = 8
      BY <3>1
    <3>3. last_exists'
      BY <2>1, <3>2
    <3>4. active_idx \in Buffer /\ Inactive \in Buffer /\ Inactive # active_idx
      BY DEF RoundInv, BufferShape, Inactive, Buffer
    <3>5. "level" \in exists'[Inactive]
      BY <2>1, <2>2, <3>2, <3>4 DEF RoundInv, BufferShape
    <3>6. "level" \in exists'[active_idx]
      BY <2>1, <3>1, <3>4 DEF RoundInv, BufferShape, MapsExist
    <3> QED
      BY <3>3, <3>5, <3>6
  <2>5. cond.pc \notin InRound \cup {"ended"}
    BY <2>3 DEF RoundInv, MutexTells
  <2>6. BufferShape'
    BY <2>1, <2>3 DEF RoundInv, BufferShape
  <2>7. MutexTells' /\ RoundIsActive'
    BY <2>3, <2>5 DEF RoundInv, MutexTells, RoundIsActive, InRound, Free
  <2> QED
    BY <2>4, <2>6, <2>7 DEF RoundInv
<1>13. CASE UNCHANGED vars
  BY <1>13, RoundStutter DEF vars, roundVars, buffers, conditions, locks, history
<1> QED
  BY <1>1, <1>2, <1>3, <1>4, <1>5, <1>6, <1>7, <1>8, <1>9, <1>10, <1>11,
     <1>12, <1>13 DEF Next, Cond, Rotator

(* While send_condition_to_network is in a round, the level map it was     *)
(* given is that of the active buffer and the rotator has destroyed        *)
(* neither it nor the map of what was last sent.                           *)
THEOREM RoundIsProtected == Spec => []RoundKeepsItsMaps
<1>1. RoundInv => RoundKeepsItsMaps
  BY DEF RoundInv, MutexTells, RoundIsActive, MapsExist, RoundKeepsItsMaps,
         InRound, Valid, Active
<1> QED
  BY <1>1, RoundInit, RoundStep, PTL DEF Spec
-----------------------------------------------------------------------------
(* Type correctness.  A call knows its flow: the bin it locks is that of a *)
(* flow, and a reported loss is not empty.                                 *)
CallsHaveFlows ==
  /\ main.pc # "idle" => main.flow \in Flow
  /\ updator.pc # "read" => updator.flow \in Flow /\ updator.lost \in Nat \ {0}
TypeInv == TypeOK /\ CallsHaveFlows

MainRec == [pc : {"idle", "sample", "tag", "lock", "fetch", "update", "level",
                  "cursor", "count", "add", "send"},
            flow : 0 .. N, level_map : Pointer, volume_map : Pointer,
            other_maps : Pointer, volume : Nat, loss : Nat, idx : Buffer,
            total : Nat, sampled : BOOLEAN, tag : Nat, moved : BOOLEAN]
UpdatorRec == [pc : {"read", "lock", "fetch", "add", "update", "level"},
               flow : 0 .. N, lost : Nat, volume_map : Pointer,
               other_maps : Pointer, volume : Nat, loss : Nat, idx : Buffer,
               total : Nat]
CondRec == [pc : {"wait", "dw", "plus", "minus", "renew", "copy", "ended"},
            level_map : Pointer]

LEMMA ThreadRecs ==
  /\ ThreadType <=> /\ main \in MainRec /\ updator \in UpdatorRec /\ cond \in CondRec
                    /\ rotator \in {"sleep", "write", "destroy", "create"}
  /\ ThreadType' <=> /\ main' \in MainRec /\ updator' \in UpdatorRec
                     /\ cond' \in CondRec
                     /\ rotator' \in {"sleep", "write", "destroy", "create"}
BY DEF ThreadType, MainRec, UpdatorRec, CondRec

LEMMA MainRecFields ==
  ASSUME NEW m \in MainRec
  PROVE  /\ m.pc \in {"idle", "sample", "tag", "lock", "fetch", "update", "level",
                  "cursor", "count", "add", "send"}
         /\ m.flow \in 0 .. N /\ m.level_map \in Pointer /\ m.volume_map \in Pointer
         /\ m.other_maps \in Pointer /\ m.volume \in Nat /\ m.loss \in Nat
         /\ m.idx \in Buffer /\ m.total \in Nat /\ m.sampled \in BOOLEAN
         /\ m.tag \in Nat /\ m.moved \in BOOLEAN
BY DEF MainRec

LEMMA PointerTypes ==
  ASSUME BufferType
  PROVE  /\ Active \in Pointer /\ NoPtr \in Pointer
         /\ Inactive \in Buffer /\ Inactive # active_idx
BY DEF BufferType, Active, NoPtr, Pointer, Inactive, Buffer

LEMMA FlowBins ==
  ASSUME NEW f \in Flow
  PROVE  BinOf[f] \in Bins /\ f \in 1 .. N
BY DEF Bins, Flow

LEMMA GroupsKept ==
  ASSUME TypeOK
  PROVE  /\ UNCHANGED buffers => BufferType'
         /\ UNCHANGED maps => MapType'
         /\ UNCHANGED <<flow_selected_level_map, cursor, last_exists,
                        last_sent_flow_selected_level_map>> => LevelType'
         /\ UNCHANGED totals => CountType'
         /\ UNCHANGED locks => LockType'
         /\ UNCHANGED <<fatal, accounted, reported, alloc_failed, raced, told, untold>>
              => HistoryType'
<1>1. UNCHANGED buffers => BufferType'
  BY DEF TypeOK, BufferType, buffers
<1>2. UNCHANGED maps => MapType'
  BY DEF TypeOK, MapType, maps
<1>3. UNCHANGED <<flow_selected_level_map, cursor, last_exists,
                  last_sent_flow_selected_level_map>> => LevelType'
  BY DEF TypeOK, LevelType
<1>4. UNCHANGED totals => CountType'
  BY DEF TypeOK, CountType, totals
<1>5. UNCHANGED locks => LockType'
  BY DEF TypeOK, LockType, locks
<1>6. UNCHANGED <<fatal, accounted, reported, alloc_failed, raced, told, untold>>
        => HistoryType'
  BY DEF TypeOK, HistoryType
<1> QED
  BY <1>1, <1>2, <1>3, <1>4, <1>5, <1>6

LEMMA LevelsKept ==
  ASSUME TypeOK, UNCHANGED <<levels, conditions>>
  PROVE  LevelType'
BY GroupsKept DEF levels, conditions

LEMMA HistoryKept ==
  ASSUME TypeOK, UNCHANGED <<levels, conditions, history>>
  PROVE  HistoryType'
BY GroupsKept DEF levels, conditions, history

LEMMA TypeFromGroups ==
  ASSUME BufferType', MapType', LevelType', CountType', LockType', HistoryType',
         main' \in MainRec, updator' \in UpdatorRec, cond' \in CondRec,
         rotator' \in {"sleep", "write", "destroy", "create"},
         main'.pc # "idle" => main'.flow \in Flow,
         updator'.pc # "read" => updator'.flow \in Flow /\ updator'.lost \in Nat \ {0}
  PROVE  TypeInv'
BY ThreadRecs DEF TypeInv, TypeOK, CallsHaveFlows

(* What a thread does before it touches shared state. *)
LEMMA ThreadsTyped ==
  ASSUME TypeInv
  PROVE  /\ main \in MainRec /\ updator \in UpdatorRec /\ cond \in CondRec
         /\ rotator \in {"sleep", "write", "destroy", "create"}
         /\ main.pc # "idle" => main.flow \in Flow
         /\ updator.pc # "read" => updator.flow \in Flow /\ updator.lost \in Nat \ {0}
BY ThreadRecs DEF TypeInv, TypeOK, CallsHaveFlows

LEMMA MainLocal ==
  ASSUME TypeInv, main' \in MainRec, main'.pc # "idle" => main'.flow \in Flow,
         UNCHANGED <<maps, levels, buffers, totals, conditions, locks, history,
                     updator, cond, rotator>>
  PROVE  TypeInv'
BY ThreadsTyped, TypeFromGroups, GroupsKept, LevelsKept, HistoryKept DEF TypeInv

LEMMA UpdatorLocal ==
  ASSUME TypeInv, updator' \in UpdatorRec,
         updator'.pc # "read" => updator'.flow \in Flow /\ updator'.lost \in Nat \ {0},
         UNCHANGED <<maps, levels, buffers, totals, conditions, locks, history,
                     main, cond, rotator>>
  PROVE  TypeInv'
BY ThreadsTyped, TypeFromGroups, GroupsKept, LevelsKept, HistoryKept DEF TypeInv

LEMMA TakePacketType ==
  ASSUME TypeInv, NEW f \in Flow, TakePacket(f)
  PROVE  TypeInv'
<1> DEFINE p == IF f \in setting.monitored THEN "sample" ELSE "lock"
           l == IF f \in setting.monitored THEN Active ELSE NoPtr
<1>1. main \in MainRec
  BY ThreadsTyped
<1>2. main' = [main EXCEPT !.flow = f, !.pc = p, !.level_map = l]
  BY DEF TakePacket
<1>3. p \in {"sample", "lock"} /\ l \in Pointer /\ f \in 0 .. N
  BY FlowBins, PointerTypes, FlowAssumption DEF TypeInv, TypeOK
<1> HIDE DEF p, l
<1>4. main' \in MainRec /\ main'.flow = f
  BY <1>1, <1>2, <1>3 DEF MainRec
<1> QED
  BY <1>4, MainLocal DEF TakePacket

(* Reads and writes through a pointer. *)
LEMMA ReadsTyped ==
  ASSUME NEW S \in SUBSET Value, NEW map \in [Buffer -> [Flow -> S]], NEW kind,
         NEW p \in Pointer, NEW f \in Flow, NEW x \in Reads(map, kind, p, f)
  PROVE  /\ x \in Value /\ OrZero(x) \in Nat
         /\ Valid(kind, p) => x = map[p.idx][f] /\ x \in S
<1>1. p.idx \in Buffer
  BY DEF Pointer
<1>2. map[p.idx][f] \in S
  BY <1>1
<1>3. x \in Value
  BY <1>2, BoundAssumption DEF Reads, Value, Absent
<1>4. OrZero(x) \in Nat
  BY <1>3 DEF OrZero, Value, Absent
<1>5. Valid(kind, p) => x = map[p.idx][f] /\ x \in S
  BY <1>2 DEF Reads
<1> QED
  BY <1>3, <1>4, <1>5

LEMMA StoreTyped ==
  ASSUME NEW S, NEW map \in [Buffer -> [Flow -> S]], NEW kind,
         NEW p \in Pointer, NEW f \in Flow, NEW v, Valid(kind, p) => v \in S
  PROVE  /\ Store(map, kind, p, f, v) \in [Buffer -> [Flow -> S]]
         /\ Valid(kind, p) => \A b \in Buffer, g \in Flow :
              Store(map, kind, p, f, v)[b][g] =
                IF b = p.idx /\ g = f THEN v ELSE map[b][g]
<1>1. p.idx \in Buffer
  BY DEF Pointer
<1>2. CASE ~ Valid(kind, p)
  BY <1>2 DEF Store
<1>3. CASE Valid(kind, p)
  <2>1. Store(map, kind, p, f, v) = [map EXCEPT ![p.idx][f] = v]
    BY <1>3 DEF Store
  <2> QED
    BY <2>1, <1>1, <1>3
<1> QED
  BY <1>2, <1>3

LEMMA LevelTyped ==
  ASSUME NEW volume \in Nat, NEW loss \in Nat
  PROVE  LevelOf(volume, loss) \in Levels
BY DEF LevelOf, Levels

(* Least and greatest elements, as FiniteSetsExt defines them. *)
LEMMA MinTyped ==
  ASSUME NEW S \in SUBSET Flow, S # {}
  PROVE  Min(S) \in S
<1>1. S \in SUBSET Nat
  BY FlowAssumption DEF Flow
<1>2. \E m \in S : \A n \in S : m <= n
  BY <1>1, LeastNat
<1> QED
  BY <1>2 DEF Min

LEMMA MaxTyped ==
  ASSUME NEW S \in SUBSET Flow, S # {}
  PROVE  Max(S) \in S
<1> DEFINE T == {N - x : x \in S}
<1>1. T \in SUBSET Nat /\ T # {}
  <2>1. \A x \in S : N - x \in Nat
    BY FlowAssumption DEF Flow
  <2> QED
    BY <2>1
<1>2. \E m \in T : \A n \in T : m <= n
  BY <1>1, LeastNat
<1>3. PICK x \in S : \A y \in S : N - x <= N - y
  BY <1>2
<1>4. \A y \in S : x >= y
  BY <1>3, FlowAssumption DEF Flow
<1> QED
  BY <1>4 DEF Max

LEMMA SetLevelTyped ==
  ASSUME TypeOK, NEW f \in Flow, NEW l \in Levels, SetLevel(f, l)
  PROVE  /\ flow_selected_level_map' \in [Buffer -> [Flow -> Levels]]
         /\ raced' \in BOOLEAN
<1>1. flow_selected_level_map' \in [Buffer -> [Flow -> Levels]]
  <2>1. flow_selected_level_map' =
          Store(flow_selected_level_map, "level", Active, f, l)
    BY DEF SetLevel
  <2>2. Active \in Pointer /\ flow_selected_level_map \in [Buffer -> [Flow -> Levels]]
    BY PointerTypes DEF TypeOK, LevelType
  <2> QED
    BY <2>1, <2>2, StoreTyped
<1>2. raced' \in BOOLEAN
  BY DEF SetLevel
<1> QED
  BY <1>1, <1>2

(* The cursor is moved to a flow, or left. *)
LEMMA MoveCursorTyped ==
  ASSUME TypeOK, NEW p, NEW f \in Flow, MoveCursor(p, f)
  PROVE  cursor' \in 0 .. N
<1> DEFINE map == flow_selected_level_map[p.idx]
           bin == {g \in Flow : BinOf[g] = BinOf[f]}
           succ == {g \in bin : g > f /\ map[g] # Absent}
           other == {g \in Flow : BinOf[g] = BinOf[cursor]}
<1>1. AfterDel(map, f) = IF succ # {} THEN Min(succ) ELSE Max(bin)
  BY DEF AfterDel
<1>2. \/ cursor' = cursor
      \/ cursor' = AfterDel(map, f)
      \/ cursor # 0 /\ cursor' = Max(other)
  BY Zenon DEF MoveCursor
<1>3. bin # {} /\ bin \in SUBSET Flow /\ succ \in SUBSET Flow /\ other \in SUBSET Flow
  OBVIOUS
<1>4. cursor \in 0 .. N
  BY DEF TypeOK, LevelType
<1>5. cursor # 0 => other # {}
  <2>1. cursor # 0 => cursor \in Flow
    BY <1>4, FlowAssumption DEF Flow
  <2>2. cursor \in Flow => cursor \in other
    OBVIOUS
  <2> QED
    BY <2>1, <2>2
<1> HIDE DEF bin, succ, map, other
<1>6. AfterDel(map, f) \in Flow /\ (cursor # 0 => Max(other) \in Flow)
  BY <1>1, <1>3, <1>5, MinTyped, MaxTyped
<1> QED
  BY <1>2, <1>4, <1>6, FlowAssumption DEF Flow

LEMMA MapSubsets ==
  Amount \subseteq Value /\ Levels \subseteq Value /\ {Absent, 1} \subseteq Value
BY DEF Amount, Levels, Value, Absent, SELECTED_LEVEL, TARGET_LEVEL

(* The types of what the threads share, each read and written as the       *)
(* actions do.                                                             *)
LEMMA MapTypes ==
  ASSUME TypeOK
  PROVE  /\ flow_volume_map \in [Buffer -> [Flow -> Amount]]
         /\ fixed_flow_loss_volume_map \in [Buffer -> [Flow -> Amount]]
         /\ flow_loss_volume_map \in [Buffer -> [Flow -> Amount]]
         /\ flow_loss_rate_map \in [Buffer -> [Flow -> Value \X Value]]
         /\ flow_sample_map \in [Buffer -> [Flow -> {Absent, 1}]]
         /\ flow_not_sampled_volume_map \in [Buffer -> [Flow -> Value]]
         /\ flow_selected_level_map \in [Buffer -> [Flow -> Levels]]
BY DEF TypeOK, MapType, LevelType

LEMMA LeaveSamplingType ==
  ASSUME TypeInv, LeaveSampling
  PROVE  TypeInv'
<1>1. main \in MainRec /\ main.flow \in Flow /\ NoPtr \in Pointer
  BY ThreadsTyped, PointerTypes DEF LeaveSampling, TypeInv, TypeOK
<1>2. main' = [main EXCEPT !.pc = "lock", !.level_map = NoPtr]
  BY DEF LeaveSampling
<1>3. main' \in MainRec /\ main'.flow \in Flow
  BY <1>1, <1>2 DEF MainRec
<1> QED
  BY <1>3, MainLocal DEF LeaveSampling

LEMMA SamplePacketType ==
  ASSUME TypeInv, SamplePacket
  PROVE  TypeInv'
<1> DEFINE f == main.flow
<1>1. main \in MainRec /\ f \in Flow /\ NoPtr \in Pointer /\ Active \in Pointer
      /\ TypeOK
  BY ThreadsTyped, PointerTypes DEF SamplePacket, TypeInv, TypeOK
<1>2. PICK l \in Reads(flow_selected_level_map, "level", main.level_map, f),
           held \in Reads(flow_sample_map, "sample", Active, f),
           skipped \in Reads(flow_not_sampled_volume_map, "not_sampled", Active, f),
           volume \in Reads(flow_volume_map, "volume", Active, f),
           drawn \in BOOLEAN :
        LET selected == SampleAlways(l)
            sampled  == selected \/ held >= 0 \/ drawn
        IN  /\ flow_sample_map' =
                 IF sampled /\ ~ selected /\ held < 0
                 THEN Store(flow_sample_map, "sample", Active, f, 1)
                 ELSE flow_sample_map
            /\ flow_not_sampled_volume_map' =
                 IF sampled /\ skipped < 0
                 THEN Store(flow_not_sampled_volume_map, "not_sampled",
                            Active, f, OrZero(volume))
                 ELSE flow_not_sampled_volume_map
            /\ main' = IF setting.conditions = "tag"
                        THEN [main EXCEPT !.pc = "tag", !.sampled = sampled]
                        ELSE [main EXCEPT !.pc = "lock", !.sampled = sampled,
                                          !.level_map = NoPtr]
  BY DEF SamplePacket
<1> DEFINE z == SampleAlways(l) \/ held >= 0 \/ drawn
<1>3. \/ main' = [main EXCEPT !.pc = "tag", !.sampled = z]
      \/ main' = [main EXCEPT !.pc = "lock", !.sampled = z, !.level_map = NoPtr]
  BY <1>2
<1>4. z \in BOOLEAN
  BY DEF SampleAlways
<1>5. OrZero(volume) \in Value
  BY <1>1, MapTypes, MapSubsets, ReadsTyped DEF Value
<1>6. Store(flow_sample_map, "sample", Active, f, 1) \in [Buffer -> [Flow -> {Absent, 1}]]
  BY <1>1, MapTypes, StoreTyped
<1>7. Store(flow_not_sampled_volume_map, "not_sampled", Active, f, OrZero(volume))
        \in [Buffer -> [Flow -> Value]]
  BY <1>1, <1>5, MapTypes, StoreTyped
<1>8. /\ flow_sample_map' \in [Buffer -> [Flow -> {Absent, 1}]]
      /\ flow_not_sampled_volume_map' \in [Buffer -> [Flow -> Value]]
  BY <1>1, <1>2, <1>6, <1>7, MapTypes
<1>9. MapType'
  BY <1>1, <1>8, MapTypes DEF SamplePacket, MapType
<1> HIDE DEF z
<1>10. main' \in MainRec /\ main'.flow \in Flow
  BY <1>1, <1>3, <1>4 DEF MainRec
<1>11. UNCHANGED <<levels, buffers, totals, conditions, locks, history, updator,
                   cond, rotator>>
  BY DEF SamplePacket
<1> QED
  BY <1>1, <1>9, <1>10, <1>11, ThreadsTyped, TypeFromGroups, GroupsKept, LevelsKept,
     HistoryKept

LEMMA TagPacketType ==
  ASSUME TypeInv, TagPacket
  PROVE  TypeInv'
<1>1. main \in MainRec /\ main.flow \in Flow /\ NoPtr \in Pointer /\ TypeOK
  BY ThreadsTyped, PointerTypes DEF TagPacket, TypeInv, TypeOK
<1>2. main.level_map \in Pointer
  BY <1>1, MainRecFields
<1>3. PICK l \in Reads(flow_selected_level_map, "level", main.level_map, main.flow) :
        main' = [main EXCEPT !.pc = "lock", !.level_map = NoPtr,
                   !.tag = IF l > NO_SELECTED_LEVEL THEN l ELSE NO_SELECTED_LEVEL]
  BY DEF TagPacket
<1> DEFINE z == IF l > NO_SELECTED_LEVEL THEN l ELSE NO_SELECTED_LEVEL
<1>4. l \in Value
  BY <1>1, <1>2, MapTypes, MapSubsets, ReadsTyped
<1>5. z \in Nat
  BY <1>4 DEF Value, Absent, NO_SELECTED_LEVEL
<1> HIDE DEF z
<1>6. main' = [main EXCEPT !.pc = "lock", !.level_map = NoPtr, !.tag = z]
  BY <1>3 DEF z
<1>7. main' \in MainRec /\ main'.flow \in Flow
  BY <1>1, <1>5, <1>6 DEF MainRec
<1> QED
  BY <1>7, MainLocal DEF TagPacket

LEMMA NormalLockType ==
  ASSUME TypeInv, NormalLock
  PROVE  TypeInv'
<1>1. main \in MainRec /\ main.flow \in Flow /\ Active \in Pointer /\ TypeOK
  BY ThreadsTyped, PointerTypes DEF NormalLock, TypeInv, TypeOK
<1>2. main' = [main EXCEPT !.pc = "fetch", !.volume_map = Active]
  BY DEF NormalLock
<1>3. main' \in MainRec /\ main'.flow \in Flow
  BY <1>1, <1>2 DEF MainRec
<1>4. LockType'
  BY <1>1, FlowBins DEF NormalLock, LockType, TypeOK, Free
<1>5. UNCHANGED <<maps, levels, buffers, totals, conditions, history, updator, cond,
                  rotator>>
  BY DEF NormalLock
<1> QED
  BY <1>1, <1>3, <1>4, <1>5, ThreadsTyped, TypeFromGroups, GroupsKept, LevelsKept,
     HistoryKept

LEMMA NormalFetchType ==
  ASSUME TypeInv, NormalFetch
  PROVE  TypeInv'
<1>1. main \in MainRec /\ main.flow \in Flow /\ Active \in Pointer
  BY ThreadsTyped, PointerTypes DEF NormalFetch, TypeInv, TypeOK
<1>2. main' = [main EXCEPT !.pc = "update", !.other_maps = Active]
  BY DEF NormalFetch
<1>3. main' \in MainRec /\ main'.flow \in Flow
  BY <1>1, <1>2 DEF MainRec
<1> QED
  BY <1>3, MainLocal DEF NormalFetch

(* What NormalUpdate computes from what it reads. *)
LEMMA NormalUpdateValues ==
  ASSUME TypeInv, NormalUpdate
  PROVE  \E v \in Nat \ {0}, l \in Nat :
           /\ flow_volume_map' =
                Store(flow_volume_map, "volume", main.volume_map, main.flow, v)
           /\ flow_loss_rate_map' =
                Store(flow_loss_rate_map, "rate", main.other_maps, main.flow, <<l, v>>)
           /\ main' = [main EXCEPT !.pc = "level", !.volume = v, !.loss = l,
                         !.volume_map = NoPtr, !.other_maps = NoPtr]
           /\ (Valid("fixed", main.other_maps) /\ setting.loss_map_mem_type = "FIXED") =>
                l = OrZero(fixed_flow_loss_volume_map[main.other_maps.idx][main.flow])
           /\ (Valid("loss", main.other_maps) /\ setting.loss_map_mem_type # "FIXED") =>
                l = OrZero(flow_loss_volume_map[main.other_maps.idx][main.flow])
<1> DEFINE f == main.flow
<1>1. main \in MainRec /\ f \in Flow /\ TypeOK
  BY ThreadsTyped DEF NormalUpdate, TypeInv
<1>2. main.volume_map \in Pointer /\ main.other_maps \in Pointer
  BY <1>1, MainRecFields
<1>3. PICK old \in Reads(flow_volume_map, "volume", main.volume_map, f),
           loss \in IF setting.loss_map_mem_type = "FIXED"
                    THEN Reads(fixed_flow_loss_volume_map, "fixed",
                               main.other_maps, f)
                    ELSE Reads(flow_loss_volume_map, "loss",
                               main.other_maps, f) :
        /\ flow_volume_map' =
             Store(flow_volume_map, "volume", main.volume_map, f, OrZero(old) + 1)
        /\ flow_loss_rate_map' =
             Store(flow_loss_rate_map, "rate", main.other_maps, f,
                   <<OrZero(loss), OrZero(old) + 1>>)
        /\ main' = [main EXCEPT !.pc = "level", !.volume = OrZero(old) + 1,
                      !.loss = OrZero(loss), !.volume_map = NoPtr, !.other_maps = NoPtr]
  BY DEF NormalUpdate
<1>4. OrZero(old) \in Nat
  BY <1>1, <1>2, MapTypes, MapSubsets, ReadsTyped
<1> DEFINE v == OrZero(old) + 1
           l == OrZero(loss)
<1>5. v \in Nat \ {0}
  BY <1>4
<1>6. /\ flow_volume_map' =
             Store(flow_volume_map, "volume", main.volume_map, main.flow, v)
      /\ flow_loss_rate_map' =
           Store(flow_loss_rate_map, "rate", main.other_maps, main.flow, <<l, v>>)
      /\ main' = [main EXCEPT !.pc = "level", !.volume = v, !.loss = l,
                    !.volume_map = NoPtr, !.other_maps = NoPtr]
  BY <1>3
<1>7. CASE setting.loss_map_mem_type = "FIXED"
  <2>1. loss \in Reads(fixed_flow_loss_volume_map, "fixed", main.other_maps, f)
    BY <1>7
  <2>2. fixed_flow_loss_volume_map \in [Buffer -> [Flow -> Amount]] /\ Amount \in SUBSET Value
    BY <1>1, MapTypes, MapSubsets
  <2> HIDE DEF f
  <2>3. /\ OrZero(loss) \in Nat
        /\ Valid("fixed", main.other_maps) =>
             loss = fixed_flow_loss_volume_map[main.other_maps.idx][f]
    <3>1. OrZero(loss) \in Nat
      BY <2>1, <2>2, <1>1, <1>2, ReadsTyped
    <3>2. ASSUME Valid("fixed", main.other_maps)
          PROVE  loss = fixed_flow_loss_volume_map[main.other_maps.idx][f]
      BY <3>2, <2>1 DEF Reads
    <3> QED
      BY <3>1, <3>2
  <2>4. (Valid("fixed", main.other_maps) =>
             l = OrZero(fixed_flow_loss_volume_map[main.other_maps.idx][main.flow])) /\ l \in Nat
    BY <2>3 DEF f
  <2> HIDE DEF v, l
  <2> QED
    BY <1>5, <1>7, <1>6, <2>4
<1>8. CASE setting.loss_map_mem_type # "FIXED"
  <2>1. loss \in Reads(flow_loss_volume_map, "loss", main.other_maps, f)
    BY <1>8
  <2>2. flow_loss_volume_map \in [Buffer -> [Flow -> Amount]] /\ Amount \in SUBSET Value
    BY <1>1, MapTypes, MapSubsets
  <2> HIDE DEF f
  <2>3. /\ OrZero(loss) \in Nat
        /\ Valid("loss", main.other_maps) =>
             loss = flow_loss_volume_map[main.other_maps.idx][f]
    <3>1. OrZero(loss) \in Nat
      BY <2>1, <2>2, <1>1, <1>2, ReadsTyped
    <3>2. ASSUME Valid("loss", main.other_maps)
          PROVE  loss = flow_loss_volume_map[main.other_maps.idx][f]
      BY <3>2, <2>1 DEF Reads
    <3> QED
      BY <3>1, <3>2
  <2>4. (Valid("loss", main.other_maps) =>
             l = OrZero(flow_loss_volume_map[main.other_maps.idx][main.flow])) /\ l \in Nat
    BY <2>3 DEF f
  <2> HIDE DEF v, l
  <2> QED
    BY <1>5, <1>8, <1>6, <2>4
<1> QED
  BY <1>7, <1>8

LEMMA NormalUpdateType ==
  ASSUME TypeInv, NormalUpdate
  PROVE  TypeInv'
<1>1. main \in MainRec /\ main.flow \in Flow /\ NoPtr \in Pointer /\ TypeOK
  BY ThreadsTyped, PointerTypes DEF NormalUpdate, TypeInv, TypeOK
<1>2. main.volume_map \in Pointer /\ main.other_maps \in Pointer
  BY <1>1, MainRecFields
<1>3. PICK v \in Nat \ {0}, l \in Nat :
        /\ flow_volume_map' =
             Store(flow_volume_map, "volume", main.volume_map, main.flow, v)
        /\ flow_loss_rate_map' =
             Store(flow_loss_rate_map, "rate", main.other_maps, main.flow, <<l, v>>)
        /\ main' = [main EXCEPT !.pc = "level", !.volume = v, !.loss = l,
                      !.volume_map = NoPtr, !.other_maps = NoPtr]
  BY NormalUpdateValues
<1>4. v \in Amount /\ <<l, v>> \in Value \X Value
  BY DEF Amount, Value
<1>5. flow_volume_map' \in [Buffer -> [Flow -> Amount]]
  BY <1>1, <1>2, <1>3, <1>4, MapTypes, StoreTyped
<1>6. flow_loss_rate_map' \in [Buffer -> [Flow -> Value \X Value]]
  BY <1>1, <1>2, <1>3, <1>4, MapTypes, StoreTyped
<1>7. MapType'
  BY <1>1, <1>5, <1>6, MapTypes DEF NormalUpdate, MapType
<1>8. main' \in MainRec /\ main'.flow \in Flow
  BY <1>1, <1>3 DEF MainRec
<1>9. UNCHANGED <<levels, buffers, totals, conditions, locks, history, updator, cond,
                  rotator>>
  BY DEF NormalUpdate
<1> QED
  BY <1>1, <1>7, <1>8, <1>9, ThreadsTyped, TypeFromGroups, GroupsKept, LevelsKept,
     HistoryKept

(* What NormalLevel does to main. *)
LEMMA NormalLevelMain ==
  ASSUME TypeInv, NormalLevel
  PROVE  /\ main' \in MainRec /\ main'.flow = main.flow /\ main'.tag = main.tag
         /\ main'.sampled = main.sampled /\ main'.moved = main.moved
         /\ \/ main'.pc = "cursor" /\ mutexs' = mutexs
            \/ /\ main'.pc = "count"
               /\ mutexs' = [mutexs EXCEPT ![BinOf[main.flow]] = Free]
<1>1. main \in MainRec /\ Active \in Pointer
  BY ThreadsTyped, PointerTypes DEF TypeInv, TypeOK
<1>2. \/ /\ main' = [main EXCEPT !.pc = "cursor", !.other_maps = Active]
         /\ mutexs' = mutexs
      \/ /\ main' = [main EXCEPT !.pc = "count", !.volume = 0, !.loss = 0]
         /\ mutexs' = [mutexs EXCEPT ![BinOf[main.flow]] = Free]
  BY DEF NormalLevel
<1>3. CASE main' = [main EXCEPT !.pc = "cursor", !.other_maps = Active]
           /\ mutexs' = mutexs
  BY <1>1, <1>3 DEF MainRec
<1>4. CASE main' = [main EXCEPT !.pc = "count", !.volume = 0, !.loss = 0]
           /\ mutexs' = [mutexs EXCEPT ![BinOf[main.flow]] = Free]
  BY <1>1, <1>4 DEF MainRec
<1> QED
  BY <1>2, <1>3, <1>4

LEMMA NormalLevelType ==
  ASSUME TypeInv, NormalLevel
  PROVE  TypeInv'
<1>1. main \in MainRec /\ main.flow \in Flow /\ TypeOK
  BY ThreadsTyped DEF NormalLevel, TypeInv
<1>2. LevelOf(main.volume, main.loss) \in Levels
  BY <1>1, MainRecFields, LevelTyped
<1>3. /\ flow_selected_level_map' \in [Buffer -> [Flow -> Levels]]
      /\ raced' \in BOOLEAN
  BY <1>1, <1>2, SetLevelTyped DEF NormalLevel
<1>4. main' \in MainRec /\ main'.flow \in Flow
  BY <1>1, NormalLevelMain
<1>5. UNCHANGED <<maps, cursor, buffers, totals, conditions, packet_send_mutex,
                  data_warehouse_mutex, history, updator, cond, rotator>>
  BY DEF NormalLevel
<1>6. LockType'
  BY <1>1, <1>5, NormalLevelMain, FlowBins DEF LockType, TypeOK, Free
<1>7. LevelType' /\ HistoryType'
  BY <1>1, <1>3, <1>5 DEF conditions, history, TypeOK, LevelType, HistoryType
<1> QED
  BY <1>1, <1>4, <1>5, <1>6, <1>7, ThreadsTyped, TypeFromGroups, GroupsKept

LEMMA NormalCursorType ==
  ASSUME TypeInv, NormalCursor
  PROVE  TypeInv'
<1>1. main \in MainRec /\ main.flow \in Flow /\ TypeOK /\ NoPtr \in Pointer
  BY ThreadsTyped, PointerTypes DEF NormalCursor, TypeInv, TypeOK
<1>2. cursor' \in 0 .. N
  BY <1>1, MoveCursorTyped DEF NormalCursor
<1>3. main' = [main EXCEPT !.pc = "count", !.volume = 0, !.loss = 0,
                           !.other_maps = NoPtr]
  BY DEF NormalCursor
<1>4. main' \in MainRec /\ main'.flow \in Flow
  BY <1>1, <1>3 DEF MainRec
<1>5. LockType'
  BY <1>1, FlowBins DEF NormalCursor, LockType, TypeOK, Free
<1>6. LevelType' /\ HistoryType'
  BY <1>1, <1>2 DEF NormalCursor, conditions, history, TypeOK, LevelType, HistoryType
<1>7. UNCHANGED <<maps, buffers, totals, updator, cond, rotator>>
  BY DEF NormalCursor
<1> QED
  BY <1>1, <1>4, <1>5, <1>6, <1>7, ThreadsTyped, TypeFromGroups, GroupsKept

LEMMA CountReadType ==
  ASSUME TypeInv, CountRead
  PROVE  TypeInv'
<1>1. /\ main \in MainRec /\ main.flow \in Flow
      /\ active_idx \in Buffer /\ volume_sent[active_idx] \in Nat
  BY ThreadsTyped DEF CountRead, TypeInv, TypeOK, BufferType, CountType
<1>2. main' = [main EXCEPT !.pc = "add", !.idx = active_idx,
                           !.total = volume_sent[active_idx]]
  BY DEF CountRead
<1>3. main' \in MainRec /\ main'.flow \in Flow
  BY <1>1, <1>2 DEF MainRec
<1> QED
  BY <1>3, MainLocal DEF CountRead

LEMMA CountWriteType ==
  ASSUME TypeInv, CountWrite
  PROVE  TypeInv'
<1>1. main \in MainRec /\ main.flow \in Flow /\ 0 \in Buffer /\ TypeOK
  BY ThreadsTyped DEF CountWrite, TypeInv, Buffer
<1>2. main' = [main EXCEPT !.pc = "send", !.idx = 0, !.total = 0]
  BY DEF CountWrite
<1>3. main' \in MainRec /\ main'.flow \in Flow
  BY <1>1, <1>2 DEF MainRec
<1>4. main.idx \in Buffer /\ main.total + 1 \in Nat
  BY <1>1, MainRecFields
<1>5. CountType'
  BY <1>1, <1>4 DEF CountWrite, TypeOK, CountType
<1>6. UNCHANGED <<maps, levels, buffers, conditions, locks, history, updator, cond,
                  rotator>>
  BY DEF CountWrite
<1> QED
  BY <1>1, <1>3, <1>5, <1>6, ThreadsTyped, TypeFromGroups, GroupsKept, LevelsKept,
     HistoryKept

LEMMA IdleTypes == MainIdle \in MainRec /\ UpdatorIdle \in UpdatorRec
<1>1. NoPtr \in Pointer /\ 0 \in Buffer /\ 0 \in 0 .. N
  BY FlowAssumption DEF NoPtr, Pointer, Buffer
<1> QED
  BY <1>1 DEF MainIdle, MainRec, UpdatorIdle, UpdatorRec, NO_SELECTED_LEVEL

LEMMA SendPacketType ==
  ASSUME TypeInv, SendPacket
  PROVE  TypeInv'
<1>1. main.flow \in Flow /\ TypeOK
  BY ThreadsTyped DEF SendPacket, TypeInv
<1>2. main' \in MainRec /\ main'.pc = "idle"
  BY IdleTypes DEF SendPacket, MainIdle
<1>3. HistoryType'
  BY <1>1 DEF SendPacket, TypeOK, HistoryType, levels, conditions
<1>4. UNCHANGED <<maps, levels, buffers, totals, conditions, locks, updator, cond,
                  rotator>>
  BY DEF SendPacket
<1> QED
  BY <1>1, <1>2, <1>3, <1>4, ThreadsTyped, TypeFromGroups, GroupsKept, LevelsKept
-----------------------------------------------------------------------------
LEMMA ReportLossType ==
  ASSUME TypeInv, NEW f \in Flow, NEW n \in 1 .. MaxPackets, ReportLoss(f, n)
  PROVE  TypeInv'
<1>1. updator \in UpdatorRec /\ TypeOK /\ n \in Nat \ {0} /\ f \in 0 .. N
  BY ThreadsTyped, BoundAssumption, FlowAssumption DEF TypeInv, Flow
<1>2. updator' = [updator EXCEPT !.pc = "lock", !.flow = f, !.lost = n]
  BY DEF ReportLoss
<1>3. updator' \in UpdatorRec /\ updator'.flow \in Flow /\ updator'.lost \in Nat \ {0}
  BY <1>1, <1>2 DEF UpdatorRec
<1>4. HistoryType'
  BY <1>1 DEF ReportLoss, TypeOK, HistoryType, levels, conditions
<1>5. UNCHANGED <<maps, levels, buffers, totals, conditions, locks, main, cond,
                  rotator>>
  BY DEF ReportLoss
<1> QED
  BY <1>1, <1>3, <1>4, <1>5, ThreadsTyped, TypeFromGroups, GroupsKept, LevelsKept

LEMMA UpdatorRecFields ==
  ASSUME NEW u \in UpdatorRec
  PROVE  /\ u.pc \in {"read", "lock", "fetch", "add", "update", "level"}
         /\ u.flow \in 0 .. N /\ u.lost \in Nat /\ u.volume_map \in Pointer
         /\ u.other_maps \in Pointer /\ u.volume \in Nat /\ u.loss \in Nat
         /\ u.idx \in Buffer /\ u.total \in Nat
BY DEF UpdatorRec

LEMMA LossLockType ==
  ASSUME TypeInv, LossLock
  PROVE  TypeInv'
<1>1. /\ updator \in UpdatorRec /\ updator.flow \in Flow
      /\ updator.lost \in Nat \ {0} /\ Active \in Pointer /\ TypeOK
  BY ThreadsTyped, PointerTypes DEF LossLock, TypeInv, TypeOK
<1>2. updator' = [updator EXCEPT !.pc = "fetch", !.volume_map = Active]
  BY DEF LossLock
<1>3. updator' \in UpdatorRec /\ updator'.flow \in Flow /\ updator'.lost \in Nat \ {0}
  BY <1>1, <1>2 DEF UpdatorRec
<1>4. LockType'
  BY <1>1, FlowBins DEF LossLock, LockType, TypeOK, Free
<1>5. UNCHANGED <<maps, levels, buffers, totals, conditions, history, main, cond,
                  rotator>>
  BY DEF LossLock
<1> QED
  BY <1>1, <1>3, <1>4, <1>5, ThreadsTyped, TypeFromGroups, GroupsKept, LevelsKept,
     HistoryKept

LEMMA LossFetchType ==
  ASSUME TypeInv, LossFetch
  PROVE  TypeInv'
<1>1. /\ updator \in UpdatorRec /\ updator.flow \in Flow
      /\ updator.lost \in Nat \ {0} /\ Active \in Pointer
      /\ active_idx \in Buffer /\ volume_lost[active_idx] \in Nat
  BY ThreadsTyped, PointerTypes DEF LossFetch, TypeInv, TypeOK, BufferType, CountType
<1>2. updator' = [updator EXCEPT !.pc = "add", !.other_maps = Active,
                    !.idx = active_idx, !.total = volume_lost[active_idx]]
  BY DEF LossFetch
<1>3. updator' \in UpdatorRec /\ updator'.flow \in Flow /\ updator'.lost \in Nat \ {0}
  BY <1>1, <1>2 DEF UpdatorRec
<1> QED
  BY <1>3, UpdatorLocal DEF LossFetch

LEMMA LossCountType ==
  ASSUME TypeInv, LossCount
  PROVE  TypeInv'
<1>1. /\ updator \in UpdatorRec /\ updator.flow \in Flow
      /\ updator.lost \in Nat \ {0} /\ 0 \in Buffer /\ TypeOK
  BY ThreadsTyped DEF LossCount, TypeInv, Buffer
<1>2. updator' = [updator EXCEPT !.pc = "update", !.idx = 0, !.total = 0]
  BY DEF LossCount
<1>3. updator' \in UpdatorRec /\ updator'.flow \in Flow /\ updator'.lost \in Nat \ {0}
  BY <1>1, <1>2 DEF UpdatorRec
<1>4. updator.idx \in Buffer /\ updator.total + updator.lost \in Nat
  BY <1>1, UpdatorRecFields
<1>5. CountType'
  BY <1>1, <1>4 DEF LossCount, TypeOK, CountType
<1>6. UNCHANGED <<maps, levels, buffers, conditions, locks, history, main, cond,
                  rotator>>
  BY DEF LossCount
<1> QED
  BY <1>1, <1>3, <1>5, <1>6, ThreadsTyped, TypeFromGroups, GroupsKept, LevelsKept,
     HistoryKept

LEMMA FixedOutcomesTyped ==
  ASSUME NEW map \in [Flow -> Amount], NEW f \in Flow, NEW n \in Nat \ {0},
         NEW x \in FixedOutcomes(map, f, n)
  PROVE  x \in Amount /\ OrZero(x) <= OrZero(map[f]) + n
<1>1. map[f] \in Amount
  OBVIOUS
<1>2. (x \in {map[f] + n} /\ map[f] > 0) \/ x = map[f] \/ x = Absent \/ x = n
  BY DEF FixedOutcomes
<1> QED
  BY <1>1, <1>2 DEF Amount, Absent, OrZero

LEMMA FixedViewsTyped ==
  ASSUME TypeInv, updator.pc # "read", NEW x \in FixedViews
  PROVE  /\ x \in Value /\ OrZero(x) \in Nat
         /\ (setting.loss_map_mem_type = "FIXED" /\ Valid("fixed", updator.other_maps))
              => /\ x \in Amount
                 /\ OrZero(x) <=
                      OrZero(fixed_flow_loss_volume_map[updator.other_maps.idx]
                               [updator.flow]) + updator.lost
<1> DEFINE p == updator.other_maps
           map == fixed_flow_loss_volume_map[p.idx]
<1>1. /\ updator \in UpdatorRec /\ updator.flow \in Flow
      /\ updator.lost \in Nat \ {0} /\ TypeOK
  BY ThreadsTyped DEF TypeInv
<1>2. p \in Pointer
  BY <1>1, UpdatorRecFields
<1>3. map \in [Flow -> Amount]
  BY <1>1, <1>2, MapTypes DEF Pointer
<1>4. \A z \in Value : OrZero(z) \in Nat
  BY DEF Value, Absent, OrZero
<1> HIDE DEF p, map
<1>5. CASE setting.loss_map_mem_type = "FIXED" /\ Valid("fixed", p)
  <2>1. x \in FixedOutcomes(map, updator.flow, updator.lost)
    BY <1>5 DEF FixedViews, p, map
  <2>2. x \in Amount /\ OrZero(x) <= OrZero(map[updator.flow]) + updator.lost
    BY <2>1, <1>1, <1>3, FixedOutcomesTyped
  <2> QED
    BY <2>2, <1>4, MapSubsets DEF p, map
<1>6. CASE ~ (setting.loss_map_mem_type = "FIXED" /\ Valid("fixed", p))
  <2>1. x = Absent \/ x \in Absent .. MaxPackets
    BY <1>6 DEF FixedViews, p
  <2>2. x \in Value
    BY <2>1, BoundAssumption DEF Value, Absent
  <2> QED
    BY <2>2, <1>4, <1>6 DEF p
<1> QED
  BY <1>5, <1>6

(* What LossUpdate computes from what it reads, if it does not give up. *)
LEMMA LossUpdateValues ==
  ASSUME TypeInv, LossUpdate
  PROVE  \/ \E v \in Reads(flow_volume_map, "volume", updator.volume_map, updator.flow) :
              v < 0 /\ fatal' = TRUE
              /\ mutexs' = [mutexs EXCEPT ![BinOf[updator.flow]] = Free]
              /\ updator' = UpdatorIdle
              /\ UNCHANGED <<fixed_flow_loss_volume_map, flow_loss_volume_map,
                             flow_loss_rate_map>>
         \/ \E v \in Reads(flow_volume_map, "volume", updator.volume_map, updator.flow),
               old \in Reads(flow_loss_volume_map, "loss", updator.other_maps,
                             updator.flow),
               kept \in FixedViews, l \in Nat :
              /\ v \in Nat /\ OrZero(old) \in Nat
              /\ flow_loss_volume_map' =
                   Store(flow_loss_volume_map, "loss", updator.other_maps,
                         updator.flow, OrZero(old) + updator.lost)
              /\ fixed_flow_loss_volume_map' =
                   IF setting.loss_map_mem_type = "FIXED"
                   THEN Store(fixed_flow_loss_volume_map, "fixed",
                              updator.other_maps, updator.flow, kept)
                   ELSE fixed_flow_loss_volume_map
              /\ l = IF setting.loss_map_mem_type = "FIXED" THEN OrZero(kept)
                     ELSE OrZero(old) + updator.lost
              /\ flow_loss_rate_map' =
                   Store(flow_loss_rate_map, "rate", updator.other_maps,
                         updator.flow, <<l, v>>)
              /\ updator' = [updator EXCEPT !.pc = "level", !.volume = v, !.loss = l,
                               !.volume_map = NoPtr, !.other_maps = NoPtr]
              /\ UNCHANGED <<fatal, mutexs>>
<1> DEFINE f == updator.flow
<1>1. /\ updator \in UpdatorRec /\ f \in Flow /\ updator.pc # "read"
      /\ updator.lost \in Nat \ {0} /\ TypeOK
  BY ThreadsTyped DEF LossUpdate, TypeInv
<1>2. updator.volume_map \in Pointer /\ updator.other_maps \in Pointer
  BY <1>1, UpdatorRecFields
<1>3. PICK v \in Reads(flow_volume_map, "volume", updator.volume_map, f),
           old \in Reads(flow_loss_volume_map, "loss", updator.other_maps, f),
           kept \in FixedViews :
           \/ /\ v < 0
              /\ fatal' = TRUE
              /\ mutexs' = [mutexs EXCEPT ![BinOf[f]] = Free]
              /\ updator' = UpdatorIdle
              /\ UNCHANGED <<fixed_flow_loss_volume_map, flow_loss_volume_map,
                             flow_loss_rate_map>>
           \/ LET fixed == setting.loss_map_mem_type = "FIXED"
                  exact == OrZero(old) + updator.lost
                  l     == IF fixed THEN OrZero(kept) ELSE exact
              IN  /\ v >= 0
                  /\ flow_loss_volume_map' =
                       Store(flow_loss_volume_map, "loss", updator.other_maps, f,
                             exact)
                  /\ fixed_flow_loss_volume_map' =
                       IF fixed THEN Store(fixed_flow_loss_volume_map, "fixed",
                                           updator.other_maps, f, kept)
                       ELSE fixed_flow_loss_volume_map
                  /\ flow_loss_rate_map' =
                       Store(flow_loss_rate_map, "rate", updator.other_maps, f,
                             <<l, v>>)
                  /\ updator' = [updator EXCEPT !.pc = "level", !.volume = v,
                                   !.loss = l, !.volume_map = NoPtr,
                                   !.other_maps = NoPtr]
                  /\ UNCHANGED <<fatal, mutexs>>
  BY DEF LossUpdate
<1>4. v \in Value
  BY <1>1, <1>2, MapTypes, MapSubsets, ReadsTyped
<1>5. OrZero(old) \in Nat
  BY <1>1, <1>2, MapTypes, MapSubsets, ReadsTyped
<1>6. OrZero(kept) \in Nat
  BY <1>1, FixedViewsTyped
<1> DEFINE l == IF setting.loss_map_mem_type = "FIXED" THEN OrZero(kept)
                ELSE OrZero(old) + updator.lost
<1>7. l \in Nat
  BY <1>1, <1>5, <1>6
<1>8. CASE v < 0
  <2>1. ~ (v >= 0)
    BY <1>4, <1>8 DEF Value, Absent
  <2> QED
    BY <1>3, <1>8, <2>1
<1>9. CASE ~ (v < 0)
  <2>1. v \in Nat
    BY <1>4, <1>9 DEF Value, Absent
  <2>2. /\ flow_loss_volume_map' =
             Store(flow_loss_volume_map, "loss", updator.other_maps,
                   updator.flow, OrZero(old) + updator.lost)
        /\ fixed_flow_loss_volume_map' =
             IF setting.loss_map_mem_type = "FIXED"
             THEN Store(fixed_flow_loss_volume_map, "fixed",
                        updator.other_maps, updator.flow, kept)
             ELSE fixed_flow_loss_volume_map
        /\ flow_loss_rate_map' =
             Store(flow_loss_rate_map, "rate", updator.other_maps,
                   updator.flow, <<l, v>>)
        /\ updator' = [updator EXCEPT !.pc = "level", !.volume = v, !.loss = l,
                         !.volume_map = NoPtr, !.other_maps = NoPtr]
        /\ UNCHANGED <<fatal, mutexs>>
    BY <1>3, <1>9
  <2>3. l = IF setting.loss_map_mem_type = "FIXED" THEN OrZero(kept)
            ELSE OrZero(old) + updator.lost
    OBVIOUS
  <2> HIDE DEF l
  <2> QED
    BY <1>5, <1>7, <2>1, <2>2, <2>3
<1> QED
  BY <1>8, <1>9

LEMMA LossUpdateType ==
  ASSUME TypeInv, LossUpdate
  PROVE  TypeInv'
<1> DEFINE f == updator.flow
<1>1. /\ updator \in UpdatorRec /\ f \in Flow /\ updator.pc # "read"
      /\ updator.lost \in Nat \ {0} /\ TypeOK /\ NoPtr \in Pointer
  BY ThreadsTyped, PointerTypes DEF LossUpdate, TypeInv, TypeOK
<1>2. updator.volume_map \in Pointer /\ updator.other_maps \in Pointer
  BY <1>1, UpdatorRecFields
<1>3. UNCHANGED <<flow_volume_map, flow_sample_map, flow_not_sampled_volume_map,
                  levels, buffers, totals, conditions, packet_send_mutex,
                  data_warehouse_mutex, accounted, reported, alloc_failed, main,
                  cond, rotator>>
  BY DEF LossUpdate
<1>4. SUFFICES ASSUME MapType', LockType', fatal' \in BOOLEAN, updator' \in UpdatorRec,
                      updator'.pc # "read" =>
                        updator'.flow \in Flow /\ updator'.lost \in Nat \ {0}
               PROVE  TypeInv'
  <2>1. CASE fatal' = TRUE /\ updator' = UpdatorIdle
             /\ mutexs' = [mutexs EXCEPT ![BinOf[f]] = Free]
             /\ UNCHANGED <<fixed_flow_loss_volume_map, flow_loss_volume_map,
                            flow_loss_rate_map>>
    <3>1. MapType'
      BY <1>1, <1>3, <2>1 DEF TypeOK, MapType
    <3>2. LockType'
      BY <1>1, <1>3, <2>1, FlowBins DEF TypeOK, LockType, Free
    <3>3. updator' \in UpdatorRec /\ updator'.pc = "read"
      BY <2>1, IdleTypes DEF UpdatorIdle
    <3> QED
      BY <2>1, <3>1, <3>2, <3>3, <1>4
  <2>2. CASE \E v \in Reads(flow_volume_map, "volume", updator.volume_map, updator.flow),
               old \in Reads(flow_loss_volume_map, "loss", updator.other_maps,
                             updator.flow),
               kept \in FixedViews, l \in Nat :
              /\ v \in Nat /\ OrZero(old) \in Nat
              /\ flow_loss_volume_map' =
                   Store(flow_loss_volume_map, "loss", updator.other_maps,
                         updator.flow, OrZero(old) + updator.lost)
              /\ fixed_flow_loss_volume_map' =
                   IF setting.loss_map_mem_type = "FIXED"
                   THEN Store(fixed_flow_loss_volume_map, "fixed",
                              updator.other_maps, updator.flow, kept)
                   ELSE fixed_flow_loss_volume_map
              /\ flow_loss_rate_map' =
                   Store(flow_loss_rate_map, "rate", updator.other_maps,
                         updator.flow, <<l, v>>)
              /\ updator' = [updator EXCEPT !.pc = "level", !.volume = v, !.loss = l,
                               !.volume_map = NoPtr, !.other_maps = NoPtr]
              /\ UNCHANGED <<fatal, mutexs>>
    <3>1. PICK v \in Nat, old \in Reads(flow_loss_volume_map, "loss",
                                        updator.other_maps, updator.flow),
               kept \in FixedViews, l \in Nat :
              /\ OrZero(old) \in Nat
              /\ flow_loss_volume_map' =
                   Store(flow_loss_volume_map, "loss", updator.other_maps,
                         updator.flow, OrZero(old) + updator.lost)
              /\ fixed_flow_loss_volume_map' =
                   IF setting.loss_map_mem_type = "FIXED"
                   THEN Store(fixed_flow_loss_volume_map, "fixed",
                              updator.other_maps, updator.flow, kept)
                   ELSE fixed_flow_loss_volume_map
              /\ flow_loss_rate_map' =
                   Store(flow_loss_rate_map, "rate", updator.other_maps,
                         updator.flow, <<l, v>>)
              /\ updator' = [updator EXCEPT !.pc = "level", !.volume = v, !.loss = l,
                               !.volume_map = NoPtr, !.other_maps = NoPtr]
              /\ UNCHANGED <<fatal, mutexs>>
      BY <2>2
    <3>2. OrZero(old) + updator.lost \in Amount /\ <<l, v>> \in Value \X Value
      BY <1>1, <3>1 DEF Amount, Value
    <3>3. flow_loss_volume_map' \in [Buffer -> [Flow -> Amount]]
      BY <1>1, <1>2, <3>1, <3>2, MapTypes, StoreTyped
    <3>4. flow_loss_rate_map' \in [Buffer -> [Flow -> Value \X Value]]
      BY <1>1, <1>2, <3>1, <3>2, MapTypes, StoreTyped
    <3>5. fixed_flow_loss_volume_map' \in [Buffer -> [Flow -> Amount]]
      <4>1. CASE setting.loss_map_mem_type = "FIXED"
        <5>1. Valid("fixed", updator.other_maps) => kept \in Amount
          BY <4>1, <1>1, FixedViewsTyped
        <5> QED
          BY <4>1, <5>1, <1>1, <1>2, <3>1, MapTypes, StoreTyped
      <4>2. CASE setting.loss_map_mem_type # "FIXED"
        BY <4>2, <1>1, <3>1, MapTypes
      <4> QED
        BY <4>1, <4>2
    <3>6. MapType'
      BY <1>1, <1>3, <3>3, <3>4, <3>5, MapTypes DEF MapType
    <3>7. LockType' /\ fatal' \in BOOLEAN
      BY <1>1, <1>3, <3>1 DEF TypeOK, LockType, HistoryType
    <3>8. updator' \in UpdatorRec /\ updator'.flow \in Flow
          /\ updator'.lost \in Nat \ {0}
      BY <1>1, <3>1 DEF UpdatorRec
    <3> QED
      BY <3>6, <3>7, <3>8, <1>4
  <2> QED
    BY <2>1, <2>2, LossUpdateValues
<1>5. HistoryType'
  BY <1>1, <1>3, <1>4 DEF TypeOK, HistoryType, levels, conditions
<1> QED
  BY <1>1, <1>3, <1>4, <1>5, ThreadsTyped, TypeFromGroups, GroupsKept, LevelsKept

LEMMA LossLevelType ==
  ASSUME TypeInv, LossLevel
  PROVE  TypeInv'
<1>1. updator \in UpdatorRec /\ updator.flow \in Flow /\ TypeOK /\ main \in MainRec
  BY ThreadsTyped DEF LossLevel, TypeInv
<1>2. LevelOf(updator.volume, updator.loss) \in Levels
  BY <1>1, UpdatorRecFields, LevelTyped
<1>3. /\ flow_selected_level_map' \in [Buffer -> [Flow -> Levels]]
      /\ cursor' \in 0 .. N /\ raced' \in BOOLEAN
  <2>1. cursor' \in 0 .. N
    <3>1. MoveCursor(Active, updator.flow) \/ UNCHANGED cursor
      BY DEF LossLevel
    <3> QED
      BY <1>1, <3>1, MoveCursorTyped DEF TypeOK, LevelType
  <2> QED
    BY <1>1, <1>2, <2>1, SetLevelTyped DEF LossLevel
<1>4. updator' \in UpdatorRec /\ updator'.pc = "read"
  BY IdleTypes DEF LossLevel, UpdatorIdle
<1> DEFINE z == main.moved \/ (main.pc = "tag" /\ main.flow = updator.flow)
<1>5. main' = [main EXCEPT !.moved = z]
  BY DEF LossLevel
<1>6. z \in BOOLEAN
  OBVIOUS
<1> HIDE DEF z
<1>7. main' \in MainRec /\ main'.pc = main.pc /\ main'.flow = main.flow
  BY <1>1, <1>5, <1>6 DEF MainRec
<1>8. LockType'
  BY <1>1, FlowBins DEF LossLevel, LockType, TypeOK, Free
<1>9. LevelType' /\ HistoryType'
  BY <1>1, <1>3 DEF LossLevel, conditions, history, TypeOK, LevelType, HistoryType
<1>10. UNCHANGED <<maps, buffers, totals, cond, rotator>>
  BY DEF LossLevel
<1> QED
  BY <1>1, <1>4, <1>7, <1>8, <1>9, <1>10, ThreadsTyped, TypeFromGroups, GroupsKept
-----------------------------------------------------------------------------
(* The condition sender. *)
LEMMA ViewsTyped ==
  ASSUME TypeInv, NEW map, map \in LevelViews \/ map \in LastViews
  PROVE  map \in [Flow -> Levels]
<1>1. cond.level_map \in Pointer
  BY ThreadsTyped DEF CondRec
<1>2. flow_selected_level_map[cond.level_map.idx] \in [Flow -> Levels]
  BY <1>1 DEF TypeInv, TypeOK, LevelType, Pointer
<1>3. last_sent_flow_selected_level_map \in [Flow -> Levels]
  BY DEF TypeInv, TypeOK, LevelType
<1> QED
  BY <1>2, <1>3 DEF LevelViews, LastViews, Levels

LEMMA NextVisit ==
  ASSUME TypeInv, NEW map \in [Flow -> Levels], ToVisit(map) # {}
  PROVE  /\ Min(ToVisit(map)) \in Flow /\ Min(ToVisit(map)) \in 0 .. N
         /\ map[Min(ToVisit(map))] \in {SELECTED_LEVEL, TARGET_LEVEL}
<1>1. ToVisit(map) \in SUBSET Flow
  BY DEF ToVisit
<1>2. Min(ToVisit(map)) \in ToVisit(map)
  BY <1>1, MinTyped
<1>3. Min(ToVisit(map)) \in Flow /\ map[Min(ToVisit(map))] # Absent
  BY <1>2 DEF ToVisit
<1>4. map[Min(ToVisit(map))] \in Levels
  BY <1>3
<1> QED
  BY <1>3, <1>4, FlowAssumption DEF Levels, Flow

LEMMA ConditionTyped ==
  ASSUME TypeOK, NEW f \in Flow,
         NEW l \in {NO_SELECTED_LEVEL, SELECTED_LEVEL, TARGET_LEVEL},
         SendCondition(f, l) \/ UNCHANGED <<told, untold, condition_pkt_num_sent>>
  PROVE  /\ told' \in [Flow -> {NO_SELECTED_LEVEL, SELECTED_LEVEL, TARGET_LEVEL}]
         /\ untold' \subseteq Flow
         /\ condition_pkt_num_sent' \in [Buffer -> Nat]
<1>1. /\ untold \subseteq Flow
      /\ told \in [Flow -> {NO_SELECTED_LEVEL, SELECTED_LEVEL, TARGET_LEVEL}]
      /\ condition_pkt_num_sent \in [Buffer -> Nat] /\ active_idx \in Buffer
  BY DEF TypeOK, HistoryType, CountType, BufferType
<1> QED
  BY <1>1 DEF SendCondition

(* A step of the condition sender that keeps its own types keeps all. *)
LEMMA CondStepTyped ==
  ASSUME TypeInv, cond' \in CondRec, LevelType', LockType', CountType', HistoryType',
         UNCHANGED <<maps, buffers, main, updator, rotator>>
  PROVE  TypeInv'
BY ThreadsTyped, TypeFromGroups, GroupsKept DEF TypeInv

LEMMA CondType ==
  ASSUME TypeInv, Cond
  PROVE  TypeInv'
<1>0. /\ cond \in CondRec /\ TypeOK /\ Active \in Pointer /\ NoPtr \in Pointer
  BY ThreadsTyped, PointerTypes DEF TypeInv, TypeOK
<1>1. \A p \in {"wait", "dw", "plus", "minus", "renew", "copy", "ended"} :
        /\ [cond EXCEPT !.pc = p] \in CondRec
        /\ [pc |-> p, level_map |-> Active] \in CondRec
        /\ [pc |-> p, level_map |-> NoPtr] \in CondRec
  BY <1>0 DEF CondRec
<1>2. CASE CondLockSend
  <2>1. LockType' /\ cond' \in CondRec
    BY <1>0, <1>1, <1>2 DEF CondLockSend, TypeOK, LockType
  <2> QED
    BY <1>0, <1>2, <2>1, CondStepTyped, GroupsKept, LevelsKept, HistoryKept
       DEF CondLockSend
<1>3. CASE CondLockWarehouse
  <2>1. LockType' /\ cond' \in CondRec
    BY <1>0, <1>1, <1>3 DEF CondLockWarehouse, TypeOK, LockType
  <2> QED
    BY <1>0, <1>3, <2>1, CondStepTyped, GroupsKept, LevelsKept, HistoryKept
       DEF CondLockWarehouse
<1>4. ASSUME UNCHANGED <<flow_selected_level_map, raced, volume_sent, volume_lost,
                         last_sent_flow_selected_level_map, last_exists, locks,
                         history, maps, buffers, main, updator, rotator>>,
             cursor' \in 0 .. N, cond' \in CondRec,
             told' \in [Flow -> {NO_SELECTED_LEVEL, SELECTED_LEVEL, TARGET_LEVEL}],
             untold' \subseteq Flow, condition_pkt_num_sent' \in [Buffer -> Nat]
      PROVE  TypeInv'
  <2>1. LevelType' /\ CountType'
    BY <1>0, <1>4 DEF TypeOK, LevelType, CountType
  <2>2. HistoryType'
    BY <1>0, <1>4 DEF TypeOK, HistoryType, history
  <2> QED
    BY <1>0, <1>4, <2>1, <2>2, CondStepTyped, GroupsKept
<1>5. told \in [Flow -> {NO_SELECTED_LEVEL, SELECTED_LEVEL, TARGET_LEVEL}]
      /\ untold \subseteq Flow
      /\ condition_pkt_num_sent \in [Buffer -> Nat] /\ 0 \in 0 .. N
  BY <1>0, FlowAssumption DEF TypeOK, HistoryType, CountType
<1>6. CASE CondPlus
  <2>1. PICK map \in LevelViews, last \in LastViews :
       \/ /\ ToVisit(map) # {}
          /\ LET f == Min(ToVisit(map))
             IN  /\ cursor' = f
                 /\ IF PlusNeeded(last[f], map[f])
                    THEN SendCondition(f, map[f])
                    ELSE UNCHANGED <<told, untold, condition_pkt_num_sent>>
          /\ UNCHANGED cond
       \/ /\ ToVisit(map) = {}
          /\ cursor' = 0
          /\ cond' = [cond EXCEPT !.pc = "minus"]
          /\ UNCHANGED <<told, untold, condition_pkt_num_sent>>
    BY <1>6 DEF CondPlus
  <2>2. map \in [Flow -> Levels]
    BY ViewsTyped
  <2>3. CASE ToVisit(map) # {}
    <3> DEFINE f == Min(ToVisit(map))
    <3>1. f \in Flow /\ f \in 0 .. N /\ map[f] \in {SELECTED_LEVEL, TARGET_LEVEL}
      BY <2>2, <2>3, NextVisit
    <3>2. /\ cursor' = f /\ UNCHANGED cond
          /\ SendCondition(f, map[f]) \/ UNCHANGED <<told, untold, condition_pkt_num_sent>>
      BY <2>1, <2>3
    <3> HIDE DEF f
    <3>3. /\ told' \in [Flow -> {NO_SELECTED_LEVEL, SELECTED_LEVEL, TARGET_LEVEL}]
          /\ untold' \subseteq Flow
          /\ condition_pkt_num_sent' \in [Buffer -> Nat]
      BY <1>0, <3>1, <3>2, ConditionTyped
    <3> QED
      BY <1>0, <1>4, <1>6, <3>1, <3>2, <3>3 DEF CondPlus
  <2>4. CASE ToVisit(map) = {}
    BY <1>1, <1>4, <1>5, <1>6, <2>1, <2>4 DEF CondPlus
  <2> QED
    BY <2>3, <2>4
<1>7. CASE CondMinus
  <2>1. PICK map \in LevelViews, last \in LastViews :
       \/ /\ ToVisit(last) # {}
          /\ LET f == Min(ToVisit(last))
             IN  /\ cursor' = f
                 /\ IF MinusNeeded(map[f])
                    THEN SendCondition(f, NO_SELECTED_LEVEL)
                    ELSE UNCHANGED <<told, untold, condition_pkt_num_sent>>
          /\ UNCHANGED cond
       \/ /\ ToVisit(last) = {}
          /\ cursor' = 0
          /\ cond' = [cond EXCEPT !.pc = "renew"]
          /\ UNCHANGED <<told, untold, condition_pkt_num_sent>>
    BY <1>7 DEF CondMinus
  <2>2. last \in [Flow -> Levels]
    BY ViewsTyped
  <2>3. CASE ToVisit(last) # {}
    <3> DEFINE f == Min(ToVisit(last))
    <3>1. f \in Flow /\ f \in 0 .. N
      BY <2>2, <2>3, NextVisit
    <3>2. /\ cursor' = f /\ UNCHANGED cond
          /\ SendCondition(f, NO_SELECTED_LEVEL)
             \/ UNCHANGED <<told, untold, condition_pkt_num_sent>>
      BY <2>1, <2>3
    <3> HIDE DEF f
    <3>3. /\ told' \in [Flow -> {NO_SELECTED_LEVEL, SELECTED_LEVEL, TARGET_LEVEL}]
          /\ untold' \subseteq Flow
          /\ condition_pkt_num_sent' \in [Buffer -> Nat]
      BY <1>0, <3>1, <3>2, ConditionTyped
    <3> QED
      BY <1>0, <1>4, <1>7, <3>1, <3>2, <3>3 DEF CondMinus
  <2>4. CASE ToVisit(last) = {}
    BY <1>1, <1>4, <1>5, <1>7, <2>1, <2>4 DEF CondMinus
  <2> QED
    BY <2>3, <2>4
<1>8. CASE CondRenew
  <2>1. /\ last_sent_flow_selected_level_map' = EmptyMap(Absent)
        /\ last_exists' \in BOOLEAN /\ alloc_failed' \in BOOLEAN /\ cond' \in CondRec
        /\ UNCHANGED <<maps, levels, buffers, totals, told, untold, locks, fatal,
                       accounted, reported, main, updator, rotator>>
    BY <1>0, <1>1, <1>8 DEF CondRenew, TypeOK, HistoryType
  <2>2. LevelType'
    BY <1>0, <2>1 DEF TypeOK, LevelType, levels, EmptyMap, Levels
  <2>3. HistoryType'
    BY <1>0, <2>1 DEF TypeOK, HistoryType, levels
  <2> QED
    BY <1>0, <2>1, <2>2, <2>3, CondStepTyped, GroupsKept
<1>9. CASE CondCopy
  <2>1. PICK map \in LevelViews :
          /\ ToVisit(map) # {}
          /\ cursor' = Min(ToVisit(map))
          /\ last_sent_flow_selected_level_map' =
               [last_sent_flow_selected_level_map EXCEPT ![Min(ToVisit(map))] =
                  map[Min(ToVisit(map))]]
    BY <1>9 DEF CondCopy
  <2> DEFINE f == Min(ToVisit(map))
  <2>2. map \in [Flow -> Levels]
    BY ViewsTyped
  <2>3. f \in Flow /\ f \in 0 .. N /\ map[f] \in Levels
    BY <2>1, <2>2, NextVisit
  <2>4. UNCHANGED <<maps, flow_selected_level_map, raced, buffers, totals, told,
                    untold, last_exists, locks, history, main, updator, cond, rotator>>
    BY <1>9 DEF CondCopy
  <2> HIDE DEF f
  <2>5. cursor' = f /\ last_sent_flow_selected_level_map' =
               [last_sent_flow_selected_level_map EXCEPT ![f] = map[f]]
    BY <2>1 DEF f
  <2>6. LevelType'
    BY <1>0, <2>3, <2>4, <2>5 DEF TypeOK, LevelType
  <2>7. HistoryType'
    BY <1>0, <2>4 DEF TypeOK, HistoryType, history
  <2> QED
    BY <1>0, <2>4, <2>6, <2>7, CondStepTyped, GroupsKept
<1>10. CASE CondEnd
  <2>1. LockType' /\ cond' \in CondRec
    BY <1>0, <1>1, <1>10 DEF CondEnd, CondUnlock, TypeOK, LockType
  <2>2. LevelType' /\ HistoryType'
    BY <1>0, <1>5, <1>10 DEF CondEnd, TypeOK, LevelType, HistoryType, conditions, history
  <2> QED
    BY <1>0, <1>10, <2>1, <2>2, CondStepTyped, GroupsKept DEF CondEnd
<1> QED
  BY <1>2, <1>3, <1>6, <1>7, <1>8, <1>9, <1>10 DEF Cond
-----------------------------------------------------------------------------
(* The rotator. *)
LEMMA RotatorType ==
  ASSUME TypeInv, Rotator
  PROVE  TypeInv'
<1>0. /\ TypeOK /\ Inactive \in Buffer
  BY PointerTypes DEF TypeInv, TypeOK
<1>1. CASE Rotate
  <2>1. BufferType'
    BY <1>0, <1>1 DEF Rotate, TypeOK, BufferType
  <2>2. LockType'
    BY <1>0, <1>1 DEF Rotate, TypeOK, LockType
  <2>3. /\ rotator' = "write"
        /\ UNCHANGED <<maps, levels, totals, conditions, history, main, updator, cond>>
    BY <1>1 DEF Rotate
  <2> QED
    BY <1>0, <2>1, <2>2, <2>3, ThreadsTyped, TypeFromGroups, GroupsKept, LevelsKept,
       HistoryKept
<1>2. CASE WriteInterval
  BY <1>0, <1>2, ThreadsTyped, TypeFromGroups, GroupsKept, LevelsKept, HistoryKept
     DEF WriteInterval
<1>3. CASE DestroyMaps
  <2>1. BufferType'
    BY <1>0, <1>3 DEF DestroyMaps, TypeOK, BufferType
  <2>2. LevelType' /\ HistoryType'
    BY <1>0, <1>3 DEF DestroyMaps, TypeOK, LevelType, HistoryType, levels, history
  <2>3. /\ rotator' = "create"
        /\ UNCHANGED <<maps, totals, locks, main, updator, cond>>
    BY <1>3 DEF DestroyMaps
  <2> QED
    BY <1>0, <2>1, <2>2, <2>3, ThreadsTyped, TypeFromGroups, GroupsKept
<1>4. CASE CreateMaps
  <2>1. PICK k \in 0 .. 8 :
          /\ exists' = [exists EXCEPT ![Inactive] =
                          {Kinds[i] : i \in {j \in 1 .. 7 : j <= k}}]
          /\ last_exists' = (k = 8)
          /\ alloc_failed' = (alloc_failed \/ k < 8)
          /\ IF k = 8
             THEN /\ volume_sent' = [volume_sent EXCEPT ![Inactive] = 0]
                  /\ volume_lost' = [volume_lost EXCEPT ![Inactive] = 0]
                  /\ condition_pkt_num_sent' =
                       [condition_pkt_num_sent EXCEPT ![Inactive] = 0]
             ELSE UNCHANGED totals
    BY <1>4 DEF CreateMaps
  <2>2. BufferType'
    <3>1. {Kinds[i] : i \in {j \in 1 .. 7 : j <= k}} \in SUBSET AllKinds
      BY DEF AllKinds
    <3> QED
      BY <1>0, <1>4, <2>1, <3>1 DEF CreateMaps, TypeOK, BufferType
  <2>3. CountType'
    BY <1>0, <2>1 DEF TypeOK, CountType, totals
  <2>4. EmptyMap(Absent) \in [Flow -> Amount] /\ EmptyMap(Absent) \in [Flow -> Value]
        /\ EmptyMap(NoRate) \in [Flow -> Value \X Value]
        /\ EmptyMap(Absent) \in [Flow -> {Absent, 1}]
        /\ EmptyMap(Absent) \in [Flow -> Levels]
    BY DEF EmptyMap, Amount, Value, NoRate, Levels
  <2>5. MapType'
    <3>1. /\ flow_volume_map' \in [Buffer -> [Flow -> Amount]]
          /\ fixed_flow_loss_volume_map' \in [Buffer -> [Flow -> Amount]]
          /\ flow_loss_volume_map' \in [Buffer -> [Flow -> Amount]]
      BY <1>0, <1>4, <2>4, MapTypes DEF CreateMaps
    <3>2. /\ flow_loss_rate_map' \in [Buffer -> [Flow -> Value \X Value]]
          /\ flow_sample_map' \in [Buffer -> [Flow -> {Absent, 1}]]
          /\ flow_not_sampled_volume_map' \in [Buffer -> [Flow -> Value]]
      BY <1>0, <1>4, <2>4, MapTypes DEF CreateMaps
    <3> QED
      BY <3>1, <3>2 DEF MapType
  <2>6. LevelType'
    <3>1. flow_selected_level_map' \in [Buffer -> [Flow -> Levels]]
      BY <1>0, <1>4, <2>4, MapTypes DEF CreateMaps
    <3>2. /\ last_sent_flow_selected_level_map' \in [Flow -> Levels]
          /\ last_exists' \in BOOLEAN /\ cursor' \in 0 .. N
      BY <1>0, <1>4, <2>1, <2>4 DEF CreateMaps, TypeOK, LevelType
    <3> QED
      BY <3>1, <3>2 DEF LevelType
  <2>7. LockType' /\ HistoryType'
    BY <1>0, <1>4, <2>1 DEF CreateMaps, TypeOK, LockType, HistoryType, Free
  <2>8. rotator' = "sleep" /\ UNCHANGED <<main, updator, cond>>
    BY <1>4 DEF CreateMaps
  <2> QED
    BY <2>2, <2>3, <2>5, <2>6, <2>7, <2>8, ThreadsTyped, TypeFromGroups
<1> QED
  BY <1>1, <1>2, <1>3, <1>4 DEF Rotator

LEMMA TypeInit == Init => TypeInv
<1> SUFFICES ASSUME Init PROVE TypeInv
  OBVIOUS
<1>1. BufferType /\ CountType
  BY DEF Init, BufferType, CountType, Buffer
<1>2. /\ EmptyMap(Absent) \in [Flow -> Amount] /\ EmptyMap(Absent) \in [Flow -> Value]
      /\ EmptyMap(NoRate) \in [Flow -> Value \X Value]
      /\ EmptyMap(Absent) \in [Flow -> {Absent, 1}]
      /\ EmptyMap(Absent) \in [Flow -> Levels]
  BY DEF EmptyMap, Amount, Value, NoRate, Levels
<1>3. MapType
  BY <1>2 DEF Init, MapType, EmptyMaps
<1>4. LevelType
  BY <1>2, FlowAssumption DEF Init, LevelType, EmptyMaps
<1>5. LockType /\ HistoryType
  BY DEF Init, LockType, HistoryType
<1>6. /\ main \in MainRec /\ main.pc = "idle"
      /\ updator \in UpdatorRec /\ updator.pc = "read"
  BY IdleTypes DEF Init, MainIdle, UpdatorIdle
<1>7. cond \in CondRec
  BY <1>1, PointerTypes DEF Init, CondRec
<1>8. ThreadType
  BY <1>6, <1>7, ThreadRecs DEF Init
<1> QED
  BY <1>1, <1>3, <1>4, <1>5, <1>6, <1>8 DEF TypeInv, TypeOK, CallsHaveFlows

LEMMA TypeStep == TypeInv /\ [Next]_vars => TypeInv'
<1> SUFFICES ASSUME TypeInv, [Next]_vars PROVE TypeInv'
  OBVIOUS
<1>1. CASE Main
  BY <1>1, TakePacketType, LeaveSamplingType, SamplePacketType, TagPacketType,
     NormalLockType, NormalFetchType, NormalUpdateType, NormalLevelType,
     NormalCursorType, CountReadType, CountWriteType, SendPacketType DEF Main
<1>2. CASE Updator
  BY <1>2, ReportLossType, LossLockType, LossFetchType, LossCountType,
     LossUpdateType, LossLevelType DEF Updator
<1>3. CASE Cond \/ Rotator
  BY <1>3, CondType, RotatorType
<1>4. CASE UNCHANGED vars
  BY <1>4, ThreadsTyped, TypeFromGroups, GroupsKept, LevelsKept, HistoryKept
     DEF vars, TypeInv
<1> QED
  BY <1>1, <1>2, <1>3, <1>4 DEF Next

(* Every value a thread reads, even through a pointer into a buffer that   *)
(* the rotator has destroyed, leaves the maps, the counters, the cursor of *)
(* the iteration and the threads within their types.                       *)
THEOREM TypeCorrect == Spec => []TypeOK
<1>1. TypeInv => TypeOK
  BY DEF TypeInv
<1> QED
  BY <1>1, TypeInit, TypeStep, PTL DEF Spec
-----------------------------------------------------------------------------
(* The first interval.  Until the first rotation every pointer a thread    *)
(* holds points into the first buffer, whose maps exist.                   *)
First == [idx |-> 0, gen |-> 0]
FirstBuffer ==
  /\ active_idx = 0 /\ gen[0] = 0 /\ exists[0] = AllKinds /\ rotator = "sleep"
  /\ main.pc \in {"sample", "tag"} => main.level_map = First
  /\ main.pc \in {"fetch", "update"} => main.volume_map = First
  /\ main.pc = "update" => main.other_maps = First
  /\ updator.pc \in {"fetch", "add", "update"} => updator.volume_map = First
  /\ updator.pc \in {"add", "update"} => updator.other_maps = First

(* A thread that updates a flow holds the mutex of the flow's bin. *)
BinsLocked ==
  /\ main.pc \in {"fetch", "update", "level", "cursor"} =>
       mutexs[BinOf[main.flow]] = "main"
  /\ updator.pc \in {"fetch", "add", "update", "level"} =>
       mutexs[BinOf[updator.flow]] = "updator"

(* A thread that is to set the level of a flow has computed it from the    *)
(* flow's volume and loss volume, and those have not changed since.        *)
Computes(t, f) == t.pc = "level" /\ t.flow = f
RateIs(f, loss, volume) ==
  /\ volume = flow_volume_map[0][f] /\ loss = OrZero(LossMap[f])
  /\ flow_loss_rate_map[0][f] = <<loss, volume>>

(* LevelsMatchLosses, for one flow. *)
LevelIsCurrent(f) ==
  LET volume == flow_volume_map[0][f]
      loss   == OrZero(LossMap[f])
  IN  IF volume = Absent
      THEN /\ flow_loss_rate_map[0][f] = NoRate
           /\ flow_selected_level_map[0][f] = Absent
      ELSE /\ flow_loss_rate_map[0][f] = <<loss, volume>>
           /\ flow_selected_level_map[0][f] = LevelOf(volume, loss)
LevelsFollow ==
  /\ main.pc = "level" => RateIs(main.flow, main.loss, main.volume)
  /\ updator.pc = "level" => RateIs(updator.flow, updator.loss, updator.volume)
  /\ \A f \in Flow :
       ~ Computes(main, f) /\ ~ Computes(updator, f) => LevelIsCurrent(f)

(* The loss maps hold no more than was reported, less the report that the  *)
(* updator has not added yet.                                              *)
Pending(f) ==
  IF updator.pc \in {"lock", "fetch", "add", "update"} /\ updator.flow = f
  THEN updator.lost ELSE 0
LossesReported ==
  \A f \in Flow :
    /\ OrZero(flow_loss_volume_map[0][f]) + Pending(f) <= reported[f]
    /\ OrZero(fixed_flow_loss_volume_map[0][f]) + Pending(f) <= reported[f]

(* A flow of which a packet was sent, or is about to be, or a loss was     *)
(* reported, has a volume.                                                 *)
VolumeKnown ==
  /\ \A f \in Flow : accounted[f] > 0 => flow_volume_map[0][f] # Absent
  /\ main.pc \in {"level", "cursor", "count", "add", "send"} =>
       flow_volume_map[0][main.flow] # Absent
  /\ updator.pc # "read" => flow_volume_map[0][updator.flow] # Absent
  /\ ~ fatal

(* Only the updator raises the level of the flow that is being tagged. *)
TagKnown ==
  /\ main.pc \in {"idle", "sample", "tag"} => main.tag = NO_SELECTED_LEVEL
  /\ main.pc = "tag" /\ flow_selected_level_map[0][main.flow] > NO_SELECTED_LEVEL
       => main.sampled \/ main.moved
  /\ main.tag # NO_SELECTED_LEVEL => main.sampled \/ main.moved

FirstInterval ==
  FirstBuffer /\ LevelsFollow /\ LossesReported /\ VolumeKnown /\ TagKnown
IntervalInv == BinsLocked /\ (rotations = 0 => FirstInterval)

LEMMA IntervalInit == Init => IntervalInv
<1> SUFFICES ASSUME Init PROVE IntervalInv
  OBVIOUS
<1>1. main.pc = "idle" /\ main.tag = 0 /\ updator.pc = "read" /\ 0 \in Buffer
  BY DEF Init, MainIdle, UpdatorIdle, Buffer, NO_SELECTED_LEVEL
<1>2. BinsLocked
  BY <1>1 DEF BinsLocked
<1>3. FirstBuffer
  BY <1>1 DEF Init, FirstBuffer
<1>4. \A f \in Flow : /\ flow_volume_map[0][f] = Absent
                      /\ flow_loss_rate_map[0][f] = NoRate
                      /\ flow_selected_level_map[0][f] = Absent
                      /\ flow_loss_volume_map[0][f] = Absent
                      /\ fixed_flow_loss_volume_map[0][f] = Absent
                      /\ accounted[f] = 0 /\ reported[f] = 0
  BY <1>1 DEF Init, EmptyMaps, EmptyMap
<1>5. LevelsFollow
  BY <1>1, <1>4 DEF LevelsFollow, LevelIsCurrent
<1>6. LossesReported
  BY <1>1, <1>4 DEF LossesReported, Pending, OrZero, Absent
<1>7. VolumeKnown
  BY <1>1, <1>4 DEF VolumeKnown, Init
<1>8. TagKnown
  BY <1>1 DEF TagKnown, NO_SELECTED_LEVEL
<1> QED
  BY <1>2, <1>3, <1>5, <1>6, <1>7, <1>8 DEF IntervalInv, FirstInterval

(* Who holds the mutex of a bin.  A step of main keeps the updator's claim *)
(* to its bin, and the other way round.                                    *)
LEMMA BinsLockedStep ==
  ASSUME TypeInv, BinsLocked, [Next]_vars
  PROVE  BinsLocked'
<1>0. /\ main \in MainRec /\ updator \in UpdatorRec
      /\ main.pc # "idle" => main.flow \in Flow /\ BinOf[main.flow] \in Bins
      /\ updator.pc # "read" => updator.flow \in Flow /\ BinOf[updator.flow] \in Bins
      /\ mutexs \in [Bins -> {Free, "main", "updator"}]
  BY ThreadsTyped, FlowBins DEF TypeInv, TypeOK, LockType
<1>1. ASSUME NEW f \in Flow, TakePacket(f) PROVE BinsLocked'
  <2> DEFINE p == IF f \in setting.monitored THEN "sample" ELSE "lock"
             l == IF f \in setting.monitored THEN Active ELSE NoPtr
  <2>1. main' = [main EXCEPT !.flow = f, !.pc = p, !.level_map = l]
    BY <1>1 DEF TakePacket
  <2>2. p \in {"sample", "lock"}
    OBVIOUS
  <2> HIDE DEF p, l
  <2> QED
    BY <1>0, <1>1, <2>1, <2>2 DEF TakePacket, BinsLocked, locks, MainRec
<1>2. CASE LeaveSampling \/ TagPacket \/ CountRead \/ CountWrite \/ SendPacket
           \/ SamplePacket
  <2>1. main'.pc \in {"lock", "tag", "add", "send", "idle"}
    <3>1. CASE LeaveSampling \/ CountRead \/ CountWrite
      BY <1>0, <3>1 DEF LeaveSampling, CountRead, CountWrite, MainRec
    <3>2. CASE TagPacket
      BY <1>0, <3>2 DEF TagPacket, MainRec
    <3>3. CASE SendPacket
      BY <3>3 DEF SendPacket, MainIdle
    <3>4. CASE SamplePacket
      <4>1. PICK z : \/ main' = [main EXCEPT !.pc = "tag", !.sampled = z]
                     \/ main' = [main EXCEPT !.pc = "lock", !.sampled = z,
                                            !.level_map = NoPtr]
        BY <3>4 DEF SamplePacket
      <4> QED
        BY <1>0, <4>1 DEF MainRec
    <3> QED
      BY <1>2, <3>1, <3>2, <3>3, <3>4
  <2>2. UNCHANGED <<mutexs, updator>>
    BY <1>2 DEF LeaveSampling, TagPacket, CountRead, CountWrite, SendPacket,
                SamplePacket, locks
  <2> QED
    BY <2>1, <2>2 DEF BinsLocked
<1>3. CASE NormalLock
  BY <1>0, <1>3 DEF NormalLock, BinsLocked, MainRec, Free
<1>4. CASE NormalFetch
  BY <1>0, <1>4 DEF NormalFetch, BinsLocked, MainRec, locks
<1>5. CASE NormalUpdate
  <2>1. main'.pc = "level" /\ main'.flow = main.flow
    BY <1>0, <1>5, NormalUpdateValues DEF MainRec
  <2> QED
    BY <2>1, <1>5 DEF NormalUpdate, BinsLocked, locks
<1>6. CASE NormalLevel
  <2>1. main.pc = "level" /\ updator' = updator
    BY <1>6 DEF NormalLevel
  <2> QED
    BY <1>0, <1>6, <2>1, NormalLevelMain DEF BinsLocked
<1>14. CASE NormalCursor
  BY <1>0, <1>14 DEF NormalCursor, BinsLocked, MainRec
<1>7. ASSUME NEW f \in Flow, NEW n \in 1 .. MaxPackets, ReportLoss(f, n)
      PROVE  BinsLocked'
  BY <1>0, <1>7 DEF ReportLoss, BinsLocked, UpdatorRec, locks
<1>8. CASE LossLock
  BY <1>0, <1>8 DEF LossLock, BinsLocked, UpdatorRec, Free
<1>9. CASE LossFetch \/ LossCount
  BY <1>0, <1>9 DEF LossFetch, LossCount, BinsLocked, UpdatorRec, locks
<1>10. CASE LossUpdate
  <2>1. /\ updator.pc = "update" /\ main' = main
        /\ \/ updator' = UpdatorIdle
              /\ mutexs' = [mutexs EXCEPT ![BinOf[updator.flow]] = Free]
           \/ updator'.flow = updator.flow /\ mutexs' = mutexs
    BY <1>0, <1>10, LossUpdateValues DEF LossUpdate, UpdatorRec
  <2> QED
    BY <1>0, <2>1 DEF BinsLocked, UpdatorIdle
<1>11. CASE LossLevel
  <2>1. main'.pc = main.pc /\ main'.flow = main.flow
    BY <1>0, <1>11 DEF LossLevel, MainRec
  <2> QED
    BY <1>0, <1>11, <2>1 DEF LossLevel, BinsLocked, UpdatorIdle
<1>12. CASE Cond \/ Rotator
  <2>1. UNCHANGED <<mutexs, main, updator>>
    BY <1>12 DEF Cond, Rotator, CondLockSend, CondLockWarehouse, CondPlus, CondMinus,
                 CondRenew, CondCopy, CondEnd, Rotate, WriteInterval, DestroyMaps,
                 CreateMaps, locks
  <2> QED
    BY <2>1 DEF BinsLocked
<1>13. CASE UNCHANGED vars
  BY <1>13 DEF vars, locks, BinsLocked
<1> QED
  BY <1>1, <1>2, <1>3, <1>4, <1>5, <1>6, <1>7, <1>8, <1>9, <1>10, <1>11, <1>12,
     <1>13, <1>14 DEF Next, Main, Updator

LEMMA FirstMaps ==
  ASSUME FirstBuffer
  PROVE  /\ Active = First /\ First.idx = 0
         /\ \A kind \in AllKinds : Valid(kind, First)
         /\ {"volume", "fixed", "loss", "rate", "level", "sample", "not_sampled"}
              \subseteq AllKinds
<1>1. {"volume", "fixed", "loss", "rate", "level", "sample", "not_sampled"}
        \subseteq AllKinds
  <2>1. /\ Kinds[1] = "volume" /\ Kinds[2] = "fixed" /\ Kinds[3] = "loss"
        /\ Kinds[4] = "rate" /\ Kinds[5] = "level" /\ Kinds[6] = "sample"
        /\ Kinds[7] = "not_sampled"
    BY DEF Kinds
  <2> QED
    BY <2>1 DEF AllKinds
<1> QED
  BY <1>1 DEF FirstBuffer, Active, First, Valid

(* What a thread reads in the first buffer. *)
LEMMA FirstReads ==
  ASSUME FirstBuffer, NEW map, NEW kind \in AllKinds, NEW f \in Flow,
         NEW x \in Reads(map, kind, First, f)
  PROVE  x = map[0][f]
BY FirstMaps DEF Reads

LEMMA FirstBufferStep ==
  ASSUME TypeInv, FirstBuffer, Main \/ Updator
  PROVE  FirstBuffer'
<1>0. /\ main \in MainRec /\ updator \in UpdatorRec
      /\ Active = First /\ UNCHANGED <<active_idx, gen, exists, rotator>>
  BY ThreadsTyped, FirstMaps, OthersStutter DEF roundVars
<1>1. ASSUME NEW f \in Flow, TakePacket(f) PROVE FirstBuffer'
  <2> DEFINE p == IF f \in setting.monitored THEN "sample" ELSE "lock"
             l == IF f \in setting.monitored THEN Active ELSE NoPtr
  <2>1. main' = [main EXCEPT !.flow = f, !.pc = p, !.level_map = l] /\ updator' = updator
    BY <1>1 DEF TakePacket
  <2>2. (p = "sample" /\ l = First) \/ p = "lock"
    BY <1>0
  <2> HIDE DEF p, l
  <2> QED
    BY <1>0, <2>1, <2>2 DEF FirstBuffer, MainRec
<1>2. CASE LeaveSampling \/ CountRead \/ CountWrite
  BY <1>0, <1>2 DEF LeaveSampling, CountRead, CountWrite, MainRec, FirstBuffer
<1>3. CASE SendPacket
  BY <1>0, <1>3 DEF SendPacket, MainIdle, FirstBuffer
<1>4. CASE TagPacket
  BY <1>0, <1>4 DEF TagPacket, MainRec, FirstBuffer
<1>5. CASE SamplePacket
  <2>1. PICK z : \/ main' = [main EXCEPT !.pc = "tag", !.sampled = z]
                 \/ main' = [main EXCEPT !.pc = "lock", !.sampled = z,
                                         !.level_map = NoPtr]
    BY <1>5 DEF SamplePacket
  <2>2. main.pc = "sample" /\ updator' = updator
    BY <1>5 DEF SamplePacket
  <2> QED
    BY <1>0, <2>1, <2>2 DEF MainRec, FirstBuffer
<1>6. CASE NormalLock \/ NormalFetch
  BY <1>0, <1>6 DEF NormalLock, NormalFetch, MainRec, FirstBuffer
<1>7. CASE NormalUpdate
  <2>1. main'.pc = "level" /\ updator' = updator
    BY <1>0, <1>7, NormalUpdateValues DEF MainRec, NormalUpdate
  <2> QED
    BY <1>0, <2>1 DEF FirstBuffer
<1>8. CASE NormalLevel \/ NormalCursor
  <2>1. main'.pc \in {"cursor", "count"} /\ updator' = updator
    BY <1>0, <1>8, NormalLevelMain DEF NormalLevel, NormalCursor, MainRec
  <2> QED
    BY <1>0, <2>1 DEF FirstBuffer
<1>9. ASSUME NEW f \in Flow, NEW n \in 1 .. MaxPackets, ReportLoss(f, n)
      PROVE  FirstBuffer'
  BY <1>0, <1>9 DEF ReportLoss, UpdatorRec, FirstBuffer
<1>10. CASE LossLock
  <2>1. /\ main' = main /\ updator'.pc = "fetch" /\ updator'.volume_map = First
    BY <1>0, <1>10 DEF LossLock, UpdatorRec
  <2> QED
    BY <1>0, <2>1 DEF FirstBuffer
<1>11. CASE LossFetch
  <2>1. /\ main' = main /\ updator.pc = "fetch" /\ updator'.pc = "add"
        /\ updator'.volume_map = updator.volume_map /\ updator'.other_maps = First
    BY <1>0, <1>11 DEF LossFetch, UpdatorRec
  <2> QED
    BY <1>0, <2>1 DEF FirstBuffer
<1>12. CASE LossCount
  BY <1>0, <1>12 DEF LossCount, UpdatorRec, FirstBuffer
<1>13. CASE LossUpdate
  <2>1. main' = main /\ updator.pc = "update"
    BY <1>13 DEF LossUpdate
  <2>2. updator'.pc \in {"read", "level"}
    <3>1. \/ updator' = UpdatorIdle
          \/ \E v \in Nat, l \in Nat :
               updator' = [updator EXCEPT !.pc = "level", !.volume = v, !.loss = l,
                             !.volume_map = NoPtr, !.other_maps = NoPtr]
      BY <1>13, LossUpdateValues
    <3>2. CASE updator' = UpdatorIdle
      BY <3>2 DEF UpdatorIdle
    <3>3. CASE \E v \in Nat, l \in Nat :
                 updator' = [updator EXCEPT !.pc = "level", !.volume = v, !.loss = l,
                               !.volume_map = NoPtr, !.other_maps = NoPtr]
      <4>1. PICK v \in Nat, l \in Nat :
              updator' = [updator EXCEPT !.pc = "level", !.volume = v, !.loss = l,
                            !.volume_map = NoPtr, !.other_maps = NoPtr]
        BY <3>3
      <4> QED
        BY <1>0, <4>1 DEF UpdatorRec
    <3> QED
      BY <3>1, <3>2, <3>3
  <2> QED
    BY <1>0, <2>1, <2>2 DEF FirstBuffer
<1>14. CASE LossLevel
  <2>1. /\ main'.pc = main.pc /\ main'.level_map = main.level_map
        /\ main'.volume_map = main.volume_map /\ main'.other_maps = main.other_maps
        /\ updator'.pc = "read"
    BY <1>0, <1>14 DEF LossLevel, MainRec, UpdatorIdle
  <2> QED
    BY <1>0, <2>1 DEF FirstBuffer
<1> QED
  BY <1>1, <1>2, <1>3, <1>4, <1>5, <1>6, <1>7, <1>8, <1>9, <1>10, <1>11, <1>12,
     <1>13, <1>14 DEF Main, Updator

(* The maps that the levels are computed from, and the levels. *)
followed == <<setting, flow_volume_map, fixed_flow_loss_volume_map,
              flow_loss_volume_map, flow_loss_rate_map, flow_selected_level_map>>

(* A step that leaves them alone, and does not start or end a thread's     *)
(* computation of a level.                                                 *)
LEMMA FollowFrame ==
  ASSUME LevelsFollow, UNCHANGED followed,
         \/ main' = main
         \/ main.pc # "level" /\ main'.pc # "level"
         \/ /\ main'.pc = main.pc /\ main'.flow = main.flow
            /\ main'.loss = main.loss /\ main'.volume = main.volume,
         updator' = updator \/ (updator.pc # "level" /\ updator'.pc # "level")
  PROVE  LevelsFollow'
<1>1. LossMap' = LossMap
  BY DEF LossMap, followed
<1>2. \A f \in Flow : LevelIsCurrent(f) => LevelIsCurrent(f)'
  BY <1>1 DEF LevelIsCurrent, followed
<1>3. \A f, loss, volume : RateIs(f, loss, volume) => RateIs(f, loss, volume)'
  BY <1>1 DEF RateIs, followed
<1>4. \A f \in Flow : /\ Computes(main, f)' <=> Computes(main, f)
                      /\ Computes(updator, f)' <=> Computes(updator, f)
  BY DEF Computes
<1>5. \A f \in Flow :
        (~ Computes(main, f) /\ ~ Computes(updator, f))' => LevelIsCurrent(f)'
  BY <1>2, <1>4 DEF LevelsFollow
<1>6. /\ main'.pc = "level" => RateIs(main.flow, main.loss, main.volume)'
      /\ updator'.pc = "level" => RateIs(updator.flow, updator.loss, updator.volume)'
  BY <1>1 DEF LevelsFollow, RateIs, followed
<1> QED
  BY <1>5, <1>6 DEF LevelsFollow

(* The steps of main and of the updator that set no volume, loss volume,   *)
(* loss rate or level.                                                     *)
MainQuietly ==
  \/ \E f \in Flow : TakePacket(f)
  \/ LeaveSampling \/ SamplePacket \/ TagPacket
  \/ NormalLock \/ NormalFetch \/ NormalCursor
  \/ CountRead \/ CountWrite \/ SendPacket
UpdatorQuietly ==
  \/ \E f \in Flow : \E n \in 1 .. MaxPackets : ReportLoss(f, n)
  \/ LossLock \/ LossFetch \/ LossCount

LEMMA MainMoves ==
  ASSUME TypeInv, MainQuietly
  PROVE  /\ UNCHANGED <<followed, reported, fatal, updator>>
         /\ main.pc # "level" /\ main'.pc \notin {"level", "cursor"}
         /\ main'.pc \in {"count", "add", "send"} =>
              main.pc \in {"cursor", "count", "add"} /\ main'.flow = main.flow
         /\ \/ accounted' = accounted
            \/ /\ main.pc = "send"
               /\ accounted' = [accounted EXCEPT ![main.flow] = @ + 1]
<1>0. main \in MainRec
  BY ThreadsTyped
<1>1. ASSUME NEW f \in Flow, TakePacket(f)
      PROVE  /\ UNCHANGED <<followed, reported, fatal, updator, accounted>>
             /\ main.pc = "idle" /\ main'.pc \in {"sample", "lock"}
  <2> DEFINE p == IF f \in setting.monitored THEN "sample" ELSE "lock"
             l == IF f \in setting.monitored THEN Active ELSE NoPtr
  <2>1. main' = [main EXCEPT !.flow = f, !.pc = p, !.level_map = l]
    BY <1>1 DEF TakePacket
  <2>2. p \in {"sample", "lock"}
    OBVIOUS
  <2> HIDE DEF p, l
  <2>3. main'.pc \in {"sample", "lock"}
    BY <1>0, <2>1, <2>2 DEF MainRec
  <2> QED
    BY <1>1, <2>3 DEF TakePacket, followed, maps, levels, buffers, history
<1>2. CASE LeaveSampling
  BY <1>0, <1>2 DEF LeaveSampling, MainRec, followed, maps, levels, buffers, history
<1>3. CASE SamplePacket
  <2>1. PICK z : \/ main' = [main EXCEPT !.pc = "tag", !.sampled = z]
                 \/ main' = [main EXCEPT !.pc = "lock", !.sampled = z,
                                         !.level_map = NoPtr]
    BY <1>3 DEF SamplePacket
  <2>2. main'.pc \in {"tag", "lock"}
    BY <1>0, <2>1 DEF MainRec
  <2>3. main.pc = "sample" /\ UNCHANGED <<followed, reported, fatal, updator, accounted>>
    BY <1>3 DEF SamplePacket, followed, levels, buffers, history
  <2> QED
    BY <2>2, <2>3
<1>4. CASE TagPacket
  <2>1. main.pc = "tag" /\ main'.pc = "lock"
    BY <1>0, <1>4 DEF TagPacket, MainRec
  <2> QED
    BY <1>4, <2>1 DEF TagPacket, followed, maps, levels, buffers, history
<1>5. CASE NormalLock
  BY <1>0, <1>5 DEF NormalLock, MainRec, followed, maps, levels, buffers, history
<1>6. CASE NormalFetch
  BY <1>0, <1>6 DEF NormalFetch, MainRec, followed, maps, levels, buffers, history
<1>7. CASE CountRead
  BY <1>0, <1>7 DEF CountRead, MainRec, followed, maps, levels, buffers, history
<1>8. CASE CountWrite
  BY <1>0, <1>8 DEF CountWrite, MainRec, followed, maps, levels, buffers, history
<1>9. CASE SendPacket
  BY <1>9 DEF SendPacket, MainIdle, followed, maps, levels, buffers
<1>10. CASE NormalCursor
  BY <1>0, <1>10 DEF NormalCursor, MainRec, followed, maps, buffers, history
<1> QED
  BY <1>1, <1>2, <1>3, <1>4, <1>5, <1>6, <1>7, <1>8, <1>9, <1>10 DEF MainQuietly

LEMMA UpdatorMoves ==
  ASSUME TypeInv, UpdatorQuietly
  PROVE  /\ UNCHANGED <<followed, accounted, fatal, main>>
         /\ updator.pc # "level"
         /\ \/ /\ updator.pc = "read"
               /\ \E f \in Flow, n \in Nat \ {0} :
                    /\ updator'.pc = "lock" /\ updator'.flow = f /\ updator'.lost = n
                    /\ reported[f] + n < accounted[f]
                    /\ reported' = [reported EXCEPT ![f] = @ + n]
            \/ /\ updator.pc \in {"lock", "fetch", "add"}
               /\ updator'.pc \in {"fetch", "add", "update"}
               /\ updator'.flow = updator.flow /\ updator'.lost = updator.lost
               /\ reported' = reported
<1>0. updator \in UpdatorRec
  BY ThreadsTyped
<1>1. ASSUME NEW f \in Flow, NEW n \in 1 .. MaxPackets, ReportLoss(f, n)
      PROVE  /\ UNCHANGED <<followed, accounted, fatal, main>> /\ updator.pc = "read"
             /\ updator'.pc = "lock" /\ updator'.flow = f /\ updator'.lost = n
             /\ reported[f] + n < accounted[f]
             /\ reported' = [reported EXCEPT ![f] = @ + n]
             /\ n \in Nat \ {0}
  BY <1>0, <1>1, BoundAssumption
     DEF ReportLoss, UpdatorRec, followed, maps, levels, buffers
<1>2. CASE LossLock
  BY <1>0, <1>2 DEF LossLock, UpdatorRec, followed, maps, levels, buffers, history
<1>3. CASE LossFetch
  BY <1>0, <1>3 DEF LossFetch, UpdatorRec, followed, maps, levels, buffers, history
<1>4. CASE LossCount
  BY <1>0, <1>4 DEF LossCount, UpdatorRec, followed, maps, levels, buffers, history
<1> QED
  BY <1>1, <1>2, <1>3, <1>4 DEF UpdatorQuietly

LEMMA QuietFollow ==
  ASSUME TypeInv, LevelsFollow, MainQuietly \/ UpdatorQuietly
  PROVE  LevelsFollow'
<1>1. CASE MainQuietly
  <2>1. UNCHANGED <<followed, updator>> /\ main.pc # "level" /\ main'.pc # "level"
    BY <1>1, MainMoves
  <2> QED
    BY <2>1, FollowFrame
<1>2. CASE UpdatorQuietly
  <2>1. /\ UNCHANGED <<followed, main>>
        /\ updator.pc # "level" /\ updator'.pc # "level"
    BY <1>2, UpdatorMoves
  <2> QED
    BY <2>1, FollowFrame
<1> QED
  BY <1>1, <1>2

(* What the four remaining steps do in the first buffer. *)
LEMMA NormalUpdateFirst ==
  ASSUME TypeInv, FirstBuffer, NormalUpdate
  PROVE  /\ UNCHANGED <<setting, fixed_flow_loss_volume_map, flow_loss_volume_map,
                        flow_selected_level_map, updator, reported, accounted, fatal>>
         /\ main'.pc = "level" /\ main'.flow = main.flow
         /\ main'.loss = OrZero(LossMap[main.flow])
         /\ main'.volume \in Nat \ {0}
         /\ main'.sampled = main.sampled /\ main'.moved = main.moved
         /\ main'.tag = main.tag
         /\ \A g \in Flow :
              /\ flow_volume_map'[0][g] =
                   IF g = main.flow THEN main'.volume ELSE flow_volume_map[0][g]
              /\ flow_loss_rate_map'[0][g] =
                   IF g = main.flow THEN <<main'.loss, main'.volume>>
                   ELSE flow_loss_rate_map[0][g]
<1>1. /\ main \in MainRec /\ main.flow \in Flow /\ main.pc = "update" /\ TypeOK
      /\ main.volume_map = First /\ main.other_maps = First
  BY ThreadsTyped DEF NormalUpdate, FirstBuffer, TypeInv
<1>2. PICK v \in Nat \ {0}, l \in Nat :
           /\ flow_volume_map' =
                Store(flow_volume_map, "volume", main.volume_map, main.flow, v)
           /\ flow_loss_rate_map' =
                Store(flow_loss_rate_map, "rate", main.other_maps, main.flow, <<l, v>>)
           /\ main' = [main EXCEPT !.pc = "level", !.volume = v, !.loss = l,
                         !.volume_map = NoPtr, !.other_maps = NoPtr]
           /\ (Valid("fixed", main.other_maps) /\ setting.loss_map_mem_type = "FIXED") =>
                l = OrZero(fixed_flow_loss_volume_map[main.other_maps.idx][main.flow])
           /\ (Valid("loss", main.other_maps) /\ setting.loss_map_mem_type # "FIXED") =>
                l = OrZero(flow_loss_volume_map[main.other_maps.idx][main.flow])
  BY NormalUpdateValues
<1>3. /\ main'.pc = "level" /\ main'.flow = main.flow /\ main'.loss = l
      /\ main'.volume = v /\ main'.sampled = main.sampled
      /\ main'.moved = main.moved /\ main'.tag = main.tag
  BY <1>1, <1>2 DEF MainRec
<1>4. /\ Valid("fixed", First) /\ Valid("loss", First) /\ First.idx = 0
      /\ Valid("volume", First) /\ Valid("rate", First)
  BY FirstMaps
<1>5. l = OrZero(LossMap[main.flow])
  BY <1>1, <1>2, <1>4 DEF LossMap
<1>6. \A g \in Flow : flow_volume_map'[0][g] =
                        IF g = main.flow THEN v ELSE flow_volume_map[0][g]
  <2>0. flow_volume_map' = Store(flow_volume_map, "volume", First, main.flow, v)
    BY <1>1, <1>2
  <2>1. flow_volume_map' = [flow_volume_map EXCEPT ![0][main.flow] = v]
    BY <2>0, <1>4 DEF Store
  <2> QED
    BY <1>1, <2>1, MapTypes DEF Buffer
<1>7. \A g \in Flow : flow_loss_rate_map'[0][g] =
                        IF g = main.flow THEN <<l, v>> ELSE flow_loss_rate_map[0][g]
  <2>0. flow_loss_rate_map' = Store(flow_loss_rate_map, "rate", First, main.flow, <<l, v>>)
    BY <1>1, <1>2
  <2>1. flow_loss_rate_map' = [flow_loss_rate_map EXCEPT ![0][main.flow] = <<l, v>>]
    BY <2>0, <1>4 DEF Store
  <2> QED
    BY <1>1, <2>1, MapTypes DEF Buffer
<1>8. UNCHANGED <<setting, fixed_flow_loss_volume_map, flow_loss_volume_map,
                  flow_selected_level_map, updator, reported, accounted, fatal>>
  BY DEF NormalUpdate, levels, buffers, history
<1> QED
  BY <1>3, <1>5, <1>6, <1>7, <1>8

LEMMA SetLevelFirst ==
  ASSUME TypeOK, FirstBuffer, NEW f \in Flow, NEW l, SetLevel(f, l)
  PROVE  \A g \in Flow : flow_selected_level_map'[0][g] =
                           IF g = f THEN l ELSE flow_selected_level_map[0][g]
<1>1. flow_selected_level_map' = Store(flow_selected_level_map, "level", First, f, l)
  BY FirstMaps DEF SetLevel
<1>2. flow_selected_level_map' = [flow_selected_level_map EXCEPT ![0][f] = l]
  BY <1>1, FirstMaps DEF Store
<1> QED
  BY <1>2, MapTypes DEF Buffer

LEMMA LossUpdateFirst ==
  ASSUME TypeInv, FirstBuffer, VolumeKnown, LossUpdate
  PROVE  /\ UNCHANGED <<setting, flow_volume_map, flow_selected_level_map, main,
                        reported, accounted, fatal>>
         /\ updator.pc = "update" /\ updator'.pc = "level"
         /\ updator'.flow = updator.flow
         /\ updator'.volume = flow_volume_map[0][updator.flow]
         /\ updator'.loss = OrZero(LossMap'[updator.flow])
         /\ \A g \in Flow \ {updator.flow} :
              /\ fixed_flow_loss_volume_map'[0][g] = fixed_flow_loss_volume_map[0][g]
              /\ flow_loss_volume_map'[0][g] = flow_loss_volume_map[0][g]
              /\ flow_loss_rate_map'[0][g] = flow_loss_rate_map[0][g]
         /\ flow_loss_rate_map'[0][updator.flow] = <<updator'.loss, updator'.volume>>
         /\ OrZero(flow_loss_volume_map'[0][updator.flow]) <=
              OrZero(flow_loss_volume_map[0][updator.flow]) + updator.lost
         /\ OrZero(fixed_flow_loss_volume_map'[0][updator.flow]) <=
              OrZero(fixed_flow_loss_volume_map[0][updator.flow]) + updator.lost
<1> DEFINE f == updator.flow
<1>1. /\ updator \in UpdatorRec /\ f \in Flow /\ updator.pc = "update" /\ TypeOK
      /\ updator.lost \in Nat \ {0}
      /\ updator.volume_map = First /\ updator.other_maps = First
  BY ThreadsTyped DEF LossUpdate, FirstBuffer, TypeInv
<1>2. /\ Valid("fixed", First) /\ Valid("loss", First) /\ First.idx = 0
      /\ Valid("volume", First) /\ Valid("rate", First)
      /\ {"volume", "loss"} \subseteq AllKinds
  BY FirstMaps
<1>3. flow_volume_map[0][f] \in Nat
  <2>1. flow_volume_map[0][f] # Absent /\ 0 \in Buffer
    BY <1>1 DEF VolumeKnown, Buffer
  <2> QED
    BY <1>1, <2>1, MapTypes DEF Amount
<1>4. \A v \in Reads(flow_volume_map, "volume", updator.volume_map, f) :
        v = flow_volume_map[0][f] /\ ~ (v < 0)
  <2>1. \A v \in Reads(flow_volume_map, "volume", First, f) : v = flow_volume_map[0][f]
    BY <1>1, <1>2, FirstReads
  <2> QED
    BY <1>1, <1>3, <2>1
<1>5. PICK v \in Reads(flow_volume_map, "volume", updator.volume_map, f),
           old \in Reads(flow_loss_volume_map, "loss", updator.other_maps, f),
           kept \in FixedViews, l \in Nat :
              /\ v \in Nat /\ OrZero(old) \in Nat
              /\ flow_loss_volume_map' =
                   Store(flow_loss_volume_map, "loss", updator.other_maps,
                         f, OrZero(old) + updator.lost)
              /\ fixed_flow_loss_volume_map' =
                   IF setting.loss_map_mem_type = "FIXED"
                   THEN Store(fixed_flow_loss_volume_map, "fixed",
                              updator.other_maps, f, kept)
                   ELSE fixed_flow_loss_volume_map
              /\ l = IF setting.loss_map_mem_type = "FIXED" THEN OrZero(kept)
                     ELSE OrZero(old) + updator.lost
              /\ flow_loss_rate_map' =
                   Store(flow_loss_rate_map, "rate", updator.other_maps,
                         f, <<l, v>>)
              /\ updator' = [updator EXCEPT !.pc = "level", !.volume = v, !.loss = l,
                               !.volume_map = NoPtr, !.other_maps = NoPtr]
              /\ UNCHANGED <<fatal, mutexs>>
  BY <1>4, LossUpdateValues
<1>6. v = flow_volume_map[0][f] /\ old = flow_loss_volume_map[0][f]
  BY <1>1, <1>2, <1>4, FirstReads
<1>7. /\ updator'.pc = "level" /\ updator'.flow = f /\ updator'.loss = l
      /\ updator'.volume = v
  BY <1>1, <1>5 DEF UpdatorRec
<1> HIDE DEF f
<1>8. \A g \in Flow : flow_loss_volume_map'[0][g] =
        IF g = f THEN OrZero(old) + updator.lost ELSE flow_loss_volume_map[0][g]
  <2>0. flow_loss_volume_map' =
          Store(flow_loss_volume_map, "loss", First, f, OrZero(old) + updator.lost)
    BY <1>1, <1>5
  <2>1. flow_loss_volume_map' =
          [flow_loss_volume_map EXCEPT ![0][f] = OrZero(old) + updator.lost]
    BY <2>0, <1>2 DEF Store
  <2> QED
    BY <1>1, <2>1, MapTypes DEF Buffer
<1>9. \A g \in Flow : flow_loss_rate_map'[0][g] =
        IF g = f THEN <<l, v>> ELSE flow_loss_rate_map[0][g]
  <2>0. flow_loss_rate_map' = Store(flow_loss_rate_map, "rate", First, f, <<l, v>>)
    BY <1>1, <1>5
  <2>1. flow_loss_rate_map' = [flow_loss_rate_map EXCEPT ![0][f] = <<l, v>>]
    BY <2>0, <1>2 DEF Store
  <2> QED
    BY <1>1, <2>1, MapTypes DEF Buffer
<1>10. \A g \in Flow : fixed_flow_loss_volume_map'[0][g] =
         IF g = f /\ setting.loss_map_mem_type = "FIXED"
         THEN kept ELSE fixed_flow_loss_volume_map[0][g]
  <2>1. CASE setting.loss_map_mem_type = "FIXED"
    <3>1. fixed_flow_loss_volume_map' = [fixed_flow_loss_volume_map EXCEPT ![0][f] = kept]
      BY <1>1, <1>2, <1>5, <2>1 DEF Store
    <3> QED
      BY <1>1, <2>1, <3>1, MapTypes DEF Buffer
  <2>2. CASE setting.loss_map_mem_type # "FIXED"
    BY <1>5, <2>2
  <2> QED
    BY <2>1, <2>2
<1>11. UNCHANGED <<setting, flow_volume_map, flow_selected_level_map, main, reported,
                   accounted, fatal>>
  BY <1>5 DEF LossUpdate, levels, buffers
<1>12. /\ flow_loss_volume_map'[0][f] = OrZero(old) + updator.lost
       /\ OrZero(old) + updator.lost \in Nat
       /\ OrZero(flow_loss_volume_map'[0][f]) = OrZero(old) + updator.lost
  BY <1>1, <1>5, <1>8 DEF OrZero
<1>13. l = OrZero(LossMap'[f])
  <2>1. CASE setting.loss_map_mem_type = "FIXED"
    BY <1>1, <1>5, <1>10, <1>11, <2>1 DEF LossMap
  <2>2. CASE setting.loss_map_mem_type # "FIXED"
    BY <1>1, <1>5, <1>11, <1>12, <2>2 DEF LossMap
  <2> QED
    BY <2>1, <2>2
<1>14. OrZero(fixed_flow_loss_volume_map'[0][f]) <=
         OrZero(fixed_flow_loss_volume_map[0][f]) + updator.lost
  <2>1. CASE setting.loss_map_mem_type = "FIXED"
    <3>1. fixed_flow_loss_volume_map'[0][f] = kept
      BY <1>1, <1>10, <2>1
    <3>2. OrZero(kept) <= OrZero(fixed_flow_loss_volume_map[0][f]) + updator.lost
      BY <1>1, <1>2, <2>1, FixedViewsTyped DEF f
    <3> QED
      BY <3>1, <3>2
  <2>2. CASE setting.loss_map_mem_type # "FIXED"
    <3>1. fixed_flow_loss_volume_map'[0][f] = fixed_flow_loss_volume_map[0][f]
      BY <1>1, <1>10, <2>2
    <3>2. fixed_flow_loss_volume_map[0][f] \in Amount
      BY <1>1, MapTypes DEF Buffer
    <3> QED
      BY <1>1, <3>1, <3>2 DEF OrZero, Amount, Absent
  <2> QED
    BY <2>1, <2>2
<1>15. OrZero(flow_loss_volume_map'[0][f]) <=
         OrZero(flow_loss_volume_map[0][f]) + updator.lost
  BY <1>6, <1>12
<1> QED
  BY <1>1, <1>6, <1>7, <1>8, <1>9, <1>10, <1>11, <1>13, <1>14, <1>15 DEF f

LEMMA LossMapFrame ==
  ASSUME NEW f, UNCHANGED setting,
         fixed_flow_loss_volume_map'[0][f] = fixed_flow_loss_volume_map[0][f],
         flow_loss_volume_map'[0][f] = flow_loss_volume_map[0][f]
  PROVE  LossMap'[f] = LossMap[f]
BY DEF LossMap

(* A flow none of whose entries a step changes. *)
LEMMA CurrentFrame ==
  ASSUME NEW f, LossMap'[f] = LossMap[f],
         flow_volume_map'[0][f] = flow_volume_map[0][f],
         flow_loss_rate_map'[0][f] = flow_loss_rate_map[0][f]
  PROVE  /\ (LevelIsCurrent(f) /\ flow_selected_level_map'[0][f] =
               flow_selected_level_map[0][f]) => LevelIsCurrent(f)'
         /\ \A loss, volume : RateIs(f, loss, volume) =>
              /\ volume = flow_volume_map'[0][f] /\ loss = OrZero(LossMap'[f])
              /\ flow_loss_rate_map'[0][f] = <<loss, volume>>
BY DEF LevelIsCurrent, RateIs

(* The updator and main never update the same flow. *)
LEMMA FlowsApart ==
  ASSUME BinsLocked, main.pc \in {"fetch", "update", "level"},
         updator.pc \in {"fetch", "add", "update", "level"}
  PROVE  main.flow # updator.flow
BY DEF BinsLocked

LEMMA FollowStep ==
  ASSUME TypeInv, BinsLocked, FirstInterval, Main \/ Updator
  PROVE  LevelsFollow'
<1>0. /\ main \in MainRec /\ updator \in UpdatorRec /\ TypeOK
      /\ main.pc # "idle" => main.flow \in Flow
      /\ updator.pc # "read" => updator.flow \in Flow
      /\ FirstBuffer /\ LevelsFollow /\ VolumeKnown
  BY ThreadsTyped DEF TypeInv, FirstInterval
<1>1. CASE MainQuietly \/ UpdatorQuietly
  BY <1>0, <1>1, QuietFollow
<1>2. CASE NormalUpdate
  <2>1. /\ UNCHANGED <<setting, fixed_flow_loss_volume_map, flow_loss_volume_map,
                       flow_selected_level_map, updator>>
        /\ main'.pc = "level" /\ main'.flow = main.flow
        /\ main'.loss = OrZero(LossMap[main.flow])
        /\ \A g \in Flow :
             /\ flow_volume_map'[0][g] =
                  IF g = main.flow THEN main'.volume ELSE flow_volume_map[0][g]
             /\ flow_loss_rate_map'[0][g] =
                  IF g = main.flow THEN <<main'.loss, main'.volume>>
                  ELSE flow_loss_rate_map[0][g]
    BY <1>0, <1>2, NormalUpdateFirst
  <2>2. LossMap' = LossMap
    BY <2>1 DEF LossMap
  <2>3. main.pc = "update" /\ main.flow \in Flow
    BY <1>0, <1>2 DEF NormalUpdate
  <2>4. RateIs(main.flow, main.loss, main.volume)'
    BY <2>1, <2>2, <2>3 DEF RateIs
  <2>5. updator.pc = "level" => RateIs(updator.flow, updator.loss, updator.volume)'
    <3> SUFFICES ASSUME updator.pc = "level"
                 PROVE  RateIs(updator.flow, updator.loss, updator.volume)'
      OBVIOUS
    <3>1. updator.flow \in Flow \ {main.flow}
      BY <1>0, <2>3, FlowsApart
    <3>2. RateIs(updator.flow, updator.loss, updator.volume)
      BY <1>0 DEF LevelsFollow
    <3> QED
      BY <2>1, <2>2, <3>1, <3>2 DEF RateIs
  <2>6. ASSUME NEW g \in Flow, ~ Computes(main', g), ~ Computes(updator', g)
        PROVE  LevelIsCurrent(g)'
    <3>1. g # main.flow /\ ~ Computes(main, g) /\ ~ Computes(updator, g)
      BY <2>1, <2>3, <2>6 DEF Computes
    <3>2. LevelIsCurrent(g)
      BY <1>0, <3>1 DEF LevelsFollow
    <3> QED
      BY <2>1, <2>2, <3>1, <3>2, CurrentFrame
  <2> QED
    BY <2>1, <2>4, <2>5, <2>6 DEF LevelsFollow, Computes
<1>3. CASE NormalLevel
  <2>0. PICK f \in Flow : f = main.flow
    BY <1>0, <1>3 DEF NormalLevel
  <2>1. main.pc = "level" /\ f = main.flow /\ RateIs(f, main.loss, main.volume)
    BY <1>0, <2>0, <1>3 DEF NormalLevel, LevelsFollow
  <2>2. \A g \in Flow : flow_selected_level_map'[0][g] =
          IF g = f THEN LevelOf(main.volume, main.loss) ELSE flow_selected_level_map[0][g]
    BY <1>0, <1>3, <2>1, SetLevelFirst DEF NormalLevel
  <2>3. /\ UNCHANGED <<setting, flow_volume_map, fixed_flow_loss_volume_map,
                       flow_loss_volume_map, flow_loss_rate_map, updator>>
        /\ main'.pc # "level"
    BY <1>0, <1>3, NormalLevelMain DEF NormalLevel, maps, buffers
  <2>4. LossMap' = LossMap
    BY <2>3 DEF LossMap
  <2>5. main.volume # Absent
    BY <1>0, MainRecFields DEF Absent
  <2>6. LevelIsCurrent(f)'
    BY <2>1, <2>2, <2>3, <2>4, <2>5 DEF RateIs, LevelIsCurrent
  <2>7. updator.pc = "level" => RateIs(updator.flow, updator.loss, updator.volume)'
    BY <1>0, <2>3, <2>4 DEF LevelsFollow, RateIs
  <2>8. ASSUME NEW g \in Flow, ~ Computes(updator', g), g # f
        PROVE  LevelIsCurrent(g)'
    <3>1. ~ Computes(main, g) /\ ~ Computes(updator, g)
      BY <2>1, <2>3, <2>8 DEF Computes
    <3>2. LevelIsCurrent(g)
      BY <1>0, <3>1 DEF LevelsFollow
    <3> QED
      BY <2>2, <2>3, <2>4, <2>8, <3>2, CurrentFrame
  <2> QED
    BY <2>3, <2>6, <2>7, <2>8 DEF LevelsFollow, Computes
<1>4. CASE LossUpdate
  <2> DEFINE f == updator.flow
  <2>1. /\ UNCHANGED <<setting, flow_volume_map, flow_selected_level_map, main>>
        /\ updator.pc = "update" /\ updator'.pc = "level" /\ updator'.flow = f
        /\ updator'.volume = flow_volume_map[0][f]
        /\ updator'.loss = OrZero(LossMap'[f])
        /\ \A g \in Flow \ {f} :
             /\ fixed_flow_loss_volume_map'[0][g] = fixed_flow_loss_volume_map[0][g]
             /\ flow_loss_volume_map'[0][g] = flow_loss_volume_map[0][g]
             /\ flow_loss_rate_map'[0][g] = flow_loss_rate_map[0][g]
        /\ flow_loss_rate_map'[0][f] = <<updator'.loss, updator'.volume>>
    BY <1>0, <1>4, LossUpdateFirst
  <2>2. f \in Flow
    BY <1>0, <2>1
  <2>3. \A g \in Flow \ {f} : LossMap'[g] = LossMap[g]
    BY <2>1, LossMapFrame
  <2>4. RateIs(updator.flow, updator.loss, updator.volume)'
    BY <2>1 DEF RateIs
  <2>5. main.pc = "level" => RateIs(main.flow, main.loss, main.volume)'
    <3> SUFFICES ASSUME main.pc = "level"
                 PROVE  RateIs(main.flow, main.loss, main.volume)'
      OBVIOUS
    <3>1. main.flow \in Flow \ {f}
      BY <1>0, <2>1, FlowsApart
    <3>2. RateIs(main.flow, main.loss, main.volume)
      BY <1>0 DEF LevelsFollow
    <3>3. LossMap'[main.flow] = LossMap[main.flow]
      BY <2>3, <3>1
    <3> QED
      BY <2>1, <3>1, <3>2, <3>3 DEF RateIs
  <2>6. ASSUME NEW g \in Flow, ~ Computes(main', g), ~ Computes(updator', g)
        PROVE  LevelIsCurrent(g)'
    <3>1. g # f /\ ~ Computes(main, g) /\ ~ Computes(updator, g)
      BY <2>1, <2>6 DEF Computes
    <3>2. LevelIsCurrent(g) /\ LossMap'[g] = LossMap[g]
      BY <1>0, <2>3, <3>1 DEF LevelsFollow
    <3> QED
      BY <2>1, <3>1, <3>2, CurrentFrame
  <2> QED
    BY <2>1, <2>4, <2>5, <2>6 DEF LevelsFollow, Computes
<1>5. CASE LossLevel
  <2>0. PICK f \in Flow : f = updator.flow
    BY <1>0, <1>5 DEF LossLevel
  <2>1. updator.pc = "level" /\ f = updator.flow
        /\ RateIs(f, updator.loss, updator.volume)
    BY <1>0, <2>0, <1>5 DEF LossLevel, LevelsFollow
  <2>2. \A g \in Flow : flow_selected_level_map'[0][g] =
          IF g = f THEN LevelOf(updator.volume, updator.loss)
          ELSE flow_selected_level_map[0][g]
    BY <1>0, <1>5, <2>1, SetLevelFirst DEF LossLevel
  <2>3. /\ UNCHANGED <<setting, flow_volume_map, fixed_flow_loss_volume_map,
                       flow_loss_volume_map, flow_loss_rate_map>>
        /\ updator'.pc = "read" /\ main'.pc = main.pc /\ main'.flow = main.flow
        /\ main'.loss = main.loss /\ main'.volume = main.volume
    BY <1>0, <1>5 DEF LossLevel, maps, buffers, MainRec, UpdatorIdle
  <2>4. LossMap' = LossMap
    BY <2>3 DEF LossMap
  <2>5. updator.volume # Absent
    BY <1>0, UpdatorRecFields DEF Absent
  <2>6. LevelIsCurrent(f)'
    BY <2>1, <2>2, <2>3, <2>4, <2>5 DEF RateIs, LevelIsCurrent
  <2>7. main.pc = "level" => RateIs(main.flow, main.loss, main.volume)'
    BY <1>0, <2>3, <2>4 DEF LevelsFollow, RateIs
  <2>8. ASSUME NEW g \in Flow, ~ Computes(main', g), g # f
        PROVE  LevelIsCurrent(g)'
    <3>1. ~ Computes(main, g) /\ ~ Computes(updator, g)
      BY <2>1, <2>3, <2>8 DEF Computes
    <3>2. LevelIsCurrent(g)
      BY <1>0, <3>1 DEF LevelsFollow
    <3> QED
      BY <2>2, <2>3, <2>4, <2>8, <3>2, CurrentFrame
  <2> QED
    BY <2>3, <2>6, <2>7, <2>8 DEF LevelsFollow, Computes
<1> QED
  BY <1>1, <1>2, <1>3, <1>4, <1>5 DEF Main, Updator, MainQuietly, UpdatorQuietly

LEMMA ReportedStep ==
  ASSUME TypeInv, FirstInterval, Main \/ Updator
  PROVE  LossesReported'
<1>0. /\ main \in MainRec /\ updator \in UpdatorRec /\ TypeOK
      /\ updator.pc # "read" => updator.flow \in Flow /\ updator.lost \in Nat \ {0}
      /\ FirstBuffer /\ LossesReported /\ VolumeKnown
      /\ reported \in [Flow -> Nat]
  BY ThreadsTyped DEF TypeInv, FirstInterval, TypeOK, HistoryType
<1>1. ASSUME UNCHANGED <<flow_loss_volume_map, fixed_flow_loss_volume_map, reported,
                         updator>>
      PROVE  LossesReported'
  BY <1>0, <1>1 DEF LossesReported, Pending
<1>2. \A f \in Flow : OrZero(flow_loss_volume_map[0][f]) \in Nat
                      /\ OrZero(fixed_flow_loss_volume_map[0][f]) \in Nat
  <2>1. \A f \in Flow : flow_loss_volume_map[0][f] \in Amount
                        /\ fixed_flow_loss_volume_map[0][f] \in Amount
    BY <1>0, MapTypes DEF Buffer
  <2> QED
    BY <2>1 DEF OrZero, Amount, Absent
<1>3. CASE MainQuietly
  BY <1>1, <1>3, MainMoves DEF followed
<1>4. CASE NormalUpdate
  BY <1>0, <1>1, <1>4, NormalUpdateFirst
<1>5. CASE NormalLevel
  BY <1>1, <1>5 DEF NormalLevel, maps, history
<1>6. CASE UpdatorQuietly
  <2>1. UNCHANGED <<flow_loss_volume_map, fixed_flow_loss_volume_map>>
    BY <1>6, UpdatorMoves DEF followed
  <2>2. CASE /\ updator.pc \in {"lock", "fetch", "add"}
             /\ updator'.pc \in {"fetch", "add", "update"}
             /\ updator'.flow = updator.flow /\ updator'.lost = updator.lost
             /\ reported' = reported
    <3>1. \A f \in Flow : Pending(f)' = Pending(f)
      BY <2>2 DEF Pending
    <3> QED
      BY <1>0, <2>1, <2>2, <3>1 DEF LossesReported
  <2>3. CASE /\ updator.pc = "read"
             /\ \E f \in Flow, n \in Nat \ {0} :
                  /\ updator'.pc = "lock" /\ updator'.flow = f /\ updator'.lost = n
                  /\ reported[f] + n < accounted[f]
                  /\ reported' = [reported EXCEPT ![f] = @ + n]
    <3>1. PICK f \in Flow, n \in Nat \ {0} :
            /\ updator'.pc = "lock" /\ updator'.flow = f /\ updator'.lost = n
            /\ reported' = [reported EXCEPT ![f] = @ + n]
      BY <2>3
    <3>2. \A g \in Flow : Pending(g) = 0 /\ Pending(g)' = IF g = f THEN n ELSE 0
      BY <2>3, <3>1 DEF Pending
    <3>3. \A g \in Flow : reported'[g] = IF g = f THEN reported[g] + n ELSE reported[g]
      BY <1>0, <3>1
    <3>4. \A g \in Flow :
            /\ OrZero(flow_loss_volume_map[0][g]) <= reported[g]
            /\ OrZero(fixed_flow_loss_volume_map[0][g]) <= reported[g]
      BY <1>0, <1>2, <3>2 DEF LossesReported
    <3>5. ASSUME NEW g \in Flow
          PROVE  /\ OrZero(flow_loss_volume_map[0][g]) + Pending(g)' <= reported'[g]
                 /\ OrZero(fixed_flow_loss_volume_map[0][g]) + Pending(g)' <= reported'[g]
      BY <1>0, <1>2, <3>2, <3>3, <3>4
    <3> QED
      BY <2>1, <3>5 DEF LossesReported
  <2> QED
    BY <1>6, <2>2, <2>3, UpdatorMoves
<1>7. CASE LossUpdate
  <2> DEFINE f == updator.flow
  <2>1. /\ reported' = reported /\ updator.pc = "update" /\ updator'.pc = "level"
        /\ \A g \in Flow \ {f} :
             /\ fixed_flow_loss_volume_map'[0][g] = fixed_flow_loss_volume_map[0][g]
             /\ flow_loss_volume_map'[0][g] = flow_loss_volume_map[0][g]
        /\ OrZero(flow_loss_volume_map'[0][f]) <=
             OrZero(flow_loss_volume_map[0][f]) + updator.lost
        /\ OrZero(fixed_flow_loss_volume_map'[0][f]) <=
             OrZero(fixed_flow_loss_volume_map[0][f]) + updator.lost
    BY <1>0, <1>7, LossUpdateFirst
  <2>2. \A g \in Flow : Pending(g) = (IF g = f THEN updator.lost ELSE 0)
                        /\ Pending(g)' = 0
    BY <2>1 DEF Pending
  <2>3. f \in Flow /\ updator.lost \in Nat
    BY <1>0, <2>1
  <2>4. \A g \in Flow : OrZero(flow_loss_volume_map'[0][g]) \in Nat
                        /\ OrZero(fixed_flow_loss_volume_map'[0][g]) \in Nat
    <3>1. MapType'
      BY <1>7, LossUpdateType DEF TypeInv, TypeOK
    <3>2. \A g \in Flow : flow_loss_volume_map'[0][g] \in Amount
                          /\ fixed_flow_loss_volume_map'[0][g] \in Amount
      BY <3>1 DEF MapType, Buffer
    <3> QED
      BY <3>2 DEF OrZero, Amount, Absent
  <2>5. \A g \in Flow :
          /\ OrZero(flow_loss_volume_map[0][g])
               + (IF g = f THEN updator.lost ELSE 0) <= reported[g]
          /\ OrZero(fixed_flow_loss_volume_map[0][g])
               + (IF g = f THEN updator.lost ELSE 0) <= reported[g]
    BY <1>0, <2>2 DEF LossesReported
  <2>6. ASSUME NEW g \in Flow
        PROVE  /\ OrZero(flow_loss_volume_map'[0][g]) + Pending(g)' <= reported'[g]
               /\ OrZero(fixed_flow_loss_volume_map'[0][g]) + Pending(g)' <= reported'[g]
    <3>1. CASE g = f
      BY <1>0, <1>2, <2>1, <2>2, <2>3, <2>4, <2>5, <3>1
    <3>2. CASE g # f
      BY <1>0, <1>2, <2>1, <2>2, <2>4, <2>5, <3>2
    <3> QED
      BY <3>1, <3>2
  <2> QED
    BY <2>6 DEF LossesReported
<1>8. CASE LossLevel
  <2>1. /\ UNCHANGED <<flow_loss_volume_map, fixed_flow_loss_volume_map, reported>>
        /\ updator.pc = "level" /\ updator'.pc = "read"
    BY <1>8 DEF LossLevel, maps, history, UpdatorIdle
  <2>2. \A g \in Flow : Pending(g)' = Pending(g)
    BY <2>1 DEF Pending
  <2> QED
    BY <1>0, <2>1, <2>2 DEF LossesReported
<1> QED
  BY <1>3, <1>4, <1>5, <1>6, <1>7, <1>8
     DEF Main, Updator, MainQuietly, UpdatorQuietly

LEMMA VolumeStep ==
  ASSUME TypeInv, FirstInterval, Main \/ Updator
  PROVE  VolumeKnown'
<1>0. /\ main \in MainRec /\ updator \in UpdatorRec /\ TypeOK
      /\ main.pc # "idle" => main.flow \in Flow
      /\ updator.pc # "read" => updator.flow \in Flow
      /\ FirstBuffer /\ VolumeKnown
      /\ reported \in [Flow -> Nat] /\ accounted \in [Flow -> Nat]
  BY ThreadsTyped DEF TypeInv, FirstInterval, TypeOK, HistoryType
<1>1. CASE MainQuietly
  <2>1. /\ UNCHANGED <<flow_volume_map, fatal, updator>>
        /\ main.pc # "level" /\ main'.pc \notin {"level", "cursor"}
        /\ main'.pc \in {"count", "add", "send"} =>
             main.pc \in {"cursor", "count", "add"} /\ main'.flow = main.flow
        /\ \/ accounted' = accounted
           \/ /\ main.pc = "send"
              /\ accounted' = [accounted EXCEPT ![main.flow] = @ + 1]
    BY <1>1, MainMoves DEF followed
  <2>2. \A f \in Flow : accounted'[f] > 0 => flow_volume_map[0][f] # Absent
    <3>1. CASE accounted' = accounted
      BY <1>0, <3>1 DEF VolumeKnown
    <3>2. CASE main.pc = "send" /\ accounted' = [accounted EXCEPT ![main.flow] = @ + 1]
      <4>1. \A f \in Flow : f # main.flow => accounted'[f] = accounted[f]
        BY <1>0, <3>2
      <4>2. flow_volume_map[0][main.flow] # Absent
        BY <1>0, <3>2 DEF VolumeKnown
      <4> QED
        BY <1>0, <4>1, <4>2 DEF VolumeKnown
    <3> QED
      BY <2>1, <3>1, <3>2
  <2>3. main'.pc \in {"level", "cursor", "count", "add", "send"} =>
          flow_volume_map[0][main'.flow] # Absent
    BY <1>0, <2>1 DEF VolumeKnown
  <2> QED
    BY <1>0, <2>1, <2>2, <2>3 DEF VolumeKnown
<1>2. CASE NormalUpdate
  <2>1. /\ UNCHANGED <<updator, accounted, fatal>>
        /\ main'.flow = main.flow /\ main'.volume \in Nat \ {0}
        /\ \A g \in Flow : flow_volume_map'[0][g] =
             IF g = main.flow THEN main'.volume ELSE flow_volume_map[0][g]
    BY <1>0, <1>2, NormalUpdateFirst
  <2>2. main.flow \in Flow
    BY <1>0, <1>2 DEF NormalUpdate
  <2>3. \A g \in Flow : flow_volume_map[0][g] # Absent => flow_volume_map'[0][g] # Absent
    BY <2>1 DEF Absent
  <2>4. flow_volume_map'[0][main.flow] # Absent
    BY <2>1, <2>2 DEF Absent
  <2> QED
    BY <1>0, <2>1, <2>3, <2>4 DEF VolumeKnown
<1>3. CASE NormalLevel
  <2>1. /\ UNCHANGED <<flow_volume_map, accounted, fatal, updator>>
        /\ main.pc = "level" /\ main'.flow = main.flow
    BY <1>0, <1>3, NormalLevelMain DEF NormalLevel, maps, history
  <2> QED
    BY <1>0, <2>1 DEF VolumeKnown
<1>4. CASE UpdatorQuietly
  <2>1. UNCHANGED <<flow_volume_map, accounted, fatal, main>>
    BY <1>4, UpdatorMoves DEF followed
  <2>2. flow_volume_map[0][updator'.flow] # Absent
    <3>1. CASE updator.pc # "read" /\ updator'.flow = updator.flow
      BY <1>0, <3>1 DEF VolumeKnown
    <3>2. CASE \E f \in Flow, n \in Nat \ {0} :
                 updator'.flow = f /\ reported[f] + n < accounted[f]
      <4>1. PICK f \in Flow, n \in Nat \ {0} :
              updator'.flow = f /\ reported[f] + n < accounted[f]
        BY <3>2
      <4>2. reported[f] \in Nat /\ accounted[f] \in Nat
        BY <1>0
      <4>3. accounted[f] > 0
        BY <4>1, <4>2
      <4> QED
        BY <1>0, <4>1, <4>3 DEF VolumeKnown
    <3> QED
      BY <1>4, <3>1, <3>2, UpdatorMoves
  <2> QED
    BY <1>0, <2>1, <2>2 DEF VolumeKnown
<1>5. CASE LossUpdate
  <2>1. /\ UNCHANGED <<flow_volume_map, main, accounted, fatal>>
        /\ updator.pc = "update" /\ updator'.flow = updator.flow
    BY <1>0, <1>5, LossUpdateFirst
  <2> QED
    BY <1>0, <2>1 DEF VolumeKnown
<1>6. CASE LossLevel
  <2>1. /\ UNCHANGED <<flow_volume_map, accounted, fatal>>
        /\ updator'.pc = "read" /\ main'.pc = main.pc /\ main'.flow = main.flow
    BY <1>0, <1>6 DEF LossLevel, MainRec, maps, history, UpdatorIdle
  <2> QED
    BY <1>0, <2>1 DEF VolumeKnown
<1> QED
  BY <1>1, <1>2, <1>3, <1>4, <1>5, <1>6
     DEF Main, Updator, MainQuietly, UpdatorQuietly

LEMMA TagStep ==
  ASSUME TypeInv, FirstInterval, Main \/ Updator
  PROVE  TagKnown'
<1>0. /\ main \in MainRec /\ updator \in UpdatorRec /\ TypeOK
      /\ main.pc # "idle" => main.flow \in Flow
      /\ updator.pc # "read" => updator.flow \in Flow
      /\ FirstBuffer /\ TagKnown /\ VolumeKnown
  BY ThreadsTyped DEF TypeInv, FirstInterval
<1>1. \A f \in Flow : flow_selected_level_map[0][f] \in Levels
  BY <1>0, MapTypes DEF Buffer
<1>2. ASSUME main'.pc \in {"sample", "lock"}, main'.tag = NO_SELECTED_LEVEL
      PROVE  TagKnown'
  BY <1>2 DEF TagKnown
<1>3. ASSUME main'.pc \notin {"idle", "sample", "tag"}, main'.tag = main.tag,
             main'.sampled = main.sampled, main'.moved = main.moved
      PROVE  TagKnown'
  BY <1>0, <1>3 DEF TagKnown
<1>4. ASSUME NEW f \in Flow, TakePacket(f) PROVE TagKnown'
  <2> DEFINE p == IF f \in setting.monitored THEN "sample" ELSE "lock"
             l == IF f \in setting.monitored THEN Active ELSE NoPtr
  <2>1. main' = [main EXCEPT !.flow = f, !.pc = p, !.level_map = l] /\ main.pc = "idle"
    BY <1>4 DEF TakePacket
  <2>2. p \in {"sample", "lock"}
    OBVIOUS
  <2> HIDE DEF p, l
  <2>3. main'.pc \in {"sample", "lock"} /\ main'.tag = main.tag
    BY <1>0, <2>1, <2>2 DEF MainRec
  <2> QED
    BY <1>0, <1>2, <2>1, <2>3 DEF TagKnown
<1>5. CASE LeaveSampling
  <2>1. main.pc = "sample" /\ main'.pc = "lock" /\ main'.tag = main.tag
    BY <1>0, <1>5 DEF LeaveSampling, MainRec
  <2> QED
    BY <1>0, <1>2, <2>1 DEF TagKnown
<1>6. CASE SamplePacket
  <2>1. PICK l \in Reads(flow_selected_level_map, "level", main.level_map, main.flow),
             z \in BOOLEAN :
          /\ l > NO_SELECTED_LEVEL => z
          /\ \/ main' = [main EXCEPT !.pc = "tag", !.sampled = z]
             \/ main' = [main EXCEPT !.pc = "lock", !.sampled = z, !.level_map = NoPtr]
    BY <1>6 DEF SamplePacket, SampleAlways
  <2>2. /\ main.pc = "sample" /\ main.flow \in Flow /\ main.level_map = First
        /\ flow_selected_level_map' = flow_selected_level_map
    BY <1>0, <1>6 DEF SamplePacket, levels, FirstBuffer
  <2>3. l = flow_selected_level_map[0][main.flow]
    BY <1>0, <2>1, <2>2, FirstMaps, FirstReads
  <2>4. /\ main'.pc \in {"tag", "lock"} /\ main'.tag = main.tag
        /\ main'.sampled = z /\ main'.flow = main.flow
    BY <1>0, <2>1 DEF MainRec
  <2> QED
    BY <1>0, <2>1, <2>2, <2>3, <2>4 DEF TagKnown
<1>7. CASE TagPacket
  <2>1. PICK l \in Reads(flow_selected_level_map, "level", main.level_map, main.flow) :
          main' = [main EXCEPT !.pc = "lock", !.level_map = NoPtr,
                     !.tag = IF l > NO_SELECTED_LEVEL THEN l ELSE NO_SELECTED_LEVEL]
    BY <1>7 DEF TagPacket
  <2>2. main.pc = "tag" /\ main.flow \in Flow /\ main.level_map = First
    BY <1>0, <1>7 DEF TagPacket, FirstBuffer
  <2>3. l = flow_selected_level_map[0][main.flow]
    BY <1>0, <2>1, <2>2, FirstMaps, FirstReads
  <2> DEFINE z == IF l > NO_SELECTED_LEVEL THEN l ELSE NO_SELECTED_LEVEL
  <2>4. z # NO_SELECTED_LEVEL => l > NO_SELECTED_LEVEL
    OBVIOUS
  <2> HIDE DEF z
  <2>5. /\ main'.pc = "lock" /\ main'.tag = z /\ main'.sampled = main.sampled
        /\ main'.moved = main.moved
    BY <1>0, <2>1 DEF MainRec, z
  <2> QED
    BY <1>0, <2>2, <2>3, <2>4, <2>5 DEF TagKnown
<1>8. CASE NormalLock \/ NormalFetch
  <2>1. /\ main'.pc \in {"fetch", "update"} /\ main'.tag = main.tag
        /\ main'.sampled = main.sampled /\ main'.moved = main.moved
    BY <1>0, <1>8 DEF NormalLock, NormalFetch, MainRec
  <2> QED
    BY <1>3, <2>1
<1>9. CASE NormalUpdate
  BY <1>0, <1>3, <1>9, NormalUpdateFirst
<1>10. CASE NormalLevel \/ NormalCursor
  <2>1. /\ main'.pc \in {"cursor", "count"} /\ main'.tag = main.tag
        /\ main'.sampled = main.sampled /\ main'.moved = main.moved
    BY <1>0, <1>10, NormalLevelMain DEF NormalCursor, MainRec
  <2> QED
    BY <1>3, <2>1
<1>11. CASE CountRead \/ CountWrite
  <2>1. /\ main'.pc \in {"add", "send"} /\ main'.tag = main.tag
        /\ main'.sampled = main.sampled /\ main'.moved = main.moved
    BY <1>0, <1>11 DEF CountRead, CountWrite, MainRec
  <2> QED
    BY <1>3, <2>1
<1>12. CASE SendPacket
  BY <1>12 DEF SendPacket, MainIdle, TagKnown
<1>13. CASE UpdatorQuietly
  <2>1. UNCHANGED <<main, flow_selected_level_map>>
    BY <1>13, UpdatorMoves DEF followed
  <2> QED
    BY <1>0, <2>1 DEF TagKnown
<1>14. CASE LossUpdate
  <2>1. UNCHANGED <<main, flow_selected_level_map>>
    BY <1>0, <1>14, LossUpdateFirst
  <2> QED
    BY <1>0, <2>1 DEF TagKnown
<1>15. CASE LossLevel
  <2> DEFINE z == main.moved \/ (main.pc = "tag" /\ main.flow = updator.flow)
  <2>1. main' = [main EXCEPT !.moved = z] /\ updator.pc = "level"
    BY <1>15 DEF LossLevel
  <2>2. main.moved => z
    OBVIOUS
  <2>3. main.pc = "tag" /\ main.flow = updator.flow => z
    OBVIOUS
  <2> HIDE DEF z
  <2>4. /\ main'.pc = main.pc /\ main'.tag = main.tag /\ main'.moved = z
        /\ main'.sampled = main.sampled /\ main'.flow = main.flow
    BY <1>0, <2>1 DEF MainRec
  <2>5. \A g \in Flow : g # updator.flow =>
          flow_selected_level_map'[0][g] = flow_selected_level_map[0][g]
    BY <1>0, <1>15, <2>1, SetLevelFirst DEF LossLevel
  <2>6. /\ main.tag # NO_SELECTED_LEVEL => main.sampled \/ z
        /\ main.pc = "tag" /\ flow_selected_level_map'[0][main.flow] > NO_SELECTED_LEVEL
             => main.sampled \/ z
    BY <1>0, <2>2, <2>3, <2>5 DEF TagKnown
  <2> QED
    BY <1>0, <2>4, <2>6 DEF TagKnown
<1> QED
  BY <1>4, <1>5, <1>6, <1>7, <1>8, <1>9, <1>10, <1>11, <1>12, <1>13, <1>14, <1>15
     DEF Main, Updator, UpdatorQuietly

LEMMA OthersDoNotRotate == Main \/ Updator => UNCHANGED rotations
BY DEF Main, Updator, TakePacket, LeaveSampling, SamplePacket, TagPacket, NormalLock,
       NormalFetch, NormalUpdate, NormalLevel, NormalCursor, CountRead, CountWrite, SendPacket,
       ReportLoss, LossLock, LossFetch, LossCount, LossUpdate, LossLevel, buffers

LEMMA IntervalStep == TypeInv /\ IntervalInv /\ [Next]_vars => IntervalInv'
<1> SUFFICES ASSUME TypeInv, IntervalInv, [Next]_vars, rotations' = 0
             PROVE  FirstInterval'
  BY BinsLockedStep DEF IntervalInv
<1>0. BinsLocked /\ rotations \in Nat /\ (rotations = 0 => FirstInterval)
  BY DEF IntervalInv, TypeInv, TypeOK, BufferType
<1>1. CASE Main \/ Updator
  <2>1. FirstInterval
    BY <1>0, <1>1, OthersDoNotRotate
  <2> QED
    BY <1>0, <1>1, <2>1, FirstBufferStep, FollowStep, ReportedStep, VolumeStep, TagStep
       DEF FirstInterval
<1>2. ASSUME UNCHANGED <<rotations, followed, main, updator, reported, accounted,
                         fatal, active_idx, gen, exists, rotator>>
      PROVE  FirstInterval'
  <2>1. FirstInterval
    BY <1>0, <1>2
  <2>2. FirstBuffer'
    BY <1>2, <2>1 DEF FirstInterval, FirstBuffer
  <2>3. LevelsFollow'
    BY <1>2, <2>1, FollowFrame DEF FirstInterval
  <2>4. LossesReported'
    BY <1>2, <2>1 DEF FirstInterval, LossesReported, Pending, followed
  <2>5. VolumeKnown' /\ TagKnown'
    BY <1>2, <2>1 DEF FirstInterval, VolumeKnown, TagKnown, followed
  <2> QED
    BY <2>2, <2>3, <2>4, <2>5 DEF FirstInterval
<1>3. CASE Cond
  <2>1. UNCHANGED <<rotations, followed, main, updator, reported, accounted, fatal,
                    active_idx, gen, exists, rotator>>
    <3>1. CASE CondLockSend \/ CondLockWarehouse \/ CondEnd
      BY <3>1 DEF CondLockSend, CondLockWarehouse, CondEnd, followed, maps, levels,
                  buffers, history
    <3>2. CASE CondPlus \/ CondMinus
      BY <3>2 DEF CondPlus, CondMinus, followed, maps, buffers, history
    <3>3. CASE CondRenew \/ CondCopy
      BY <3>3 DEF CondRenew, CondCopy, followed, maps, levels, buffers, history
    <3> QED
      BY <1>3, <3>1, <3>2, <3>3 DEF Cond
  <2> QED
    BY <1>2, <2>1
<1>4. CASE Rotator
  <2>1. CASE Rotate
    BY <1>0, <2>1 DEF Rotate
  <2>2. CASE WriteInterval \/ DestroyMaps \/ CreateMaps
    <3>1. rotator # "sleep" /\ rotations' = rotations
      BY <2>2 DEF WriteInterval, DestroyMaps, CreateMaps, buffers
    <3> QED
      BY <1>0, <3>1 DEF FirstInterval, FirstBuffer
  <2> QED
    BY <1>4, <2>1, <2>2 DEF Rotator
<1>5. CASE UNCHANGED vars
  <2>1. UNCHANGED <<rotations, followed, main, updator, reported, accounted, fatal,
                    active_idx, gen, exists, rotator>>
    BY <1>5 DEF vars, followed, maps, levels, buffers, history
  <2> QED
    BY <1>2, <2>1
<1> QED
  BY <1>1, <1>3, <1>4, <1>5 DEF Next

LEMMA IntervalHolds == Spec => [](TypeInv /\ IntervalInv)
<1>1. Init => TypeInv /\ IntervalInv
  BY TypeInit, IntervalInit
<1>2. TypeInv /\ IntervalInv /\ [Next]_vars => (TypeInv /\ IntervalInv)'
  BY TypeStep, IntervalStep
<1> QED
  BY <1>1, <1>2, PTL DEF Spec

(* A flow whose bin no thread has locked is not being updated. *)
LEMMA FreeIsCurrent ==
  ASSUME TypeInv, IntervalInv, NEW f \in Flow, rotations = 0, mutexs[BinOf[f]] = Free
  PROVE  LevelIsCurrent(f)
<1>1. ~ Computes(main, f) /\ ~ Computes(updator, f)
  BY DEF IntervalInv, BinsLocked, Computes, Free
<1> QED
  BY <1>1 DEF IntervalInv, FirstInterval, LevelsFollow

(* For any number of flows and bins: until the first rotation the loss     *)
(* rate and the level that update_flow_normal_volume and                   *)
(* update_flow_loss_volume leave for a flow are those of its volume and    *)
(* loss volume.                                                            *)
THEOREM LevelsAreCurrent == Spec => []LevelsMatchLosses
<1>1. TypeInv /\ IntervalInv => LevelsMatchLosses
  BY FreeIsCurrent DEF LevelsMatchLosses, LevelIsCurrent
<1> QED
  BY <1>1, IntervalHolds, PTL

(* More losses never lower a level. *)
LEMMA LevelMonotone ==
  ASSUME NEW volume \in Nat, NEW loss \in Nat, NEW more \in Nat, loss <= more
  PROVE  LevelOf(volume, loss) <= LevelOf(volume, more)
<1>1. /\ RateDen \in Nat /\ RateNum \in Nat /\ VolumeThr \in Nat
      /\ SelectedLossThr \in Nat /\ LossThr \in Nat
  BY ThresholdAssumption
<1>2. loss * RateDen <= more * RateDen
  BY <1>1
<1> DEFINE a == loss * RateDen
           b == more * RateDen
           c == RateNum * volume
<1>3. a \in Nat /\ b \in Nat /\ c \in Nat
  BY <1>1
<1>4. a <= b
  BY <1>2
<1> HIDE DEF a, b, c
<1>5. LevelOf(volume, loss) = IF volume >= VolumeThr /\ a >= c /\ loss >= SelectedLossThr
                              THEN IF loss >= LossThr THEN 2 ELSE 1 ELSE -1
  BY DEF LevelOf, a, c, TARGET_LEVEL, SELECTED_LEVEL, Absent
<1>6. LevelOf(volume, more) = IF volume >= VolumeThr /\ b >= c /\ more >= SelectedLossThr
                              THEN IF more >= LossThr THEN 2 ELSE 1 ELSE -1
  BY DEF LevelOf, b, c, TARGET_LEVEL, SELECTED_LEVEL, Absent
<1> QED
  BY <1>1, <1>3, <1>4, <1>5, <1>6

(* Whatever flows share a bucket of the map of fixed size, and whichever   *)
(* loss map the levels follow: no flow gets a higher level than the losses *)
(* reported for it justify.                                                *)
THEOREM NeverOverselects == Spec => []FixedNeverOverselects
<1>1. ASSUME TypeInv, IntervalInv, NEW f \in Flow, rotations = 0,
             mutexs[BinOf[f]] = Free
      PROVE  flow_selected_level_map[0][f] <=
               LevelOf(OrZero(flow_volume_map[0][f]), reported[f])
  <2> DEFINE volume == flow_volume_map[0][f]
             loss == OrZero(LossMap[f])
  <2>1. LevelIsCurrent(f)
    BY <1>1, FreeIsCurrent
  <2>2. volume \in Amount /\ flow_loss_volume_map[0][f] \in Amount
        /\ fixed_flow_loss_volume_map[0][f] \in Amount /\ reported[f] \in Nat
    BY <1>1, MapTypes DEF TypeInv, TypeOK, HistoryType, Buffer
  <2>3. OrZero(volume) \in Nat /\ (volume # Absent => OrZero(volume) = volume)
    BY <2>2 DEF OrZero, Amount, Absent
  <2>4. loss \in Nat /\ loss <= reported[f]
    <3>1. /\ OrZero(flow_loss_volume_map[0][f]) \in Nat
          /\ OrZero(fixed_flow_loss_volume_map[0][f]) \in Nat
      BY <2>2 DEF OrZero, Amount, Absent
    <3>2. Pending(f) \in Nat
      BY <1>1, ThreadsTyped, UpdatorRecFields DEF Pending
    <3>3. /\ OrZero(flow_loss_volume_map[0][f]) + Pending(f) <= reported[f]
          /\ OrZero(fixed_flow_loss_volume_map[0][f]) + Pending(f) <= reported[f]
      BY <1>1 DEF IntervalInv, FirstInterval, LossesReported
    <3>4. /\ OrZero(flow_loss_volume_map[0][f]) <= reported[f]
          /\ OrZero(fixed_flow_loss_volume_map[0][f]) <= reported[f]
      BY <2>2, <3>1, <3>2, <3>3
    <3>5. LossMap[f] = fixed_flow_loss_volume_map[0][f]
          \/ LossMap[f] = flow_loss_volume_map[0][f]
      BY DEF LossMap
    <3> QED
      BY <3>1, <3>4, <3>5
  <2>5. CASE volume = Absent
    <3>1. flow_selected_level_map[0][f] = Absent
      BY <2>1, <2>5 DEF LevelIsCurrent
    <3>2. LevelOf(OrZero(volume), reported[f]) \in Levels
      BY <2>2, <2>3, LevelTyped
    <3> QED
      BY <3>1, <3>2 DEF Levels, Absent, SELECTED_LEVEL, TARGET_LEVEL
  <2>6. CASE volume # Absent
    <3>1. flow_selected_level_map[0][f] = LevelOf(volume, loss)
      BY <2>1, <2>6 DEF LevelIsCurrent
    <3> HIDE DEF volume, loss
    <3>2. LevelOf(volume, loss) <= LevelOf(volume, reported[f])
      BY <2>2, <2>3, <2>4, <2>6, LevelMonotone
    <3> QED
      BY <2>3, <2>6, <3>1, <3>2 DEF volume
  <2> QED
    BY <2>5, <2>6
<1>2. TypeInv /\ IntervalInv => FixedNeverOverselects
  BY <1>1 DEF FixedNeverOverselects
<1> QED
  BY <1>2, IntervalHolds, PTL

(* update_flow_loss_volume never has to give up on a flow of the first     *)
(* interval for want of a volume.                                          *)
THEOREM LossAlwaysFindsVolume == Spec => []LossFindsVolume
<1>1. TypeInv /\ IntervalInv => LossFindsVolume
  BY DEF IntervalInv, FirstInterval, VolumeKnown, LossFindsVolume
<1> QED
  BY <1>1, IntervalHolds, PTL

(* The two reads of a level in cm_handle_ipv4_packet disagree only if the  *)
(* updator has set the level in between.                                   *)
THEOREM TaggedIsAlwaysSampled == Spec => []TaggedIsSampled
<1>1. TypeInv /\ IntervalInv => TaggedIsSampled
  BY DEF IntervalInv, FirstInterval, TagKnown, TaggedIsSampled
<1> QED
  BY <1>1, IntervalHolds, PTL
=============================================================================
