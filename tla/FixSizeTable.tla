--------------------------- MODULE FixSizeTable ---------------------------
(***************************************************************************)
(* The hash table of fixed size (mt_hashtable_kFlowSrc_fixsize.c): one     *)
(* entry per bucket, a mutex shared by every M-th bucket.  The sender      *)
(* keeps its loss volumes in it; the switches share the library and call   *)
(* the operations that set levels.                                         *)
(*                                                                         *)
(* A call locks the mutex of its bucket, reads the entry there (and        *)
(* collision_times, which all buckets share and no mutex protects), and    *)
(* then writes both and unlocks.  Scanner is the one thread that may call  *)
(* next() and refresh(): both move next_current_bin without a mutex.       *)
(* Allocation failures leave the bucket empty.                             *)
(***************************************************************************)
EXTENDS Integers, FiniteSets, Functions

CONSTANTS
  Thread, Scanner,  \* the threads; the one that iterates and clears
  Flow,
  Size,             \* number of buckets
  BinOf,            \* flow_src_hash_bin(): flow -> bucket
  M,                \* HASH_MAP_MUTEX_SIZE
  ValueMod,         \* 2^32, the range of KEY_INT_TYPE
  Level,            \* selected levels
  Request,          \* the calls the threads make, with their arguments
  Replacement,      \* cm_experiment_setting.replacement
  AllocFails,       \* TRUE: the creation of an entry may fail
  MaxCalls,         \* bound: calls of all threads
  NoEntry           \* NULL

Bucket == 0 .. Size - 1
Free == "free"

ASSUME TableAssumption ==
  /\ Size \in Nat \ {0} /\ M \in Nat \ {0} /\ ValueMod \in Nat \ {0}
  /\ BinOf \in [Flow -> Bucket]
  /\ Level \subseteq Nat /\ 0 \in Level
  /\ Scanner \in Thread /\ Free \notin Thread
  /\ Replacement \in BOOLEAN /\ AllocFails \in BOOLEAN /\ MaxCalls \in Nat

Keyed == {"get", "add", "update", "set", "del"}
ASSUME RequestAssumption ==
  Request \subseteq [op : Keyed, key : Flow, delta : 0 .. ValueMod - 1,
                     level : Level]

Entry == [key : Flow, value : 0 .. ValueMod - 1, selected_level : Level]
ASSUME NoEntryAssumption == NoEntry \notin Entry

VARIABLES
  table, collision_times, next_current_bin,
  mutexs,      \* index -> a thread, or Free
  call,        \* thread -> the call it is in
  calls,       \* calls so far
  collisions,  \* history: collisions so far
  stayed,      \* history: flows in the table since the iteration began
  returned,    \* history: flows the iteration has returned
  scanning     \* history: an iteration has begun and not ended

vars == <<table, collision_times, next_current_bin, mutexs, call, calls,
          collisions, stayed, returned, scanning>>
scan == <<stayed, returned, scanning>>

Idle == [pc |-> "idle", op |-> "none", bin |-> 0, key |-> NoEntry, delta |-> 0,
         level |-> 0, next |-> NoEntry, count |-> 0]

Mutex(b) == b % M
Flows(t) == {t[b].key : b \in {c \in Bucket : t[c] # NoEntry}}

(* ht_kfs_fixSize_create() *)
Init ==
  /\ table = [b \in Bucket |-> NoEntry]
  /\ collision_times = 0
  /\ next_current_bin = -1
  /\ mutexs = [i \in 0 .. M - 1 |-> Free]
  /\ call = [t \in Thread |-> Idle]
  /\ calls = 0
  /\ collisions = 0
  /\ stayed = {}
  /\ returned = {}
  /\ scanning = FALSE
-----------------------------------------------------------------------------
(* A thread calls get(), is_sampled(), add_value(),                        *)
(* add_value_and_update_selected_level_info(), set_selected_level() or     *)
(* del().                                                                  *)
Call(t, r) ==
  /\ call[t] = Idle
  /\ calls < MaxCalls
  /\ calls' = calls + 1
  /\ call' = [call EXCEPT ![t] =
       [pc |-> "lock", op |-> r.op, bin |-> BinOf[r.key], key |-> r.key,
        delta |-> r.delta, level |-> r.level, next |-> NoEntry, count |-> 0]]
  /\ UNCHANGED <<table, collision_times, next_current_bin, mutexs, collisions,
                 scan>>

(* Mutant of Lock: the mutex of the bucket is not requested. *)
LockNone(t) ==
  /\ call[t].pc = "lock"
  /\ call' = [call EXCEPT ![t].pc = "load"]
  /\ UNCHANGED <<table, collision_times, next_current_bin, mutexs, calls,
                 collisions, scan>>

Lock(t) ==
  LET i == Mutex(call[t].bin)
  IN  /\ call[t].pc = "lock"
      /\ mutexs[i] = Free
      /\ mutexs' = [mutexs EXCEPT ![i] = t]
      /\ call' = [call EXCEPT ![t].pc = "load"]
      /\ UNCHANGED <<table, collision_times, next_current_bin, calls,
                     collisions, scan>>

Load(t) ==
  /\ call[t].pc = "load"
  /\ call' = [call EXCEPT ![t].pc = "act", ![t].next = table[call[t].bin],
                          ![t].count = collision_times]
  /\ UNCHANGED <<table, collision_times, next_current_bin, mutexs, calls,
                 collisions, scan>>

(* The bucket of t's call gets content e and its mutex is released. *)
Put(t, e) ==
  /\ table' = [table EXCEPT ![call[t].bin] = e]
  /\ mutexs' = [mutexs EXCEPT ![Mutex(call[t].bin)] = Free]
  /\ stayed' = stayed \cap Flows(table')
Return(t) == call' = [call EXCEPT ![t] = Idle]

(* ++collision_times, from the value that was read. *)
CountCollision(t) ==
  /\ collision_times' = call[t].count + 1
  /\ collisions' = collisions + 1
(* Mutant of NoCollision: a flow that finds its own entry is counted. *)
NoCollisionCounted == collision_times' = collision_times + 1 /\ UNCHANGED collisions

NoCollision == UNCHANGED <<collision_times, collisions>>

(* ht_kfs_fixSize_newpair(): the entry, or NULL. *)
NewPair(k, v, l) ==
  {[key |-> k, value |-> v, selected_level |-> l]}
    \cup (IF AllocFails THEN {NoEntry} ELSE {})

(* Mutant of AddTo: the count is not kept in 32 bits. *)
AddToUnbounded(e, d) == e.value + d

(* next->value += delta_value *)
AddTo(e, d) == (e.value + d) % ValueMod

Acting(t, op) == call[t].pc = "act" /\ call[t].op = op
Empty(t) == call[t].next = NoEntry
Own(t) == call[t].next # NoEntry /\ call[t].next.key = call[t].key
Other(t) == call[t].next # NoEntry /\ call[t].next.key # call[t].key

(* ht_kfs_fixSize_get(), and is_sampled(), which compares the value with 0. *)
Get(t) ==
  /\ Acting(t, "get")
  /\ Put(t, table[call[t].bin]) /\ Return(t) /\ NoCollision
  /\ UNCHANGED <<next_current_bin, calls, returned, scanning>>

(* ht_kfs_fixSize_add_value(): a bucket is never taken from its flow. *)
AddValue(t) ==
  LET c == call[t]
  IN  /\ Acting(t, "add")
      /\ \/ /\ Empty(t)
            /\ \E e \in NewPair(c.key, c.delta, 0) : Put(t, e)
            /\ NoCollision
         \/ /\ Own(t)
            /\ Put(t, [c.next EXCEPT !.value = AddTo(c.next, c.delta)])
            /\ NoCollision
         \/ Other(t) /\ Put(t, c.next) /\ CountCollision(t)
      /\ Return(t)
      /\ UNCHANGED <<next_current_bin, calls, returned, scanning>>

(* ht_kfs_fixSize_add_value_and_update_selected_level_info(): with         *)
(* replacement a flow of a higher level takes the bucket.                  *)
AddValueUpdateLevel(t) ==
  LET c == call[t]
  IN  /\ Acting(t, "update")
      /\ \/ /\ Empty(t)
            /\ \E e \in NewPair(c.key, c.delta, c.level) : Put(t, e)
            /\ NoCollision
         \/ /\ Own(t)
            /\ Put(t, [key |-> c.key, value |-> AddTo(c.next, c.delta),
                       selected_level |-> c.level])
            /\ NoCollision
         \/ /\ Other(t)
            /\ \E e \in IF Replacement /\ c.next.selected_level < c.level
                        THEN NewPair(c.key, c.delta, c.level) ELSE {c.next} :
                 Put(t, e)
            /\ CountCollision(t)
      /\ Return(t)
      /\ UNCHANGED <<next_current_bin, calls, returned, scanning>>

(* set_selected_level(): the flow in the bucket keeps it against level l. *)
Keeps(e, l) ==
  e.selected_level > l \/ (e.selected_level = l /\ e.value > 0)

(* Mutant of KeepUnselected: the early return leaves the mutex locked. *)
KeepUnselectedLocked(t) ==
  UNCHANGED <<table, mutexs, stayed, collision_times, collisions>>

(* The early return for a flow that is selected no more. *)
KeepUnselected(t) == Put(t, call[t].next) /\ NoCollision

(* ht_kfs_fixSize_set_selected_level(): a condition enters its flow with   *)
(* value 0.                                                                *)
SetSelectedLevel(t) ==
  LET c == call[t]
  IN  /\ Acting(t, "set")
      /\ \/ /\ Empty(t)
            /\ \E e \in IF Replacement /\ c.level > 0
                        THEN NewPair(c.key, 0, c.level) ELSE {NoEntry} : Put(t, e)
            /\ NoCollision
         \/ /\ Own(t)
            /\ Put(t, [c.next EXCEPT !.selected_level = c.level])
            /\ NoCollision
         \/ Other(t) /\ c.level = 0 /\ KeepUnselected(t)
         \/ /\ Other(t) /\ c.level # 0
            /\ \E e \in IF Replacement /\ ~ Keeps(c.next, c.level)
                        THEN NewPair(c.key, 0, c.level) ELSE {c.next} : Put(t, e)
            /\ CountCollision(t)
      /\ Return(t)
      /\ UNCHANGED <<next_current_bin, calls, returned, scanning>>

(* ht_kfs_fixSize_del() *)
Del(t) ==
  /\ Acting(t, "del")
  /\ Put(t, IF Own(t) THEN NoEntry ELSE call[t].next)
  /\ Return(t) /\ NoCollision
  /\ UNCHANGED <<next_current_bin, calls, returned, scanning>>
-----------------------------------------------------------------------------
(* ht_kfs_fixSize_next() is called; the first call begins an iteration. *)
CallNext ==
  /\ call[Scanner] = Idle
  /\ calls < MaxCalls
  /\ calls' = calls + 1
  /\ call' = [call EXCEPT ![Scanner] =
                [Idle EXCEPT !.pc = "advance", !.op = "next"]]
  /\ stayed' = IF scanning THEN stayed ELSE Flows(table)
  /\ returned' = IF scanning THEN returned ELSE {}
  /\ scanning' = TRUE
  /\ UNCHANGED <<table, collision_times, next_current_bin, mutexs, collisions>>

(* Mutant of Rewound: the next iteration begins at bucket 1. *)
RewoundToZero == 0

(* The cursor of an iteration that has not begun. *)
Rewound == -1

(* It goes to the next bucket, or returns -1 at the end of the table. *)
Advance ==
  LET b == next_current_bin + 1
  IN  /\ call[Scanner].op = "next" /\ call[Scanner].pc = "advance"
      /\ \/ /\ b < Size
            /\ next_current_bin' = b
            /\ call' = [call EXCEPT ![Scanner] =
                          [Idle EXCEPT !.pc = "lock", !.op = "next", !.bin = b]]
            /\ UNCHANGED scanning
         \/ /\ b >= Size
            /\ next_current_bin' = Rewound
            /\ call' = [call EXCEPT ![Scanner] = [Idle EXCEPT !.op = "end"]]
            /\ scanning' = FALSE
      /\ UNCHANGED <<table, collision_times, mutexs, calls, collisions, stayed,
                     returned>>

(* The end of an iteration has been seen by the caller. *)
EndScan ==
  /\ call[Scanner] = [Idle EXCEPT !.op = "end"]
  /\ call' = [call EXCEPT ![Scanner] = Idle]
  /\ UNCHANGED <<table, collision_times, next_current_bin, mutexs, calls,
                 collisions, scan>>

(* The flow of the bucket is returned; an empty bucket is passed over. *)
Visit ==
  LET c == call[Scanner]
  IN  /\ Acting(Scanner, "next")
      /\ Put(Scanner, table[c.bin]) /\ NoCollision
      /\ \/ /\ c.next # NoEntry
            /\ returned' = returned \cup {c.next.key}
            /\ Return(Scanner)
         \/ /\ c.next = NoEntry
            /\ call' = [call EXCEPT ![Scanner] =
                          [Idle EXCEPT !.pc = "advance", !.op = "next"]]
            /\ UNCHANGED returned
      /\ UNCHANGED <<next_current_bin, calls, scanning>>

(* ht_kfs_fixSize_refresh(): bucket after bucket is emptied, ... *)
CallRefresh ==
  /\ call[Scanner] = Idle
  /\ calls < MaxCalls
  /\ calls' = calls + 1
  /\ call' = [call EXCEPT ![Scanner] =
                [Idle EXCEPT !.pc = "lock", !.op = "refresh"]]
  /\ UNCHANGED <<table, collision_times, next_current_bin, mutexs, collisions,
                 scan>>

Clear ==
  LET c == call[Scanner]
  IN  /\ Acting(Scanner, "refresh")
      /\ Put(Scanner, NoEntry) /\ NoCollision
      /\ call' = [call EXCEPT ![Scanner] =
                    IF c.bin + 1 < Size
                    THEN [Idle EXCEPT !.pc = "lock", !.op = "refresh",
                                      !.bin = c.bin + 1]
                    ELSE [Idle EXCEPT !.pc = "reset", !.op = "refresh"]]
      /\ UNCHANGED <<next_current_bin, calls, returned, scanning>>

(* ... and then, without a mutex, the counter and the cursor are reset. *)
Reset ==
  /\ call[Scanner].pc = "reset"
  /\ collision_times' = 0
  /\ next_current_bin' = -1
  /\ scanning' = FALSE
  /\ call' = [call EXCEPT ![Scanner] = Idle]
  /\ UNCHANGED <<table, mutexs, calls, collisions, stayed, returned>>
-----------------------------------------------------------------------------
Step(t) ==
  \/ Lock(t) \/ Load(t)
  \/ Get(t) \/ AddValue(t) \/ AddValueUpdateLevel(t) \/ SetSelectedLevel(t)
  \/ Del(t)
ScannerStep == Advance \/ EndScan \/ Visit \/ Clear \/ Reset

Next ==
  \/ \E t \in Thread, r \in Request : Call(t, r)
  \/ CallNext \/ CallRefresh
  \/ \E t \in Thread : Step(t)
  \/ ScannerStep

Spec == Init /\ [][Next]_vars

(* Every thread goes on, and gets a mutex that is released often enough. *)
FairSpec ==
  /\ Spec
  /\ \A t \in Thread : WF_vars(Step(t)) /\ SF_vars(Lock(t))
  /\ WF_vars(ScannerStep)
-----------------------------------------------------------------------------
CallRecord ==
  [pc : {"idle", "lock", "load", "act", "advance", "reset"},
   op : Keyed \cup {"none", "next", "refresh", "end"}, bin : Bucket,
   key : Flow \cup {NoEntry}, delta : 0 .. ValueMod - 1, level : Level,
   next : Entry \cup {NoEntry}, count : Nat]
TableType ==
  /\ table \in [Bucket -> Entry \cup {NoEntry}]
  /\ collision_times \in Nat
  /\ next_current_bin \in -1 .. Size - 1
  /\ mutexs \in [0 .. M - 1 -> Thread \cup {Free}]
CallType == call \in [Thread -> CallRecord] /\ calls \in Nat
HistoryType ==
  /\ collisions \in Nat
  /\ stayed \subseteq Flow /\ returned \subseteq Flow /\ scanning \in BOOLEAN
TypeOK == TableType /\ CallType /\ HistoryType

(* What a call asks of the cache, until it has had its effect there; an    *)
(* iteration asks nothing.                                                 *)
Asks(c) ==
  IF c.op \in Keyed
  THEN [op |-> c.op, key |-> c.key, delta |-> c.delta, level |-> c.level]
  ELSE IF c.op = "refresh"
  THEN [op |-> "refresh", bin |-> IF c.pc = "reset" THEN Size ELSE c.bin]
  ELSE [op |-> "none"]
Pending == [t \in Thread |-> Asks(call[t])]

(* Whatever the threads do at the same time, the table is the cache of     *)
(* FlowCache: a call has its effect once and on what the bucket holds at   *)
(* that moment, so no count is lost or doubled although every call reads   *)
(* the entry in one step and writes it in another, and a flow gives way    *)
(* only to one of higher priority.                                         *)
Cache == INSTANCE FlowCache WITH cache <- table, pending <- Pending
ImplementsCache == Cache!Spec

(* collision_times is incremented under different mutexes: increments may  *)
(* be lost, and a refresh undone, but it never exceeds the collisions.     *)
CollisionsNotOvercounted == collision_times <= collisions

(* When next() returns -1, the iteration has returned every flow that was  *)
(* in the table all the time, whatever was inserted, replaced or deleted   *)
(* around it.                                                              *)
ScanFindsStaying == call[Scanner].op = "end" => stayed \subseteq returned

(* Every call returns. *)
CallsReturn == \A t \in Thread : call[t] # Idle ~> call[t] = Idle
=============================================================================
