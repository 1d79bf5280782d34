----------------------------- MODULE FlowCache -----------------------------
(***************************************************************************)
(* What the table of fixed size promises to the threads that share it: an  *)
(* object with one flow per bucket, on which every call takes effect once, *)
(* at one moment between its begin and its return, on what the bucket      *)
(* holds at that moment.  So a count loses nothing while its flow stays,   *)
(* and a bucket goes to another flow only if that one has the higher       *)
(* selected level ("larger value has higher priority"), or enters with the *)
(* same level where nothing is counted yet.  A refresh empties one bucket  *)
(* after the other.                                                        *)
(***************************************************************************)
EXTENDS Integers

CONSTANTS
  Thread, Scanner,  \* the threads; the one that may refresh
  Size,             \* the buckets are 0 .. Size - 1
  BinOf,            \* flow -> its bucket
  ValueMod,         \* counts are taken modulo ValueMod
  Request,          \* the calls: an operation, a flow, a count and a level
  Replacement,      \* a flow may take another one's bucket
  AllocFails,       \* the entry of a new flow may fail to be created
  NoEntry           \* the content of an empty bucket

VARIABLES
  cache,            \* bucket -> its flow, with count and level, or NoEntry
  pending           \* thread -> the call that has not taken effect yet

NoCall == [op |-> "none"]

Init ==
  /\ cache = [b \in 0 .. Size - 1 |-> NoEntry]
  /\ pending = [t \in Thread |-> NoCall]
-----------------------------------------------------------------------------
Counts(r) == r.op \in {"add", "update"}
SetsLevel(r) == r.op \in {"update", "set"}

(* The entry of a flow that enters, and of one that finds itself. *)
Created(r) ==
  [key |-> r.key, value |-> IF Counts(r) THEN r.delta ELSE 0,
   selected_level |-> IF SetsLevel(r) THEN r.level ELSE 0]
Updated(e, r) ==
  [key |-> e.key,
   value |-> IF Counts(r) THEN (e.value + r.delta) % ValueMod ELSE e.value,
   selected_level |-> IF SetsLevel(r) THEN r.level ELSE e.selected_level]

(* Call r gives its flow the bucket: an empty one, or the one of flow e. *)
Takes(e, r) ==
  \/ /\ e = NoEntry
     /\ Counts(r) \/ (r.op = "set" /\ Replacement /\ r.level > 0)
  \/ /\ e # NoEntry
     /\ Replacement /\ SetsLevel(r)
     /\ \/ r.level > e.selected_level
        \/ r.op = "set" /\ r.level > 0 /\ r.level = e.selected_level /\ e.value = 0

(* What a bucket that holds e may hold after call r. *)
After(e, r) ==
  IF e # NoEntry /\ e.key = r.key
  THEN {IF r.op = "del" THEN NoEntry ELSE Updated(e, r)}
  ELSE IF Takes(e, r)
  THEN {Created(r)} \cup (IF AllocFails THEN {NoEntry} ELSE {})
  ELSE {e}
-----------------------------------------------------------------------------
Begin(t, r) ==
  /\ pending[t] = NoCall
  /\ pending' = [pending EXCEPT ![t] = r]
  /\ UNCHANGED cache

TakeEffect(t) ==
  LET r == pending[t]
      b == BinOf[r.key]
  IN  /\ r.op \notin {"none", "refresh"}
      /\ \E e \in After(cache[b], r) : cache' = [cache EXCEPT ![b] = e]
      /\ pending' = [pending EXCEPT ![t] = NoCall]

BeginRefresh ==
  /\ pending[Scanner] = NoCall
  /\ pending' = [pending EXCEPT ![Scanner] = [op |-> "refresh", bin |-> 0]]
  /\ UNCHANGED cache

(* A refresh empties the next bucket. *)
ClearBucket ==
  LET r == pending[Scanner]
  IN  /\ r.op = "refresh" /\ r.bin < Size
      /\ cache' = [cache EXCEPT ![r.bin] = NoEntry]
      /\ pending' = [pending EXCEPT ![Scanner] = [op |-> "refresh", bin |-> r.bin + 1]]

EndRefresh ==
  /\ pending[Scanner].op = "refresh" /\ pending[Scanner].bin = Size
  /\ pending' = [pending EXCEPT ![Scanner] = NoCall]
  /\ UNCHANGED cache

Next ==
  \/ \E t \in Thread : TakeEffect(t) \/ \E r \in Request : Begin(t, r)
  \/ BeginRefresh \/ ClearBucket \/ EndRefresh

vars == <<cache, pending>>
Spec == Init /\ [][Next]_vars
=============================================================================
