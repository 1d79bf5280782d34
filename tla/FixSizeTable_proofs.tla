------------------------ MODULE FixSizeTable_proofs ------------------------
(***************************************************************************)
(* The table of fixed size, for any threads, flows, sizes and calls: its   *)
(* type, that it implements FlowCache, that collision_times counts no more *)
(* than the collisions, and that an iteration misses no flow that stays.   *)
(***************************************************************************)
EXTENDS FixSizeTable, TLAPS

(* A flow is in no bucket but its own. *)
Placed == \A b \in Bucket : table[b] # NoEntry => BinOf[table[b].key] = b

(* A thread between its Load and its Put holds the mutex of its bucket and *)
(* what it has read is still there.                                        *)
CallInv(t) ==
  /\ call[t].pc = "reset" => call[t].op = "refresh"
  /\ call[t].op \in Keyed => call[t].key \in Flow /\ call[t].bin = BinOf[call[t].key]
  /\ call[t].pc \in {"load", "act"} => mutexs[Mutex(call[t].bin)] = t
  /\ call[t].pc = "act" => /\ call[t].next = table[call[t].bin]
                           /\ call[t].count <= collisions
CallsInv == \A t \in Thread : CallInv(t)

CacheInv == TypeOK /\ Placed /\ CallsInv /\ CollisionsNotOvercounted

(* A step in which t, having read its bucket, puts e there and goes on as X. *)
Acted(t, e, X) ==
  /\ call[t].pc = "act"
  /\ Put(t, e)
  /\ call' = [call EXCEPT ![t] = X]
  /\ X \in CallRecord /\ X.pc \notin {"load", "act"} /\ X.op \notin Keyed
  /\ X.pc = "reset" => X.op = "refresh"
  /\ e \in Entry \cup {NoEntry}
  /\ e # NoEntry => BinOf[e.key] = call[t].bin
  /\ NoCollision \/ CountCollision(t)
  /\ UNCHANGED <<next_current_bin, calls>>

(* The request of t's call, and what FlowCache lets it put there. *)
Asked(t) ==
  [op |-> call[t].op, key |-> call[t].key, delta |-> call[t].delta,
   level |-> call[t].level]
Fits(t, e) == e \in Cache!After(call[t].next, Asked(t))

LEMMA Constants ==
  /\ Size \in Nat \ {0} /\ M \in Nat \ {0} /\ ValueMod \in Nat \ {0}
  /\ BinOf \in [Flow -> Bucket]
  /\ Level \subseteq Nat /\ 0 \in Level
  /\ Scanner \in Thread /\ Free \notin Thread
  /\ 0 \in Bucket /\ 0 \in 0 .. ValueMod - 1
  /\ NoEntry \notin Entry
  BY TableAssumption, NoEntryAssumption DEF Bucket

LEMMA MutexIndex == \A b \in Bucket : Mutex(b) \in 0 .. M - 1
  BY Constants DEF Mutex, Bucket

LEMMA Wraps == \A v, d \in 0 .. ValueMod - 1 : (v + d) % ValueMod \in 0 .. ValueMod - 1
  BY Constants

LEMMA IdleRecord ==
  /\ Idle \in CallRecord
  /\ Idle.pc = "idle" /\ Idle.op = "none" /\ Idle.op \notin Keyed
  BY Constants DEF Idle, CallRecord, Keyed

LEMMA EntryNumbers ==
  ASSUME NEW n \in Entry
  PROVE  n.value \in Nat /\ n.selected_level \in Nat /\ n.key \in Flow
<1>1. n.value \in 0 .. ValueMod - 1 /\ n.selected_level \in Level /\ n.key \in Flow
  BY DEF Entry
<1>2. n.selected_level \in Nat
  BY <1>1, TableAssumption
<1>3. n.value \in Nat
  <2> HIDE DEF Entry
  <2>1. ValueMod \in Nat
    BY TableAssumption
  <2> QED
    BY <1>1, <2>1
<1> QED
  BY <1>1, <1>2, <1>3

LEMMA EntryUpdates ==
  ASSUME NEW n \in Entry, NEW v
  PROVE  /\ [n EXCEPT !.value = v] =
              [key |-> n.key, value |-> v, selected_level |-> n.selected_level]
         /\ [n EXCEPT !.selected_level = v] =
              [key |-> n.key, value |-> n.value, selected_level |-> v]
<1>1. n = [key |-> n.key, value |-> n.value, selected_level |-> n.selected_level]
  BY DEF Entry
<1>2. [n EXCEPT !.value = v] =
        [key |-> n.key, value |-> v, selected_level |-> n.selected_level]
  BY <1>1
<1>3. [n EXCEPT !.selected_level = v] =
        [key |-> n.key, value |-> n.value, selected_level |-> v]
  BY <1>1
<1> QED
  BY <1>2, <1>3

(* The three cases of Fits. *)
LEMMA FitsCases ==
  ASSUME NEW t, NEW e
  PROVE  /\ Own(t) /\ call[t].op = "del" => Fits(t, NoEntry)
         /\ Own(t) /\ call[t].op # "del" =>
              Fits(t, Cache!Updated(call[t].next, Asked(t)))
         /\ ~ Own(t) /\ ~ Cache!Takes(call[t].next, Asked(t)) => Fits(t, call[t].next)
         /\ /\ ~ Own(t) /\ Cache!Takes(call[t].next, Asked(t))
            /\ e = Cache!Created(Asked(t)) \/ (AllocFails /\ e = NoEntry)
            => Fits(t, e)
<1>1. Asked(t).op = call[t].op /\ Asked(t).key = call[t].key
  BY DEF Asked
<1> HIDE DEF Asked
<1> QED
  BY <1>1 DEF Fits, Own, Cache!After

(* The steps of Step(t) that end a call. *)
LEMMA ActStep ==
  ASSUME CacheInv, NEW t \in Thread,
         \/ Get(t) \/ AddValue(t) \/ AddValueUpdateLevel(t)
         \/ SetSelectedLevel(t) \/ Del(t)
  PROVE  \E e : /\ Acted(t, e, Idle) /\ Fits(t, e) /\ call[t].op \in Keyed
                /\ UNCHANGED <<returned, scanning>>
<1> DEFINE c == call[t]
           n == c.next
           r == Asked(t)
<1>1. /\ c \in CallRecord /\ CallInv(t) /\ table \in [Bucket -> Entry \cup {NoEntry}]
      /\ Placed
  BY DEF CacheInv, TypeOK, CallType, TableType, CallsInv
<1>2. /\ c.pc = "act" /\ c.op \in Keyed
      /\ call' = [call EXCEPT ![t] = Idle]
      /\ UNCHANGED <<next_current_bin, calls, returned, scanning>>
  BY DEF Get, AddValue, AddValueUpdateLevel, SetSelectedLevel, Del, Acting,
         Return, Keyed
<1>3. /\ c.bin \in Bucket /\ c.key \in Flow /\ c.bin = BinOf[c.key]
      /\ n = table[c.bin] /\ n \in Entry \cup {NoEntry}
      /\ n # NoEntry => n \in Entry /\ BinOf[n.key] = c.bin
      /\ c.delta \in 0 .. ValueMod - 1 /\ c.level \in Level
      /\ 0 \in Level /\ 0 \in 0 .. ValueMod - 1
  BY <1>1, <1>2, Constants DEF CallRecord, CallInv, Placed
<1>0. r.op = c.op /\ r.key = c.key /\ r.delta = c.delta /\ r.level = c.level
  BY DEF Asked
<1> SUFFICES \E e : /\ Put(t, e) /\ Fits(t, e)
                    /\ e \in Entry \cup {NoEntry}
                    /\ e # NoEntry => BinOf[e.key] = c.bin
                    /\ NoCollision \/ CountCollision(t)
  BY <1>2, IdleRecord DEF Acted
<1>4. ASSUME NEW e \in NewPair(c.key, c.delta, 0) \cup NewPair(c.key, c.delta, c.level)
                         \cup NewPair(c.key, 0, c.level)
      PROVE  e \in Entry \cup {NoEntry} /\ (e # NoEntry => BinOf[e.key] = c.bin)
  BY <1>3 DEF NewPair, Entry
<1>5. ASSUME Own(t)
      PROVE  /\ n # NoEntry /\ n \in Entry /\ n.key = c.key
             /\ n = [key |-> n.key, value |-> n.value,
                     selected_level |-> n.selected_level]
             /\ AddTo(n, c.delta) = (n.value + c.delta) % ValueMod
             /\ \A v : [n EXCEPT !.value = v] =
                  [key |-> n.key, value |-> v, selected_level |-> n.selected_level]
             /\ [n EXCEPT !.selected_level = c.level] =
                  [key |-> n.key, value |-> n.value, selected_level |-> c.level]
  <2>1. n # NoEntry /\ n \in Entry /\ n.key = c.key
    BY <1>3, <1>5 DEF Own
  <2> HIDE DEF n, c
  <2>2. n = [key |-> n.key, value |-> n.value, selected_level |-> n.selected_level]
    BY <2>1 DEF Entry
  <2> QED
    BY <2>1, <2>2, EntryUpdates DEF AddTo
<1>6. ASSUME Own(t), NEW v \in {n.value, (n.value + c.delta) % ValueMod},
             NEW l \in {n.selected_level, c.level},
             NEW e, e = [key |-> n.key, value |-> v, selected_level |-> l]
      PROVE  e \in Entry /\ BinOf[e.key] = c.bin
  <2>1. n \in Entry /\ BinOf[n.key] = c.bin
    BY <1>3, <1>6 DEF Own
  <2>2. v \in 0 .. ValueMod - 1
    BY <1>3, <2>1, Wraps DEF Entry
  <2> QED
    BY <1>3, <1>6, <2>1, <2>2 DEF Entry
<1>7. CASE Get(t)
  <2>1. c.op = "get" /\ Put(t, n) /\ NoCollision
    BY <1>3, <1>7 DEF Get, Acting
  <2>2. Fits(t, n)
    <3> HIDE DEF r
    <3>1. CASE Own(t)
      <4>1. Cache!Updated(n, r) = n
        <5> HIDE DEF n, c
        <5> QED
          BY <1>0, <1>5, <2>1, <3>1 DEF Cache!Updated, Cache!Counts, Cache!SetsLevel
      <4> QED
        BY <2>1, <3>1, <4>1, FitsCases DEF r
    <3>2. CASE ~ Own(t)
      BY <1>0, <2>1, <3>2, FitsCases DEF Cache!Takes, Cache!Counts, Cache!SetsLevel, r
    <3> QED
      BY <3>1, <3>2
  <2> QED
    BY <1>3, <2>1, <2>2
<1>8. CASE Del(t)
  <2>1. c.op = "del" /\ NoCollision
    BY <1>8 DEF Del, Acting
  <2>2. CASE Own(t)
    BY <1>3, <1>8, <2>1, <2>2, FitsCases DEF Del
  <2>3. CASE ~ Own(t)
    <3>1. Put(t, n)
      BY <1>8, <2>3 DEF Del
    <3>2. ~ Cache!Takes(n, r)
      BY <1>0, <2>1 DEF Cache!Takes, Cache!Counts, Cache!SetsLevel
    <3> QED
      BY <1>3, <2>1, <2>3, <3>1, <3>2, FitsCases
  <2> QED
    BY <2>2, <2>3
<1>9. CASE AddValue(t)
  <2>0. c.op = "add"
    BY <1>9 DEF AddValue, Acting
  <2>1. CASE Empty(t)
    <3>1. PICK e \in NewPair(c.key, c.delta, 0) : Put(t, e)
      BY <1>9, <2>1 DEF AddValue, Empty, Own, Other
    <3>2. Cache!Takes(n, r) /\ ~ Own(t) /\ NoCollision
      BY <1>0, <1>9, <2>0, <2>1
         DEF AddValue, Empty, Own, Other, Cache!Takes, Cache!Counts
    <3>3. Cache!Created(r) = [key |-> c.key, value |-> c.delta, selected_level |-> 0]
      BY <1>0, <2>0 DEF Cache!Created, Cache!Counts, Cache!SetsLevel
    <3>4. Fits(t, e)
      BY <3>1, <3>2, <3>3, FitsCases DEF NewPair
    <3> QED
      BY <1>4, <3>1, <3>2, <3>4
  <2>2. CASE Own(t)
    <3> DEFINE e == [key |-> n.key, value |-> (n.value + c.delta) % ValueMod,
                     selected_level |-> n.selected_level]
    <3>1. Put(t, e) /\ NoCollision
      BY <1>5, <1>9, <2>2 DEF AddValue, Empty, Own, Other
    <3>2. e \in Entry /\ BinOf[e.key] = c.bin
      BY <1>6, <2>2
    <3>3. Cache!Updated(n, r) = e
      BY <1>0, <2>0 DEF Cache!Updated, Cache!Counts, Cache!SetsLevel
    <3>4. Fits(t, e)
      BY <2>0, <2>2, <3>3, FitsCases
    <3> QED
      BY <3>1, <3>2, <3>4
  <2>3. CASE Other(t)
    <3>1. Put(t, n) /\ CountCollision(t) /\ ~ Own(t)
      BY <1>9, <2>3 DEF AddValue, Empty, Own, Other
    <3>2. ~ Cache!Takes(n, r)
      BY <1>0, <2>0, <2>3 DEF Other, Cache!Takes, Cache!SetsLevel
    <3> QED
      BY <1>3, <3>1, <3>2, FitsCases
  <2> QED
    BY <2>1, <2>2, <2>3 DEF Empty, Own, Other
<1>10. CASE AddValueUpdateLevel(t)
  <2>0. c.op = "update"
    BY <1>10 DEF AddValueUpdateLevel, Acting
  <2>4. Cache!Created(r) = [key |-> c.key, value |-> c.delta, selected_level |-> c.level]
    BY <1>0, <2>0 DEF Cache!Created, Cache!Counts, Cache!SetsLevel
  <2>1. CASE Empty(t)
    <3>1. PICK e \in NewPair(c.key, c.delta, c.level) : Put(t, e)
      BY <1>10, <2>1 DEF AddValueUpdateLevel, Empty, Own, Other
    <3>2. Cache!Takes(n, r) /\ ~ Own(t) /\ NoCollision
      BY <1>0, <1>10, <2>0, <2>1
         DEF AddValueUpdateLevel, Empty, Own, Other, Cache!Takes, Cache!Counts
    <3>3. Fits(t, e)
      BY <2>4, <3>1, <3>2, FitsCases DEF NewPair
    <3> QED
      BY <1>4, <3>1, <3>2, <3>3
  <2>2. CASE Own(t)
    <3> DEFINE e == [key |-> n.key, value |-> (n.value + c.delta) % ValueMod,
                     selected_level |-> c.level]
    <3>1. Put(t, e) /\ NoCollision
      BY <1>5, <1>10, <2>2 DEF AddValueUpdateLevel, Empty, Own, Other
    <3>2. e \in Entry /\ BinOf[e.key] = c.bin
      BY <1>6, <2>2
    <3>3. Cache!Updated(n, r) = e
      BY <1>0, <2>0 DEF Cache!Updated, Cache!Counts, Cache!SetsLevel
    <3>4. Fits(t, e)
      BY <2>0, <2>2, <3>3, FitsCases
    <3> QED
      BY <3>1, <3>2, <3>4
  <2>3. CASE Other(t)
    <3>1. CountCollision(t) /\ ~ Own(t) /\ n # NoEntry
      BY <1>10, <2>3 DEF AddValueUpdateLevel, Empty, Own, Other
    <3>2. PICK e \in IF Replacement /\ n.selected_level < c.level
                     THEN NewPair(c.key, c.delta, c.level) ELSE {n} : Put(t, e)
      BY <1>10, <2>3 DEF AddValueUpdateLevel, Empty, Own, Other
    <3>3. e \in Entry \cup {NoEntry} /\ (e # NoEntry => BinOf[e.key] = c.bin)
      BY <1>3, <1>4, <3>2
    <3>4. n.selected_level \in Nat /\ c.level \in Nat
      BY <1>3, <3>1, Constants, EntryNumbers
    <3>5. Cache!Takes(n, r) <=> Replacement /\ n.selected_level < c.level
      BY <1>0, <2>0, <3>1, <3>4 DEF Cache!Takes, Cache!SetsLevel
    <3>6. Fits(t, e)
      <4>1. CASE Replacement /\ n.selected_level < c.level
        <5>1. e \in NewPair(c.key, c.delta, c.level)
          BY <3>2, <4>1
        <5> QED
          BY <2>4, <3>1, <3>5, <4>1, <5>1, FitsCases DEF NewPair
      <4>2. CASE ~ (Replacement /\ n.selected_level < c.level)
        <5>1. e = n
          BY <3>2, <4>2
        <5> QED
          BY <3>1, <3>5, <4>2, <5>1, FitsCases
      <4> QED
        BY <4>1, <4>2
    <3> QED
      BY <3>1, <3>2, <3>3, <3>6
  <2> QED
    BY <2>1, <2>2, <2>3 DEF Empty, Own, Other
<1>11. CASE SetSelectedLevel(t)
  <2>0. c.op = "set"
    BY <1>11 DEF SetSelectedLevel, Acting
  <2>5. Cache!Created(r) = [key |-> c.key, value |-> 0, selected_level |-> c.level]
    BY <1>0, <2>0 DEF Cache!Created, Cache!Counts, Cache!SetsLevel
  <2>1. CASE Empty(t)
    <3>1. PICK e \in IF Replacement /\ c.level > 0
                     THEN NewPair(c.key, 0, c.level) ELSE {NoEntry} : Put(t, e)
      BY <1>11, <2>1 DEF SetSelectedLevel, Empty, Own, Other
    <3>2. NoCollision /\ ~ Own(t) /\ n = NoEntry
      BY <1>11, <2>1 DEF SetSelectedLevel, Empty, Own, Other
    <3>3. Cache!Takes(n, r) <=> Replacement /\ c.level > 0
      BY <1>0, <2>0, <3>2 DEF Cache!Takes, Cache!Counts
    <3>4. Fits(t, e)
      <4>1. CASE Replacement /\ c.level > 0
        <5>1. e \in NewPair(c.key, 0, c.level)
          BY <3>1, <4>1
        <5> QED
          BY <2>5, <3>2, <3>3, <4>1, <5>1, FitsCases DEF NewPair
      <4>2. CASE ~ (Replacement /\ c.level > 0)
        <5>1. e = n
          BY <3>1, <3>2, <4>2
        <5> QED
          BY <3>2, <3>3, <4>2, <5>1, FitsCases
      <4> QED
        BY <4>1, <4>2
    <3>5. e \in NewPair(c.key, 0, c.level) \cup {NoEntry}
      BY <3>1
    <3> QED
      BY <1>4, <3>1, <3>2, <3>4, <3>5
  <2>2. CASE Own(t)
    <3> DEFINE e == [key |-> n.key, value |-> n.value, selected_level |-> c.level]
    <3>1. Put(t, e) /\ NoCollision
      BY <1>5, <1>11, <2>2 DEF SetSelectedLevel, Empty, Own, Other
    <3>2. e \in Entry /\ BinOf[e.key] = c.bin
      BY <1>6, <2>2
    <3>3. Cache!Updated(n, r) = e
      BY <1>0, <2>0 DEF Cache!Updated, Cache!Counts, Cache!SetsLevel
    <3>4. Fits(t, e)
      BY <2>0, <2>2, <3>3, FitsCases
    <3> QED
      BY <3>1, <3>2, <3>4
  <2>6. Other(t) =>
          /\ n # NoEntry /\ n \in Entry /\ ~ Own(t)
          /\ n.selected_level \in Nat /\ c.level \in Nat /\ n.value \in Nat
    BY <1>3, Constants, EntryNumbers DEF Other, Own
  <2>7. Other(t) =>
          (Cache!Takes(n, r) <=> Replacement /\ c.level # 0 /\ ~ Keeps(n, c.level))
    BY <1>0, <2>0, <2>6 DEF Cache!Takes, Cache!SetsLevel, Keeps
  <2>3. CASE Other(t) /\ c.level = 0
    <3>1. Put(t, n) /\ NoCollision
      BY <1>11, <2>3 DEF SetSelectedLevel, KeepUnselected, Empty, Own, Other
    <3> QED
      BY <1>3, <2>3, <2>6, <2>7, <3>1, FitsCases
  <2>4. CASE Other(t) /\ c.level # 0
    <3>1. CountCollision(t)
      BY <1>11, <2>4 DEF SetSelectedLevel, Empty, Own, Other
    <3>2. PICK e \in IF Replacement /\ ~ Keeps(n, c.level)
                     THEN NewPair(c.key, 0, c.level) ELSE {n} : Put(t, e)
      BY <1>11, <2>4 DEF SetSelectedLevel, Empty, Own, Other
    <3>3. e \in Entry \cup {NoEntry} /\ (e # NoEntry => BinOf[e.key] = c.bin)
      BY <1>3, <1>4, <3>2
    <3>4. Fits(t, e)
      <4>1. CASE Replacement /\ ~ Keeps(n, c.level)
        <5>1. e \in NewPair(c.key, 0, c.level)
          BY <3>2, <4>1
        <5> QED
          BY <2>4, <2>5, <2>6, <2>7, <4>1, <5>1, FitsCases DEF NewPair
      <4>2. CASE ~ (Replacement /\ ~ Keeps(n, c.level))
        <5>1. e = n
          BY <3>2, <4>2
        <5> QED
          BY <2>4, <2>6, <2>7, <4>2, <5>1, FitsCases
      <4> QED
        BY <4>1, <4>2
    <3> QED
      BY <3>1, <3>2, <3>3, <3>4
  <2> QED
    BY <2>1, <2>2, <2>3, <2>4 DEF Empty, Own, Other
<1> QED
  BY <1>7, <1>8, <1>9, <1>10, <1>11

(* An iteration that visits a bucket, and a refresh that empties one. *)
LEMMA VisitActs ==
  ASSUME CacheInv, Visit
  PROVE  \E X : Acted(Scanner, call[Scanner].next, X) /\ UNCHANGED scanning
<1> DEFINE c == call[Scanner]
           X == IF c.next # NoEntry THEN Idle
                ELSE [Idle EXCEPT !.pc = "advance", !.op = "next"]
<1>1. c \in CallRecord /\ CallInv(Scanner) /\ Placed /\ c.pc = "act"
  BY Constants DEF CacheInv, TypeOK, CallType, CallsInv, Visit, Acting
<1>2. c.next = table[c.bin] /\ c.bin \in Bucket /\ c.next \in Entry \cup {NoEntry}
  BY <1>1 DEF CallRecord, CallInv
<1>3. /\ X \in CallRecord /\ X.pc \notin {"load", "act", "reset"}
      /\ X.op \notin Keyed
  BY Constants, IdleRecord DEF Idle, CallRecord, Keyed
<1>4. call' = [call EXCEPT ![Scanner] = X]
  BY DEF Visit, Return
<1>5. c.next # NoEntry => BinOf[c.next.key] = c.bin
  BY <1>1, <1>2 DEF Placed
<1> HIDE DEF X
<1> QED
  BY <1>1, <1>2, <1>3, <1>4, <1>5 DEF Visit, Acted

LEMMA ClearActs ==
  ASSUME CacheInv, Clear
  PROVE  \E X : Acted(Scanner, NoEntry, X) /\ UNCHANGED <<returned, scanning>>
<1> DEFINE c == call[Scanner]
           X == IF c.bin + 1 < Size
                THEN [Idle EXCEPT !.pc = "lock", !.op = "refresh", !.bin = c.bin + 1]
                ELSE [Idle EXCEPT !.pc = "reset", !.op = "refresh"]
<1>1. c \in CallRecord /\ c.bin \in Bucket /\ c.pc = "act"
  BY Constants DEF CacheInv, TypeOK, CallType, CallRecord, Clear, Acting
<1>2. /\ X \in CallRecord /\ X.pc \notin {"load", "act"} /\ X.op \notin Keyed
      /\ X.op = "refresh"
  <2>1. CASE c.bin + 1 < Size
    <3>1. c.bin + 1 \in Bucket
      BY <1>1, <2>1, Constants DEF Bucket
    <3>2. X = [pc |-> "lock", op |-> "refresh", bin |-> c.bin + 1, key |-> NoEntry,
               delta |-> 0, level |-> 0, next |-> NoEntry, count |-> 0]
      BY <2>1 DEF Idle
    <3> HIDE DEF X, c
    <3> QED
      BY <3>1, <3>2, Constants DEF CallRecord, Keyed
  <2>2. CASE ~ (c.bin + 1 < Size)
    <3>1. X = [pc |-> "reset", op |-> "refresh", bin |-> 0, key |-> NoEntry,
               delta |-> 0, level |-> 0, next |-> NoEntry, count |-> 0]
      BY <2>2 DEF Idle
    <3> HIDE DEF X, c
    <3> QED
      BY <3>1, Constants DEF CallRecord, Keyed
  <2> QED
    BY <2>1, <2>2
<1>3. call' = [call EXCEPT ![Scanner] = X]
  BY DEF Clear
<1> HIDE DEF X
<1> QED
  BY <1>1, <1>2, <1>3 DEF Clear, Acted

(* Two threads between Lock and Put have different buckets. *)
LEMMA DifferentBuckets ==
  ASSUME CacheInv, NEW t \in Thread, NEW u \in Thread, t # u,
         call[t].pc \in {"load", "act"}, call[u].pc \in {"load", "act"}
  PROVE  Mutex(call[t].bin) # Mutex(call[u].bin) /\ call[t].bin # call[u].bin
  BY DEF CacheInv, CallsInv, CallInv

LEMMA ActedKeeps ==
  ASSUME CacheInv, NEW t \in Thread, NEW e, NEW X, Acted(t, e, X),
         returned' \subseteq Flow, scanning' \in BOOLEAN
  PROVE  CacheInv'
<1>1. /\ call \in [Thread -> CallRecord] /\ call[t] \in CallRecord
      /\ call[t].bin \in Bucket /\ call[t].count \in Nat
  BY DEF CacheInv, TypeOK, CallType, CallRecord
<1>2. /\ table' = [table EXCEPT ![call[t].bin] = e]
      /\ mutexs' = [mutexs EXCEPT ![Mutex(call[t].bin)] = Free]
      /\ call' = [call EXCEPT ![t] = X]
  BY DEF Acted, Put
<1>3. table' \in [Bucket -> Entry \cup {NoEntry}]
  BY <1>1, <1>2 DEF Acted, CacheInv, TypeOK, TableType
<1>4. mutexs' \in [0 .. M - 1 -> Thread \cup {Free}]
  BY <1>1, <1>2, MutexIndex DEF CacheInv, TypeOK, TableType
<1>5. call' \in [Thread -> CallRecord]
  BY <1>1, <1>2 DEF Acted
<1>6. /\ collision_times' \in Nat /\ collisions' \in Nat
      /\ collision_times' <= collisions' /\ collisions <= collisions'
  BY <1>1 DEF Acted, NoCollision, CountCollision, CacheInv, CallsInv, CallInv,
              TypeOK, TableType, HistoryType, CollisionsNotOvercounted
<1>7. stayed' \subseteq Flow
  BY DEF Acted, Put, CacheInv, TypeOK, HistoryType
<1>8. TypeOK'
  BY <1>3, <1>4, <1>5, <1>6, <1>7 DEF Acted, CacheInv, TypeOK, TableType, CallType,
                                      HistoryType
<1>9. Placed'
  BY <1>1, <1>2 DEF Acted, Placed, CacheInv, TypeOK, TableType
<1>10. ASSUME NEW u \in Thread PROVE CallInv(u)'
  <2>1. CASE u = t
    <3>1. call'[u] = X
      BY <1>1, <1>2, <2>1
    <3> QED
      BY <3>1 DEF Acted, CallInv
  <2>2. CASE u # t
    <3>1. call'[u] = call[u] /\ CallInv(u) /\ call[u] \in CallRecord
      BY <1>1, <1>2, <2>2 DEF CacheInv, CallsInv
    <3>2. CASE call[u].pc \in {"load", "act"}
      <4>1. Mutex(call[t].bin) # Mutex(call[u].bin) /\ call[t].bin # call[u].bin
        BY <2>2, <3>2, DifferentBuckets DEF Acted
      <4>2. call[u].bin \in Bucket /\ call[u].count \in Nat
        BY <3>1 DEF CallRecord
      <4>3. /\ table'[call[u].bin] = table[call[u].bin]
            /\ mutexs'[Mutex(call[u].bin)] = mutexs[Mutex(call[u].bin)]
        BY <1>2, <4>1, <4>2, MutexIndex DEF CacheInv, TypeOK, TableType
      <4>4. call[u].pc = "act" => call[u].count <= collisions'
        BY <1>6, <3>1, <4>2 DEF CallInv, CacheInv, TypeOK, HistoryType
      <4> QED
        BY <3>1, <4>3, <4>4 DEF CallInv
    <3>3. CASE call[u].pc \notin {"load", "act"}
      BY <3>1, <3>3 DEF CallInv
    <3> QED
      BY <3>2, <3>3
  <2> QED
    BY <2>1, <2>2
<1> QED
  BY <1>6, <1>8, <1>9, <1>10 DEF CacheInv, CallsInv, CollisionsNotOvercounted

(* A step that leaves the table and the mutexes alone and after which t    *)
(* has read nothing.                                                       *)
LEMMA MovedKeeps ==
  ASSUME CacheInv, NEW t \in Thread, NEW X \in CallRecord,
         call' = [call EXCEPT ![t] = X],
         X.pc \notin {"load", "act", "reset"},
         X.op \in Keyed => X.key \in Flow /\ X.bin = BinOf[X.key],
         UNCHANGED <<table, mutexs, collisions>>,
         collision_times' \in {collision_times, 0},
         next_current_bin' \in -1 .. Size - 1, calls' \in Nat,
         stayed' \subseteq Flow, returned' \subseteq Flow, scanning' \in BOOLEAN
  PROVE  CacheInv'
<1>1. call \in [Thread -> CallRecord] /\ collision_times \in Nat /\ collisions \in Nat
  BY DEF CacheInv, TypeOK, CallType, TableType, HistoryType
<1>2. collision_times' \in Nat /\ collision_times' <= collisions'
  BY <1>1 DEF CacheInv, CollisionsNotOvercounted
<1>3. call' \in [Thread -> CallRecord]
  BY <1>1
<1>4. TypeOK'
  BY <1>1, <1>2, <1>3 DEF CacheInv, TypeOK, TableType, CallType, HistoryType
<1>5. Placed'
  BY DEF CacheInv, Placed
<1>6. ASSUME NEW u \in Thread PROVE CallInv(u)'
  <2>1. CASE u = t
    BY <1>1, <2>1 DEF CallInv
  <2>2. CASE u # t
    BY <1>1, <2>2 DEF CallInv, CacheInv, CallsInv
  <2> QED
    BY <2>1, <2>2
<1> QED
  BY <1>2, <1>4, <1>5, <1>6 DEF CacheInv, CallsInv, CollisionsNotOvercounted

LEMMA LockKeeps ==
  ASSUME CacheInv, NEW t \in Thread, Lock(t)
  PROVE  CacheInv'
<1> DEFINE i == Mutex(call[t].bin)
<1>1. /\ call \in [Thread -> CallRecord] /\ call[t] \in CallRecord
      /\ call[t].bin \in Bucket /\ i \in 0 .. M - 1
      /\ mutexs \in [0 .. M - 1 -> Thread \cup {Free}]
  BY MutexIndex DEF CacheInv, TypeOK, CallType, TableType, CallRecord
<1>2. /\ call[t].pc = "lock" /\ mutexs[i] = Free
      /\ mutexs' = [mutexs EXCEPT ![i] = t]
      /\ call' = [call EXCEPT ![t] = [call[t] EXCEPT !.pc = "load"]]
      /\ UNCHANGED <<table, collision_times, next_current_bin, calls, collisions,
                     stayed, returned, scanning>>
  BY DEF Lock, scan
<1>3. [call[t] EXCEPT !.pc = "load"] \in CallRecord
  BY <1>1 DEF CallRecord
<1>4. TypeOK'
  BY <1>1, <1>2, <1>3 DEF CacheInv, TypeOK, TableType, CallType, HistoryType
<1>5. ASSUME NEW u \in Thread PROVE CallInv(u)'
  <2>1. CASE u = t
    <3>1. call'[u] = [call[t] EXCEPT !.pc = "load"]
      BY <1>1, <1>2, <2>1
    <3>2. /\ call'[u].pc = "load" /\ call'[u].bin = call[t].bin
          /\ call'[u].op = call[t].op /\ call'[u].key = call[t].key
      BY <1>1, <3>1 DEF CallRecord
    <3>3. mutexs'[i] = u
      BY <1>1, <1>2, <2>1
    <3> QED
      BY <2>1, <3>2, <3>3 DEF CallInv, CacheInv, CallsInv, Mutex
  <2>2. CASE u # t
    <3>1. call'[u] = call[u] /\ CallInv(u) /\ call[u].bin \in Bucket
      BY <1>1, <1>2, <2>2 DEF CacheInv, CallsInv, CallRecord
    <3>2. call[u].pc \in {"load", "act"} => Mutex(call[u].bin) # i
      BY <1>2, <3>1, Constants DEF CallInv
    <3>3. call[u].pc \in {"load", "act"} =>
            mutexs'[Mutex(call[u].bin)] = mutexs[Mutex(call[u].bin)]
      BY <1>1, <1>2, <3>1, <3>2, MutexIndex
    <3> QED
      BY <1>2, <3>1, <3>3 DEF CallInv, Mutex
  <2> QED
    BY <2>1, <2>2
<1> QED
  BY <1>2, <1>4, <1>5 DEF CacheInv, CallsInv, Placed, CollisionsNotOvercounted

LEMMA LoadKeeps ==
  ASSUME CacheInv, NEW t \in Thread, Load(t)
  PROVE  CacheInv'
<1> DEFINE X == [call[t] EXCEPT !.pc = "act", !.next = table[call[t].bin],
                                !.count = collision_times]
<1>1. /\ call \in [Thread -> CallRecord] /\ call[t] \in CallRecord
      /\ call[t].bin \in Bucket
      /\ table[call[t].bin] \in Entry \cup {NoEntry} /\ collision_times \in Nat
  BY DEF CacheInv, TypeOK, CallType, TableType, CallRecord
<1>2. /\ call[t].pc = "load"
      /\ call' = [call EXCEPT ![t] = X]
      /\ UNCHANGED <<table, mutexs, collision_times, next_current_bin, calls,
                     collisions, stayed, returned, scanning>>
  BY <1>1 DEF Load, scan
<1>3. /\ X.pc = "act" /\ X.op = call[t].op /\ X.bin = call[t].bin
      /\ X.key = call[t].key /\ X.delta = call[t].delta /\ X.level = call[t].level
      /\ X.next = table[call[t].bin] /\ X.count = collision_times
  BY <1>1 DEF CallRecord
<1>4. X \in CallRecord
  BY <1>1 DEF CallRecord
<1> HIDE DEF X
<1>5. TypeOK'
  BY <1>1, <1>2, <1>4 DEF CacheInv, TypeOK, TableType, CallType, HistoryType
<1>6. ASSUME NEW u \in Thread PROVE CallInv(u)'
  <2>1. CASE u = t
    <3>1. call'[u] = X
      BY <1>1, <1>2, <2>1
    <3> QED
      BY <1>2, <1>3, <2>1, <3>1 DEF CallInv, CacheInv, CallsInv,
                                    CollisionsNotOvercounted, Mutex
  <2>2. CASE u # t
    BY <1>1, <1>2, <2>2 DEF CallInv, CacheInv, CallsInv, Mutex
  <2> QED
    BY <2>1, <2>2
<1> QED
  BY <1>2, <1>5, <1>6 DEF CacheInv, CallsInv, Placed, CollisionsNotOvercounted

LEMMA CallKeeps ==
  ASSUME CacheInv, NEW t \in Thread, NEW r \in Request, Call(t, r)
  PROVE  CacheInv'
<1> DEFINE X == [pc |-> "lock", op |-> r.op, bin |-> BinOf[r.key], key |-> r.key,
                 delta |-> r.delta, level |-> r.level, next |-> NoEntry, count |-> 0]
<1>1. /\ r.op \in Keyed /\ r.key \in Flow /\ r.delta \in 0 .. ValueMod - 1
      /\ r.level \in Level /\ BinOf[r.key] \in Bucket
  BY RequestAssumption, TableAssumption
<1>2. /\ X \in CallRecord /\ X.pc = "lock" /\ X.key \in Flow
      /\ X.bin = BinOf[X.key]
  BY <1>1 DEF CallRecord
<1>3. /\ call' = [call EXCEPT ![t] = X] /\ calls' = calls + 1
      /\ UNCHANGED <<table, collision_times, next_current_bin, mutexs, collisions,
                     stayed, returned, scanning>>
  BY DEF Call, scan
<1> HIDE DEF X
<1>5. /\ calls' \in Nat /\ stayed' \subseteq Flow /\ returned' \subseteq Flow
      /\ scanning' \in BOOLEAN /\ next_current_bin' \in -1 .. Size - 1
  BY <1>3 DEF CacheInv, TypeOK, CallType, HistoryType, TableType
<1> QED
  BY <1>2, <1>3, <1>5, MovedKeeps

(* The steps that only the scanner takes, other than Visit and Clear. *)
LEMMA ScannerKeeps ==
  ASSUME CacheInv, CallNext \/ CallRefresh \/ Advance \/ EndScan \/ Reset
  PROVE  CacheInv'
<1>1. /\ calls \in Nat /\ stayed \subseteq Flow /\ returned \subseteq Flow
      /\ scanning \in BOOLEAN /\ next_current_bin \in -1 .. Size - 1
      /\ table \in [Bucket -> Entry \cup {NoEntry}]
      /\ call[Scanner] \in CallRecord /\ Scanner \in Thread
  BY Constants DEF CacheInv, TypeOK, CallType, HistoryType, TableType
<1>2. Flows(table) \subseteq Flow
  BY <1>1 DEF Flows, Entry
<1>3. -1 \in -1 .. Size - 1
  BY Constants
<1>4. CASE CallNext
  <2> DEFINE X == [Idle EXCEPT !.pc = "advance", !.op = "next"]
  <2>1. X \in CallRecord /\ X.pc = "advance" /\ X.op = "next"
    BY Constants DEF Idle, CallRecord, Keyed
  <2>2. /\ call' = [call EXCEPT ![Scanner] = X]
        /\ stayed' \subseteq Flow /\ returned' \subseteq Flow
        /\ scanning' = TRUE /\ calls' \in Nat
    BY <1>1, <1>2, <1>4 DEF CallNext
  <2> HIDE DEF X
  <2> QED
    BY <1>1, <1>4, <2>1, <2>2, MovedKeeps DEF CallNext, Keyed
<1>5. CASE CallRefresh
  <2> DEFINE X == [Idle EXCEPT !.pc = "lock", !.op = "refresh"]
  <2>1. X \in CallRecord /\ X.pc = "lock" /\ X.op = "refresh"
    BY Constants DEF Idle, CallRecord, Keyed
  <2>2. call' = [call EXCEPT ![Scanner] = X] /\ calls' \in Nat
    BY <1>1, <1>5 DEF CallRefresh
  <2> HIDE DEF X
  <2> QED
    BY <1>1, <1>5, <2>1, <2>2, MovedKeeps DEF CallRefresh, Keyed, scan
<1>6. CASE Advance
  <2> DEFINE b == next_current_bin + 1
  <2>1. CASE b < Size
    <3> DEFINE X == [Idle EXCEPT !.pc = "lock", !.op = "next", !.bin = b]
    <3>1. /\ call' = [call EXCEPT ![Scanner] = X] /\ next_current_bin' = b
          /\ UNCHANGED <<table, mutexs, collisions, collision_times, calls,
                         stayed, returned, scanning>>
      <4>1. ~ (b >= Size)
        BY <1>1, <2>1, Constants
      <4> QED
        BY <1>6, <4>1 DEF Advance
    <3>2. b \in Bucket /\ b \in -1 .. Size - 1
      BY <1>1, <2>1, Constants DEF Bucket
    <3> HIDE DEF b
    <3>4. X \in CallRecord /\ X.pc = "lock" /\ X.op \notin Keyed
      BY <3>2, Constants DEF CallRecord, Keyed, Idle
    <3> HIDE DEF X
    <3> QED
      BY <1>1, <3>1, <3>2, <3>4, MovedKeeps
  <2>2. CASE ~ (b < Size)
    <3> DEFINE X == [Idle EXCEPT !.op = "end"]
    <3>1. /\ call' = [call EXCEPT ![Scanner] = X] /\ next_current_bin' = -1
          /\ scanning' = FALSE
          /\ UNCHANGED <<table, mutexs, collisions, collision_times, calls,
                         stayed, returned>>
      BY <1>6, <2>2, Constants, <1>1 DEF Advance, Rewound
    <3>2. X \in CallRecord /\ X.pc = "idle" /\ X.op = "end"
      BY Constants DEF Idle, CallRecord, Keyed
    <3> HIDE DEF X
    <3> QED
      BY <1>1, <1>3, <3>1, <3>2, MovedKeeps DEF Keyed
  <2> QED
    BY <2>1, <2>2
<1>7. CASE EndScan
  BY <1>1, <1>7, IdleRecord, MovedKeeps DEF EndScan, scan
<1>8. CASE Reset
  BY <1>1, <1>3, <1>8, IdleRecord, MovedKeeps DEF Reset
<1> QED
  BY <1>4, <1>5, <1>6, <1>7, <1>8

LEMMA CacheInit == Init => CacheInv
<1> SUFFICES ASSUME Init PROVE CacheInv
  OBVIOUS
<1>1. TypeOK
  <2>1. TableType
    <3>1. -1 \in -1 .. Size - 1
      BY Constants
    <3> QED
      BY <3>1 DEF Init, TableType
  <2>2. CallType
    BY IdleRecord DEF Init, CallType
  <2> QED
    BY <2>1, <2>2 DEF Init, TypeOK, HistoryType
<1>2. \A t \in Thread : call[t] = Idle
  BY DEF Init
<1>3. CallsInv
  BY <1>2, IdleRecord DEF CallsInv, CallInv
<1> QED
  BY <1>1, <1>3 DEF Init, CacheInv, Placed, CollisionsNotOvercounted

LEMMA CacheStep == CacheInv /\ [Next]_vars => CacheInv'
<1> SUFFICES ASSUME CacheInv, [Next]_vars PROVE CacheInv'
  OBVIOUS
<1>1. returned \subseteq Flow /\ scanning \in BOOLEAN /\ Scanner \in Thread
  BY Constants DEF CacheInv, TypeOK, HistoryType
<1>2. ASSUME NEW t \in Thread, Step(t) PROVE CacheInv'
  <2>1. CASE Lock(t) \/ Load(t)
    BY <2>1, LockKeeps, LoadKeeps
  <2>2. CASE \/ Get(t) \/ AddValue(t) \/ AddValueUpdateLevel(t)
             \/ SetSelectedLevel(t) \/ Del(t)
    <3>1. PICK e : Acted(t, e, Idle) /\ UNCHANGED <<returned, scanning>>
      BY <2>2, ActStep
    <3> QED
      BY <1>1, <3>1, ActedKeeps
  <2> QED
    BY <1>2, <2>1, <2>2 DEF Step
<1>3. CASE Visit
  <2>1. PICK X : Acted(Scanner, call[Scanner].next, X) /\ UNCHANGED scanning
    BY <1>3, VisitActs
  <2>2. call[Scanner].next \in Entry \cup {NoEntry}
    BY <1>1 DEF CacheInv, TypeOK, CallType, CallRecord
  <2>3. returned' \subseteq Flow
    BY <1>1, <1>3, <2>2 DEF Visit, Entry
  <2> QED
    BY <1>1, <2>1, <2>3, ActedKeeps
<1>4. CASE Clear
  BY <1>1, <1>4, ClearActs, ActedKeeps
<1>5. CASE UNCHANGED vars
  BY <1>5 DEF vars, CacheInv, TypeOK, TableType, CallType, HistoryType, Placed,
              CallsInv, CallInv, CollisionsNotOvercounted, Mutex
<1> QED
  BY <1>2, <1>3, <1>4, <1>5, CallKeeps, ScannerKeeps DEF Next, ScannerStep

(* The table, the counters, the cursor and the calls keep their types; in  *)
(* particular a count stays within 32 bits.                                *)
THEOREM TypeCorrect == Spec => []TypeOK
<1>1. CacheInv => TypeOK
  BY DEF CacheInv
<1> QED
  BY <1>1, CacheInit, CacheStep, PTL DEF Spec

(* collision_times never exceeds the number of collisions, although it is  *)
(* incremented under different mutexes and reset under none.               *)
THEOREM CollisionsBounded == Spec => []CollisionsNotOvercounted
<1>1. CacheInv => CollisionsNotOvercounted
  BY DEF CacheInv
<1> QED
  BY <1>1, CacheInit, CacheStep, PTL DEF Spec

(* A step in which the call of t becomes X. *)
LEMMA PendingStep ==
  ASSUME CacheInv, NEW t \in Thread, NEW X, call' = [call EXCEPT ![t] = X]
  PROVE  /\ Pending' = [Pending EXCEPT ![t] = Asks(X)]
         /\ Asks(X) = Asks(call[t]) => Pending' = Pending
<1>1. call \in [Thread -> CallRecord]
  BY DEF CacheInv, TypeOK, CallType
<1>2. Pending' = [u \in Thread |-> Asks(call'[u])]
  BY DEF Pending, Asks
<1>3. \A u \in Thread : call'[u] = IF u = t THEN X ELSE call[u]
  BY <1>1
<1>4. Pending = [u \in Thread |-> Asks(call[u])]
  BY DEF Pending
<1> QED
  BY <1>2, <1>3, <1>4

(* What the calls that are no request ask. *)
LEMMA AsksValues ==
  /\ Asks(Idle) = Cache!NoCall
  /\ \A c : c.op \in {"none", "next", "end"} => Asks(c) = Cache!NoCall
  /\ \A c : c.op = "refresh" =>
       Asks(c) = [op |-> "refresh", bin |-> IF c.pc = "reset" THEN Size ELSE c.bin]
<1>1. {"none", "next", "end", "refresh"} \cap Keyed = {}
  BY DEF Keyed
<1>2. Idle.op = "none"
  BY DEF Idle
<1> QED
  BY <1>1, <1>2 DEF Asks, Cache!NoCall

(* A keyed call that puts what fits has the effect that FlowCache gives it. *)
LEMMA ActedRefines ==
  ASSUME CacheInv, NEW t \in Thread, NEW e, Acted(t, e, Idle), Fits(t, e),
         call[t].op \in Keyed
  PROVE  Cache!TakeEffect(t)
<1>1. /\ call[t].next = table[call[t].bin] /\ call[t].bin = BinOf[call[t].key]
  BY DEF CacheInv, CallsInv, CallInv, Acted
<1>2. table' = [table EXCEPT ![BinOf[call[t].key]] = e]
  BY <1>1 DEF Acted, Put
<1>3. Pending[t] = Asked(t) /\ Asked(t).key = call[t].key /\ Asked(t).op = call[t].op
  BY DEF Pending, Asks, Asked
<1>4. Pending' = [Pending EXCEPT ![t] = Cache!NoCall]
  BY PendingStep, AsksValues DEF Acted
<1>5. call[t].op \notin {"none", "refresh"}
  BY DEF Keyed
<1>6. e \in Cache!After(table[BinOf[call[t].key]], Asked(t))
  BY <1>1 DEF Fits
<1> QED
  BY <1>2, <1>3, <1>4, <1>5, <1>6 DEF Cache!TakeEffect

LEMMA RefinementStep == CacheInv /\ [Next]_vars => [Cache!Next]_Cache!vars
<1> SUFFICES ASSUME CacheInv, [Next]_vars PROVE [Cache!Next]_<<table, Pending>>
  BY DEF Cache!vars
<1>0. call \in [Thread -> CallRecord] /\ Scanner \in Thread
  BY Constants DEF CacheInv, TypeOK, CallType
<1>1. ASSUME NEW t \in Thread, Step(t) PROVE [Cache!Next]_<<table, Pending>>
  <2>1. CASE Lock(t) \/ Load(t)
    <3>1. PICK X : /\ call' = [call EXCEPT ![t] = X] /\ UNCHANGED table
                   /\ X.op = call[t].op /\ X.key = call[t].key /\ X.bin = call[t].bin
                   /\ X.delta = call[t].delta /\ X.level = call[t].level
                   /\ X.pc # "reset" /\ call[t].pc # "reset"
      <4>1. CASE Lock(t)
        <5> DEFINE X == [call[t] EXCEPT !.pc = "load"]
        <5>1. call[t].pc = "lock" /\ call' = [call EXCEPT ![t] = X] /\ UNCHANGED table
          BY <1>0, <4>1 DEF Lock
        <5>2. /\ X.op = call[t].op /\ X.key = call[t].key /\ X.bin = call[t].bin
              /\ X.delta = call[t].delta /\ X.level = call[t].level
              /\ X.pc = "load"
          BY <1>0 DEF CallRecord
        <5> QED
          BY <5>1, <5>2
      <4>2. CASE Load(t)
        <5> DEFINE X == [call[t] EXCEPT !.pc = "act", !.next = table[call[t].bin],
                                        !.count = collision_times]
        <5>1. call[t].pc = "load" /\ call' = [call EXCEPT ![t] = X] /\ UNCHANGED table
          BY <1>0, <4>2 DEF Load
        <5>2. /\ X.op = call[t].op /\ X.key = call[t].key /\ X.bin = call[t].bin
              /\ X.delta = call[t].delta /\ X.level = call[t].level
              /\ X.pc = "act"
          BY <1>0 DEF CallRecord
        <5> QED
          BY <5>1, <5>2
      <4> QED
        BY <2>1, <4>1, <4>2
    <3>2. Asks(X) = Asks(call[t])
      BY <3>1 DEF Asks
    <3> QED
      BY <3>1, <3>2, PendingStep
  <2>2. CASE \/ Get(t) \/ AddValue(t) \/ AddValueUpdateLevel(t)
             \/ SetSelectedLevel(t) \/ Del(t)
    <3>1. PICK e : Acted(t, e, Idle) /\ Fits(t, e) /\ call[t].op \in Keyed
      BY <2>2, ActStep
    <3>2. Cache!TakeEffect(t)
      BY <3>1, ActedRefines
    <3> QED
      BY <3>2 DEF Cache!Next
  <2> QED
    BY <1>1, <2>1, <2>2 DEF Step
<1>2. CASE Visit
  <2>1. PICK X : Acted(Scanner, call[Scanner].next, X)
    BY <1>2, VisitActs
  <2>2. table' = table
    <3>1. call[Scanner].next = table[call[Scanner].bin]
      BY <1>0, <2>1 DEF CacheInv, CallsInv, CallInv, Acted
    <3>2. table' = [table EXCEPT ![call[Scanner].bin] = table[call[Scanner].bin]]
      BY <2>1, <3>1 DEF Acted, Put
    <3>3. table \in [Bucket -> Entry \cup {NoEntry}]
      BY DEF CacheInv, TypeOK, TableType
    <3> QED
      BY <3>2, <3>3
  <2>3. call[Scanner].op = "next"
    BY <1>2 DEF Visit, Acting
  <2>4. PICK Y : call' = [call EXCEPT ![Scanner] = Y] /\ Y.op \in {"none", "next"}
    BY <1>2, IdleRecord DEF Visit, Return, Idle
  <2>5. Asks(Y) = Asks(call[Scanner])
    BY <2>3, <2>4, AsksValues
  <2> QED
    BY <1>0, <2>2, <2>4, <2>5, PendingStep
<1>3. CASE Clear
  <2> DEFINE c == call[Scanner]
             X == IF c.bin + 1 < Size
                  THEN [Idle EXCEPT !.pc = "lock", !.op = "refresh", !.bin = c.bin + 1]
                  ELSE [Idle EXCEPT !.pc = "reset", !.op = "refresh"]
  <2>1. /\ c.pc = "act" /\ c.op = "refresh" /\ c.bin \in Bucket
        /\ table' = [table EXCEPT ![c.bin] = NoEntry]
        /\ call' = [call EXCEPT ![Scanner] = X]
    BY <1>0, <1>3 DEF Clear, Acting, Put, CallRecord
  <2>2. c.bin \in Nat /\ c.bin < Size /\ Size \in Nat
    BY <2>1, Constants DEF Bucket
  <2>3. Pending[Scanner] = [op |-> "refresh", bin |-> c.bin]
    BY <1>0, <2>1, AsksValues DEF Pending
  <2>4. Asks(X) = [op |-> "refresh", bin |-> c.bin + 1]
    <3>1. CASE c.bin + 1 < Size
      <4>1. X.op = "refresh" /\ X.pc = "lock" /\ X.bin = c.bin + 1
        BY <3>1 DEF Idle
      <4> HIDE DEF X
      <4> QED
        BY <4>1, AsksValues
    <3>2. CASE ~ (c.bin + 1 < Size)
      <4>1. X.op = "refresh" /\ X.pc = "reset"
        BY <3>2 DEF Idle
      <4>2. Size = c.bin + 1
        BY <2>2, <3>2
      <4> HIDE DEF X
      <4> QED
        BY <4>1, <4>2, AsksValues
    <3> QED
      BY <3>1, <3>2
  <2> HIDE DEF X
  <2>5. Pending' = [Pending EXCEPT ![Scanner] = [op |-> "refresh", bin |-> c.bin + 1]]
    BY <1>0, <2>1, <2>4, PendingStep
  <2> HIDE DEF c
  <2>6. Cache!ClearBucket
    BY <2>1, <2>2, <2>3, <2>5 DEF Cache!ClearBucket
  <2> QED
    BY <2>6 DEF Cache!Next
<1>4. ASSUME NEW t \in Thread, NEW r \in Request, Call(t, r)
      PROVE  [Cache!Next]_<<table, Pending>>
  <2> DEFINE X == [pc |-> "lock", op |-> r.op, bin |-> BinOf[r.key], key |-> r.key,
                   delta |-> r.delta, level |-> r.level, next |-> NoEntry, count |-> 0]
  <2>1. /\ call[t] = Idle /\ call' = [call EXCEPT ![t] = X] /\ UNCHANGED table
    BY <1>4 DEF Call
  <2>2. r.op \in Keyed
        /\ r = [op |-> r.op, key |-> r.key, delta |-> r.delta, level |-> r.level]
    BY RequestAssumption
  <2>3. Asks(X) = r
    BY <2>2 DEF Asks
  <2> HIDE DEF X
  <2>4. Pending[t] = Cache!NoCall /\ Pending' = [Pending EXCEPT ![t] = r]
    BY <2>1, <2>3, PendingStep, AsksValues DEF Pending
  <2>5. Cache!Begin(t, r)
    BY <2>1, <2>4 DEF Cache!Begin
  <2> QED
    BY <2>5 DEF Cache!Next
<1>5. CASE CallNext \/ Advance \/ EndScan
  <2>1. PICK X : /\ call' = [call EXCEPT ![Scanner] = X] /\ UNCHANGED table
                 /\ X.op \in {"none", "next", "end"}
    <3>1. CASE CallNext \/ EndScan
      <4>1. [Idle EXCEPT !.pc = "advance", !.op = "next"].op = "next"
        BY DEF Idle
      <4> QED
        BY <3>1, <4>1, IdleRecord DEF CallNext, EndScan
    <3>2. CASE Advance
      <4>1. \A b : [Idle EXCEPT !.pc = "lock", !.op = "next", !.bin = b].op = "next"
        BY DEF Idle
      <4>2. [Idle EXCEPT !.op = "end"].op = "end"
        BY DEF Idle
      <4> QED
        BY <3>2, <4>1, <4>2 DEF Advance
    <3> QED
      BY <1>5, <3>1, <3>2
  <2>2. call[Scanner].op \in {"none", "next", "end"}
    BY <1>5 DEF CallNext, Advance, EndScan, Idle
  <2>3. Asks(X) = Asks(call[Scanner])
    BY <2>1, <2>2, AsksValues
  <2> QED
    BY <1>0, <2>1, <2>3, PendingStep
<1>6. CASE CallRefresh
  <2> DEFINE X == [Idle EXCEPT !.pc = "lock", !.op = "refresh"]
  <2>1. call[Scanner] = Idle /\ call' = [call EXCEPT ![Scanner] = X] /\ UNCHANGED table
    BY <1>6 DEF CallRefresh
  <2>2. X.op = "refresh" /\ X.pc = "lock" /\ X.bin = 0
    BY DEF Idle
  <2> HIDE DEF X
  <2>3. Asks(X) = [op |-> "refresh", bin |-> 0]
    BY <2>2, AsksValues
  <2>4. /\ Pending[Scanner] = Cache!NoCall
        /\ Pending' = [Pending EXCEPT ![Scanner] = [op |-> "refresh", bin |-> 0]]
    BY <1>0, <2>1, <2>3, PendingStep, AsksValues DEF Pending
  <2>5. Cache!BeginRefresh
    BY <2>1, <2>4 DEF Cache!BeginRefresh
  <2> QED
    BY <2>5 DEF Cache!Next
<1>7. CASE Reset
  <2>1. /\ call[Scanner].pc = "reset" /\ call' = [call EXCEPT ![Scanner] = Idle]
        /\ UNCHANGED table
    BY <1>7 DEF Reset
  <2>2. call[Scanner].op = "refresh"
    BY <1>0, <2>1 DEF CacheInv, CallsInv, CallInv
  <2>3. Pending[Scanner] = [op |-> "refresh", bin |-> Size]
    BY <1>0, <2>1, <2>2, AsksValues DEF Pending
  <2>4. Pending' = [Pending EXCEPT ![Scanner] = Cache!NoCall]
    BY <1>0, <2>1, PendingStep, AsksValues
  <2>5. Cache!EndRefresh
    BY <2>1, <2>3, <2>4 DEF Cache!EndRefresh
  <2> QED
    BY <2>5 DEF Cache!Next
<1>8. CASE UNCHANGED vars
  BY <1>8 DEF vars, Pending, Asks
<1> QED
  BY <1>1, <1>2, <1>3, <1>4, <1>5, <1>6, <1>7, <1>8 DEF Next, ScannerStep

(* mt_hashtable_kFlowSrc_fixsize.c implements FlowCache: every call takes  *)
(* effect once and at one moment, for any number of threads, so counts are *)
(* exact and priorities are kept.                                          *)
THEOREM TableIsCache == Spec => ImplementsCache
<1>1. Init => Cache!Init
  BY DEF Init, Cache!Init, Cache!NoCall, Pending, Asks, Idle, Keyed, Bucket
<1> QED
  BY <1>1, CacheInit, CacheStep, RefinementStep, PTL
     DEF Spec, ImplementsCache, Cache!Spec
-----------------------------------------------------------------------------
(* The scanner is on its way to the bucket at the cursor. *)
Arriving == call[Scanner].op = "next" /\ call[Scanner].pc \in {"lock", "load", "act"}

(* Where an iteration is, and what it has returned of the flows that have  *)
(* been in the table all the time: all those behind the cursor.            *)
ScanInv ==
  /\ \A t \in Thread : call[t].op \in {"next", "refresh", "end"} => t = Scanner
  /\ Arriving => call[Scanner].bin = next_current_bin
  /\ call[Scanner].op = "next" => scanning
  /\ ~ scanning => next_current_bin = -1
  /\ call[Scanner].op = "end" => stayed \subseteq returned
  /\ \A f \in stayed : table[BinOf[f]] # NoEntry /\ table[BinOf[f]].key = f
  /\ scanning => \A f \in stayed :
       /\ BinOf[f] < next_current_bin => f \in returned
       /\ BinOf[f] = next_current_bin => f \in returned \/ Arriving

LEMMA FlowsPlaced ==
  ASSUME CacheInv, NEW f \in Flows(table)
  PROVE  table[BinOf[f]] # NoEntry /\ table[BinOf[f]].key = f
  BY DEF Flows, CacheInv, Placed

LEMMA ScanInit == Init => ScanInv
<1> SUFFICES ASSUME Init PROVE ScanInv
  OBVIOUS
<1>1. \A t \in Thread : call[t].op = "none"
  BY IdleRecord DEF Init
<1> QED
  BY <1>1, Constants DEF Init, ScanInv, Arriving

(* A Put by a thread that is not arriving, or goes on to the next bucket   *)
(* having returned what it found.                                          *)
LEMMA ActedScans ==
  ASSUME CacheInv, CacheInv', ScanInv, NEW t \in Thread, NEW e, NEW X,
         Acted(t, e, X), UNCHANGED scanning,
         X.op \in {"next", "refresh"} => t = Scanner /\ call[t].op = X.op,
         X.op # "end", X.op = "next" => X.pc = "advance",
         returned \subseteq returned',
         (t = Scanner /\ Arriving) =>
           \A f \in stayed' : BinOf[f] = next_current_bin => f \in returned'
  PROVE  ScanInv'
<1>1. /\ call \in [Thread -> CallRecord] /\ Scanner \in Thread
      /\ call' = [call EXCEPT ![t] = X] /\ UNCHANGED next_current_bin
      /\ stayed' = stayed \cap Flows(table')
  BY Constants DEF CacheInv, TypeOK, CallType, Acted, Put
<1>2. \A u \in Thread : call'[u] = IF u = t THEN X ELSE call[u]
  BY <1>1
<1>3. \A u \in Thread : call'[u].op \in {"next", "refresh", "end"} => u = Scanner
  BY <1>2 DEF ScanInv
<1>4. \A f \in stayed' : table'[BinOf[f]] # NoEntry /\ table'[BinOf[f]].key = f
  <2>1. ASSUME CacheInv', NEW f \in Flows(table')
        PROVE  table'[BinOf[f]] # NoEntry /\ table'[BinOf[f]].key = f
    BY <2>1 DEF Flows, CacheInv, Placed
  <2> QED
    BY <1>1, <2>1
<1>5. CASE t = Scanner
  <2>1. call'[Scanner] = X /\ ~ Arriving'
    BY <1>1, <1>2, <1>5 DEF Arriving
  <2>2. call[t].pc = "act"
    BY DEF Acted
  <2>3. scanning => \A f \in stayed' :
                      BinOf[f] <= next_current_bin => f \in returned'
    <3> SUFFICES ASSUME scanning, NEW f \in stayed', BinOf[f] <= next_current_bin
                 PROVE  f \in returned'
      OBVIOUS
    <3>1. f \in stayed /\ f \in Flow
      BY <1>1 DEF CacheInv, TypeOK, HistoryType
    <3>2. BinOf[f] \in Int /\ next_current_bin \in Int
      BY <3>1, Constants DEF Bucket, CacheInv, TypeOK, TableType
    <3>3. CASE BinOf[f] < next_current_bin
      BY <3>1, <3>3 DEF ScanInv
    <3>4. CASE BinOf[f] = next_current_bin
      <4>1. CASE Arriving
        BY <1>5, <3>4, <4>1
      <4>2. CASE ~ Arriving
        BY <3>1, <3>4, <4>2 DEF ScanInv
      <4> QED
        BY <4>1, <4>2
    <3> QED
      BY <3>2, <3>3, <3>4
  <2>4. \A f \in stayed' : BinOf[f] \in Int /\ next_current_bin \in Int
    BY <1>1, Constants DEF Bucket, CacheInv, TypeOK, TableType, HistoryType
  <2>5. call'[Scanner].op = "next" => scanning'
    BY <1>5, <2>1 DEF ScanInv
  <2>6. /\ ~ scanning' => next_current_bin' = -1
        /\ call'[Scanner].op # "end"
    BY <1>1, <2>1 DEF ScanInv
  <2>7. scanning' => \A f \in stayed' :
          /\ BinOf[f] < next_current_bin' => f \in returned'
          /\ BinOf[f] = next_current_bin' => f \in returned' \/ Arriving'
    BY <1>1, <2>3, <2>4
  <2> QED
    BY <1>3, <1>4, <2>1, <2>5, <2>6, <2>7 DEF ScanInv
<1>6. CASE t # Scanner
  <2>1. call'[Scanner] = call[Scanner] /\ Arriving' = Arriving
    BY <1>1, <1>2, <1>6 DEF Arriving
  <2>2. stayed' \subseteq stayed
    BY <1>1
  <2> QED
    BY <1>1, <1>3, <1>4, <2>1, <2>2 DEF ScanInv
<1> QED
  BY <1>5, <1>6

LEMMA ScanStep == CacheInv /\ ScanInv /\ [Next]_vars => ScanInv'
<1> SUFFICES ASSUME CacheInv, ScanInv, [Next]_vars PROVE ScanInv'
  OBVIOUS
<1>1. CacheInv'
  BY CacheStep
<1>2. /\ call \in [Thread -> CallRecord] /\ Scanner \in Thread
      /\ next_current_bin \in -1 .. Size - 1 /\ Size \in Nat
  BY Constants DEF CacheInv, TypeOK, CallType, TableType
<1>3. \A f \in stayed : BinOf[f] \in Bucket
  BY Constants DEF CacheInv, TypeOK, HistoryType
<1>4. ASSUME NEW t \in Thread, NEW r \in Request, Call(t, r) PROVE ScanInv'
  <2>1. call'[t].op \in Keyed /\ call[t].op = "none"
    BY <1>2, <1>4, RequestAssumption, IdleRecord DEF Call
  <2>2. \A u \in Thread : u # t => call'[u] = call[u]
    BY <1>2, <1>4 DEF Call
  <2>3. UNCHANGED <<table, next_current_bin, stayed, returned, scanning>>
    BY <1>4 DEF Call, scan
  <2>4. call'[t].op \notin {"none", "next", "refresh", "end"}
    BY <2>1 DEF Keyed
  <2>5. CASE t = Scanner
    <3>1. ~ Arriving /\ ~ Arriving'
      BY <2>1, <2>4, <2>5 DEF Arriving
    <3> QED
      BY <2>2, <2>3, <2>4, <2>5, <3>1 DEF ScanInv
  <2>6. CASE t # Scanner
    <3>1. Arriving' <=> Arriving
      BY <1>2, <2>2, <2>6 DEF Arriving
    <3>2. call'[Scanner] = call[Scanner]
      BY <1>2, <2>2, <2>6
    <3> QED
      BY <1>2, <2>2, <2>3, <2>4, <3>1, <3>2 DEF ScanInv
  <2> QED
    BY <2>5, <2>6
<1>5. ASSUME NEW t \in Thread, Lock(t) \/ Load(t) PROVE ScanInv'
  <2>1. /\ call'[t].op = call[t].op /\ call'[t].bin = call[t].bin
        /\ call[t].pc \in {"lock", "load"} /\ call'[t].pc \in {"load", "act"}
    BY <1>2, <1>5 DEF Lock, Load, CallRecord
  <2>2. \A u \in Thread : u # t => call'[u] = call[u]
    BY <1>2, <1>5 DEF Lock, Load
  <2>3. UNCHANGED <<table, next_current_bin, stayed, returned, scanning>>
    BY <1>5 DEF Lock, Load, scan
  <2>4. (Arriving' <=> Arriving) /\ call'[Scanner].bin = call[Scanner].bin
        /\ \A u \in Thread : call'[u].op = call[u].op
    BY <1>2, <2>1, <2>2 DEF Arriving
  <2> QED
    BY <1>2, <2>3, <2>4 DEF ScanInv
<1>6. ASSUME NEW t \in Thread,
             \/ Get(t) \/ AddValue(t) \/ AddValueUpdateLevel(t)
             \/ SetSelectedLevel(t) \/ Del(t)
      PROVE  ScanInv'
  <2>1. PICK e : Acted(t, e, Idle) /\ UNCHANGED <<returned, scanning>>
    BY <1>6, ActStep
  <2>2. call[t].op \in Keyed
    BY <1>6 DEF Get, AddValue, AddValueUpdateLevel, SetSelectedLevel, Del,
                Acting, Keyed
  <2>3. t = Scanner => ~ Arriving
    BY <2>2 DEF Arriving, Keyed
  <2> QED
    BY <1>1, <2>1, <2>3, IdleRecord, ActedScans
<1>7. CASE Visit
  <2> DEFINE c == call[Scanner]
             X == IF c.next # NoEntry THEN Idle
                  ELSE [Idle EXCEPT !.pc = "advance", !.op = "next"]
  <2>1. PICK Y : Acted(Scanner, c.next, Y) /\ UNCHANGED scanning
    BY <1>7, VisitActs
  <2>2. call' = [call EXCEPT ![Scanner] = X]
    BY <1>7 DEF Visit, Return
  <2>3. Y = X
    BY <1>2, <2>1, <2>2 DEF Acted
  <2>4. X.op \in {"none", "next"} /\ (X.op = "next" => X.pc = "advance")
    BY IdleRecord DEF Idle
  <2>5. /\ c.op = "next" /\ c.pc = "act" /\ c.next = table[c.bin]
        /\ c.bin \in Bucket /\ Arriving
    BY <1>2, <1>7 DEF Visit, Acting, Arriving, CacheInv, CallsInv, CallInv,
                      CallRecord
  <2>6. c.bin = next_current_bin
    BY <2>5 DEF ScanInv
  <2>7. /\ returned \subseteq returned'
        /\ c.next # NoEntry => c.next.key \in returned'
    BY <1>7 DEF Visit
  <2>8. ASSUME NEW f \in stayed', BinOf[f] = next_current_bin
        PROVE  f \in returned'
    <3>1. f \in stayed
      BY <1>7 DEF Visit, Put
    <3>2. table[BinOf[f]] # NoEntry /\ table[BinOf[f]].key = f
      BY <3>1 DEF ScanInv
    <3> QED
      BY <2>5, <2>6, <2>7, <2>8, <3>2
  <2> HIDE DEF X, c
  <2>9. Acted(Scanner, call[Scanner].next, X)
    BY <2>1, <2>3 DEF c
  <2> QED
    BY <1>1, <1>2, <2>1, <2>4, <2>5, <2>7, <2>8, <2>9, ActedScans DEF c
<1>8. CASE Clear
  <2>1. PICK X : Acted(Scanner, NoEntry, X) /\ UNCHANGED <<returned, scanning>>
    BY <1>8, ClearActs
  <2>2. call[Scanner].op = "refresh" /\ call'[Scanner].op = "refresh"
    BY <1>2, <1>8 DEF Clear, Acting, Idle
  <2>3. X.op = "refresh"
    BY <1>2, <2>1, <2>2 DEF Acted
  <2>4. ~ Arriving
    BY <2>2 DEF Arriving
  <2> QED
    BY <1>1, <1>2, <2>1, <2>2, <2>3, <2>4, ActedScans
<1>9. CASE CallNext
  <2>1. /\ call[Scanner].op = "none" /\ call'[Scanner].op = "next"
        /\ call'[Scanner].pc = "advance"
    BY <1>2, <1>9, IdleRecord DEF CallNext, Idle
  <2>2. \A u \in Thread : u # Scanner => call'[u] = call[u]
    BY <1>2, <1>9 DEF CallNext
  <2>3. /\ UNCHANGED <<table, next_current_bin>> /\ scanning' = TRUE
        /\ scanning => stayed' = stayed /\ returned' = returned
        /\ ~ scanning => stayed' = Flows(table)
    BY <1>9 DEF CallNext
  <2>4. ~ Arriving /\ ~ Arriving'
    BY <2>1 DEF Arriving
  <2>5. CASE scanning
    BY <1>2, <2>1, <2>2, <2>3, <2>4, <2>5 DEF ScanInv
  <2>6. CASE ~ scanning
    <3>1. \A f \in stayed' : table[BinOf[f]] # NoEntry /\ table[BinOf[f]].key = f
      BY <2>3, <2>6, FlowsPlaced
    <3>2. next_current_bin = -1
      BY <2>6 DEF ScanInv
    <3>3. \A f \in stayed' : BinOf[f] \in Bucket
      BY <1>1, Constants DEF CacheInv, TypeOK, HistoryType
    <3>4. \A f \in stayed' : ~ (BinOf[f] < -1) /\ BinOf[f] # -1
      BY <1>2, <3>3 DEF Bucket
    <3> QED
      BY <1>2, <2>1, <2>2, <2>3, <2>4, <3>1, <3>2, <3>4 DEF ScanInv
  <2> QED
    BY <2>3, <2>5, <2>6
<1>10. CASE CallRefresh
  <2>1. /\ call[Scanner].op = "none" /\ call'[Scanner].op = "refresh"
        /\ UNCHANGED <<table, next_current_bin, stayed, returned, scanning>>
    BY <1>2, <1>10, IdleRecord DEF CallRefresh, Idle, scan
  <2>2. \A u \in Thread : u # Scanner => call'[u] = call[u]
    BY <1>2, <1>10 DEF CallRefresh
  <2>3. ~ Arriving /\ ~ Arriving'
    BY <2>1 DEF Arriving
  <2> QED
    BY <1>2, <2>1, <2>2, <2>3 DEF ScanInv
<1>11. CASE Advance
  <2> DEFINE b == next_current_bin + 1
  <2>1. call[Scanner].pc = "advance" /\ ~ Arriving
    BY <1>11 DEF Advance, Arriving
  <2>2. \A u \in Thread : u # Scanner => call'[u] = call[u]
    BY <1>2, <1>11 DEF Advance
  <2>3. UNCHANGED <<table, stayed, returned>>
    BY <1>11 DEF Advance
  <2>4. call[Scanner].op = "next" /\ scanning
    BY <1>1, <1>11 DEF Advance, ScanInv
  <2>5. \A f \in stayed : BinOf[f] < b => f \in returned
    <3> SUFFICES ASSUME NEW f \in stayed, BinOf[f] < b PROVE f \in returned
      OBVIOUS
    <3>1. BinOf[f] < next_current_bin \/ BinOf[f] = next_current_bin
      BY <1>2, <1>3 DEF Bucket
    <3> QED
      BY <2>1, <2>4, <3>1 DEF ScanInv
  <2>6. CASE b < Size
    <3>1. /\ next_current_bin' = b /\ UNCHANGED scanning
          /\ call'[Scanner].op = "next" /\ call'[Scanner].pc = "lock"
          /\ call'[Scanner].bin = b
      <4>1. ~ (b >= Size)
        BY <1>2, <2>6
      <4>2. /\ next_current_bin' = b /\ UNCHANGED scanning
            /\ call' = [call EXCEPT ![Scanner] =
                          [Idle EXCEPT !.pc = "lock", !.op = "next", !.bin = b]]
        BY <1>11, <4>1 DEF Advance
      <4> HIDE DEF b
      <4> QED
        BY <1>2, <4>2 DEF Idle
    <3>2. Arriving'
      BY <3>1 DEF Arriving
    <3> HIDE DEF b
    <3> QED
      BY <1>2, <2>2, <2>3, <2>4, <2>5, <3>1, <3>2 DEF ScanInv
  <2>7. CASE ~ (b < Size)
    <3>1. /\ next_current_bin' = -1 /\ scanning' = FALSE
          /\ call'[Scanner].op = "end" /\ call'[Scanner].pc = "idle"
      BY <1>2, <1>11, <2>7 DEF Advance, Rewound, Idle
    <3>2. \A f \in stayed : BinOf[f] < b
      BY <1>2, <1>3, <2>7 DEF Bucket
    <3>3. stayed \subseteq returned
      BY <2>5, <3>2
    <3>4. ~ Arriving'
      BY <3>1 DEF Arriving
    <3> QED
      BY <1>2, <2>2, <2>3, <3>1, <3>3, <3>4 DEF ScanInv
  <2> QED
    BY <2>6, <2>7
<1>12. CASE EndScan \/ Reset
  <2>1. call' = [call EXCEPT ![Scanner] = Idle]
    BY <1>12 DEF EndScan, Reset
  <2>2. /\ call'[Scanner].op = "none"
        /\ \A u \in Thread : u # Scanner => call'[u] = call[u]
    BY <1>2, <2>1, IdleRecord
  <2>3. ~ Arriving'
    BY <2>2 DEF Arriving
  <2>4. CASE EndScan
    <3>1. UNCHANGED <<table, next_current_bin, stayed, returned, scanning>>
      BY <2>4 DEF EndScan, scan
    <3>2. ~ Arriving
      BY <2>4 DEF EndScan, Arriving, Idle
    <3> QED
      BY <1>2, <2>2, <2>3, <3>1, <3>2 DEF ScanInv
  <2>5. CASE Reset
    <3>1. /\ UNCHANGED <<table, stayed, returned>> /\ scanning' = FALSE
          /\ next_current_bin' = -1
      BY <2>5 DEF Reset
    <3> QED
      BY <1>2, <2>2, <2>3, <3>1 DEF ScanInv
  <2> QED
    BY <1>12, <2>4, <2>5
<1>13. CASE UNCHANGED vars
  BY <1>13 DEF vars, ScanInv, Arriving
<1> QED
  BY <1>4, <1>5, <1>6, <1>7, <1>8, <1>9, <1>10, <1>11, <1>12, <1>13
     DEF Next, Step, ScannerStep

(* An iteration with ht_kfs_fixSize_next() returns every flow that is in   *)
(* the table from its beginning to its end.                                *)
THEOREM ScanIsComplete == Spec => []ScanFindsStaying
<1>1. ScanInv => ScanFindsStaying
  BY DEF ScanInv, ScanFindsStaying
<1> QED
  BY <1>1, CacheInit, CacheStep, ScanInit, ScanStep, PTL DEF Spec
=============================================================================
