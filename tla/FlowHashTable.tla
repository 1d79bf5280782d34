--------------------------- MODULE FlowHashTable ---------------------------
(***************************************************************************)
(* The chained hash tables of public_lib, keyed by source flow:            *)
(* mt_hashtable_kFlowSrc_vInt.c and its sibling mt_hashtable_kFlowSrc_     *)
(* vFloat.c.  Entries hang off size bins in chains kept in the order of    *)
(* flow_src_compare; each bin has a mutex; the table also holds the cursor *)
(* of the one thread that iterates over it with ..._next().                *)
(*                                                                         *)
(* A critical section under a bin's mutex is one step, except where the    *)
(* code touches state that this mutex does not protect:                    *)
(*   - vInt's get() reads pair->value after it has unlocked the bin;       *)
(*   - del() compares and then overwrites the cursor under the mutex of    *)
(*     the deleted entry's bin, next() moves the cursor under the mutex of *)
(*     the bin it is iterating, and these can be different bins.           *)
(* Memory is a heap of cells that malloc() hands out and free() takes      *)
(* back, so that a pointer can outlive its entry and a cell can be reused. *)
(***************************************************************************)
EXTENDS Integers, Sequences, SequencesExt

CONSTANTS
  Key,             \* flows; their order as integers is flow_src_compare()
  Value,           \* values stored (packet volumes, loss rates or levels)
  Size,            \* number of bins, HASH_MAP_SIZE
  HashBin,         \* flow_src_hash_bin(), a function from Key to bins
  Addr,            \* heap cells that malloc() can return
  Writers,         \* threads that call get, set and del
  Scanner,         \* the one thread that calls next
  Ops,             \* the calls the writers make, within {"get","set","del"}
  ReadsUnderLock,  \* TRUE: vFloat's get, FALSE: vInt's get
  NULL, Garbage    \* the null pointer; the content of freed memory

Bins == 0 .. Size - 1

(* -1, what get returns for a flow that is not in the table. *)
Absent == -1

ASSUME KeyAssumption == Key \subseteq Int
ASSUME SizeAssumption == Size \in Nat \ {0}
ASSUME HashAssumption == HashBin \in [Key -> Bins]
ASSUME NullAssumption ==
  /\ NULL \notin Addr
  /\ NULL \notin [key : Key, value : Value]
  /\ NULL \notin Writers \cup {Scanner}
  /\ Scanner \notin Writers
ASSUME ValueAssumption == Absent \notin Value
ASSUME FlagAssumption == ReadsUnderLock \in BOOLEAN

VARIABLES
  table,                  \* bin -> chain of the addresses of its entries
  heap,                   \* address -> entry, NULL when not allocated
  mutexs,                 \* bin -> thread in its critical section, or NULL
  next_current_bin,       \* bin the iteration has reached, -1 before it
  next_last_visit_entry,  \* the cursor: entry next() returned last
  pc,                     \* where each thread is in its call
  loc,                    \* local variables of each writer's call
  iterator,               \* the scanner's local: entry about to be returned
  seen,                   \* history: results get may return (see GetIsLinearizable)
  visited, stable         \* history: keys the running scan has returned, and
                          \* keys that were in the table ever since it began

tableVars == <<table, heap>>
cursorVars == <<next_current_bin, next_last_visit_entry>>
scanVars == <<iterator, visited, stable>>
vars == <<table, heap, mutexs, next_current_bin, next_last_visit_entry, pc,
          loc, iterator, seen, visited, stable>>

Threads == Writers \cup {Scanner}
Entry == [key : Key, value : Value]
Pointer == Addr \cup {NULL}

(* The local variables of a call on key: the entry found, its successor,   *)
(* whether the cursor was on it, and the value to return.                  *)
Locals(key, pair, succ, hit, ret) ==
  [key |-> key, pair |-> pair, succ |-> succ, hit |-> hit, ret |-> ret]
NoCall == Locals(NULL, NULL, NULL, FALSE, NULL)

KeyAt(a) == heap[a].key
ValueAt(a) == heap[a].value
InChain(a) == \E b \in Bins : \E i \in 1 .. Len(table[b]) : table[b][i] = a

(* Mutant of WalkTo: the walk goes past an entry with an equal key. *)
WalkPastEqual(chain, k) ==
  CHOOSE i \in 1 .. Len(chain) + 1 :
    /\ \A j \in 1 .. i - 1 : KeyAt(chain[j]) <= k
    /\ i <= Len(chain) => KeyAt(chain[i]) > k

(* Where the walk down a chain stops: at the first entry whose key is not  *)
(* smaller than k, one past the end if there is none.                      *)
WalkTo(chain, k) ==
  CHOOSE i \in 1 .. Len(chain) + 1 :
    /\ \A j \in 1 .. i - 1 : KeyAt(chain[j]) < k
    /\ i <= Len(chain) => KeyAt(chain[i]) >= k

(* Mutant of FoundAt: the key where the walk stopped is not compared. *)
FoundAny(chain, i, k) == i <= Len(chain)

(* The walk stopped at an entry for k itself. *)
FoundAt(chain, i, k) == i <= Len(chain) /\ KeyAt(chain[i]) = k

(* entry->next of the i-th entry of a chain. *)
NextInChain(chain, i) == IF i < Len(chain) THEN chain[i + 1] ELSE NULL

(* Mutants of Unlink: the bin's head is not updated; the rest of the chain *)
(* is lost.                                                                *)
UnlinkKeepsHead(chain, i) == IF i = 1 THEN chain ELSE RemoveAt(chain, i)
UnlinkDropsTail(chain, i) == SubSeq(chain, 1, i - 1)

(* The chain without its i-th entry. *)
Unlink(chain, i) == RemoveAt(chain, i)

(* The table as the map from flows to values it stands for. *)
AbsMap ==
  [k \in Key |->
     LET chain == table[HashBin[k]]
     IN  IF \E i \in 1 .. Len(chain) : KeyAt(chain[i]) = k
         THEN ValueAt(chain[CHOOSE i \in 1 .. Len(chain) :
                              KeyAt(chain[i]) = k])
         ELSE Absent]

Init ==
  /\ table = [b \in Bins |-> <<>>]
  /\ heap = [a \in Addr |-> NULL]
  /\ mutexs = [b \in Bins |-> NULL]
  /\ next_current_bin = -1
  /\ next_last_visit_entry = NULL
  /\ pc = [t \in Threads |-> "idle"]
  /\ loc = [w \in Writers |-> NoCall]
  /\ iterator = NULL
  /\ seen = [w \in Writers |-> {}]
  /\ visited = {} /\ stable = {}

Goto(t, where) == pc' = [pc EXCEPT ![t] = where]

(* Every get(k) in progress may now also return result r. *)
SeenBy(k, r) ==
  [w \in Writers |-> IF pc[w] = "get" /\ loc[w].key = k
                     THEN seen[w] \cup {r} ELSE seen[w]]
-----------------------------------------------------------------------------
(* Mutant of ReadsLate: vFloat's get also reads the value too late. *)
AlwaysReadsLate == TRUE

(* get() reads the value of the entry it has found after the unlock. *)
ReadsLate == ~ReadsUnderLock

(* get() up to the unlock: the walk, and for vInt the pointer it leaves.   *)
(* vFloat's get copies the value before it unlocks.                        *)
GetLookup(w, k) ==
  LET chain == table[HashBin[k]]
      i     == WalkTo(chain, k)
      found == FoundAt(chain, i, k)
  IN  /\ pc[w] = "idle"
      /\ mutexs[HashBin[k]] = NULL
      /\ IF found /\ ReadsLate
         THEN /\ Goto(w, "get")
              /\ loc' = [loc EXCEPT ![w] =
                           Locals(k, chain[i], NULL, FALSE, NULL)]
         ELSE /\ Goto(w, "got")
              /\ loc' = [loc EXCEPT ![w] =
                           Locals(k, NULL, NULL, FALSE,
                                  IF found THEN ValueAt(chain[i]) ELSE Absent)]
      /\ seen' = [seen EXCEPT ![w] = {AbsMap[k]}]
      /\ UNCHANGED <<tableVars, mutexs, cursorVars, scanVars>>

(* What reading a cell's value yields: freed memory holds anything. *)
ReadValue(a) == IF heap[a] = NULL THEN Value \cup {Garbage} ELSE {ValueAt(a)}

(* vInt: return pair->value, after the unlock. *)
GetReturn(w) ==
  /\ pc[w] = "get"
  /\ \E v \in ReadValue(loc[w].pair) :
       loc' = [loc EXCEPT ![w] = Locals(@.key, @.pair, NULL, FALSE, v)]
  /\ Goto(w, "got")
  /\ UNCHANGED <<tableVars, mutexs, cursorVars, scanVars, seen>>

(* The caller of get goes on with the result. *)
GetDone(w) ==
  /\ pc[w] = "got"
  /\ Goto(w, "idle")
  /\ loc' = [loc EXCEPT ![w] = NoCall]
  /\ seen' = [seen EXCEPT ![w] = {}]
  /\ UNCHANGED <<tableVars, mutexs, cursorVars, scanVars>>

(* Mutant of Replace: the entry is freed and a new pair takes its place. *)
ReplaceReallocates(b, i, v) ==
  \E a \in Addr :
    /\ heap[a] = NULL
    /\ heap' = [heap EXCEPT ![a] = [key |-> KeyAt(table[b][i]), value |-> v],
                            ![table[b][i]] = NULL]
    /\ table' = [table EXCEPT ![b] = ReplaceAt(table[b], i, a)]

(* The entry at position i of bin b gets value v. *)
Replace(b, i, v) ==
  /\ heap' = [heap EXCEPT ![table[b][i]].value = v]
  /\ UNCHANGED table

(* set(): replace the value of k's entry, or link a new pair where the     *)
(* walk stopped.                                                           *)
Set(w, k, v) ==
  LET b     == HashBin[k]
      i     == WalkTo(table[b], k)
  IN  /\ pc[w] = "idle"
      /\ mutexs[b] = NULL
      /\ IF FoundAt(table[b], i, k)
         THEN Replace(b, i, v)
         ELSE \E a \in Addr :
                /\ heap[a] = NULL
                /\ heap' = [heap EXCEPT ![a] = [key |-> k, value |-> v]]
                /\ table' = [table EXCEPT ![b] = InsertAt(table[b], i, a)]
      /\ seen' = SeenBy(k, v)
      /\ UNCHANGED <<mutexs, cursorVars, pc, loc, scanVars>>

(* del(), first half: unlink k's entry and test whether the cursor is on   *)
(* it.  The bin stays locked.  A del of an absent key changes nothing.     *)
DelUnlink(w, k) ==
  LET b == HashBin[k]
      i == WalkTo(table[b], k)
  IN  /\ pc[w] = "idle"
      /\ mutexs[b] = NULL
      /\ FoundAt(table[b], i, k)
      /\ table' = [table EXCEPT ![b] = Unlink(table[b], i)]
      /\ mutexs' = [mutexs EXCEPT ![b] = w]
      /\ loc' = [loc EXCEPT ![w] =
                   Locals(k, table[b][i], NextInChain(table[b], i),
                          table[b][i] = next_last_visit_entry, NULL)]
      /\ Goto(w, "del")
      /\ seen' = SeenBy(k, Absent)
      /\ stable' = stable \ {k}
      /\ UNCHANGED <<heap, cursorVars, iterator, visited>>

(* del(), second half: if the cursor was on the entry, put it on the       *)
(* entry's successor; free the entry and unlock the bin.                   *)
DelFree(w) ==
  /\ pc[w] = "del"
  /\ next_last_visit_entry' = IF loc[w].hit THEN loc[w].succ
                              ELSE next_last_visit_entry
  /\ heap' = [heap EXCEPT ![loc[w].pair] = NULL]
  /\ mutexs' = [mutexs EXCEPT ![HashBin[loc[w].key]] = NULL]
  /\ loc' = [loc EXCEPT ![w] = NoCall]
  /\ Goto(w, "idle")
  /\ UNCHANGED <<table, next_current_bin, scanVars, seen>>
-----------------------------------------------------------------------------
(* What reading a cell's next pointer yields: the successor in its chain,  *)
(* the pointer left in an entry that is unlinked but not yet freed, or     *)
(* anything at all once the cell has been freed.                           *)
ReadNext(a) ==
  IF InChain(a)
  THEN UNION {{NextInChain(table[b], i) :
                 i \in {j \in 1 .. Len(table[b]) : table[b][j] = a}} :
              b \in Bins}
  ELSE IF heap[a] # NULL
  THEN {loc[w].succ : w \in {x \in Writers : pc[x] = "del" /\ loc[x].pair = a}}
  ELSE Pointer

(* The keys an entry copied out to the caller adds to the scan. *)
KeyCopied(a) == IF heap[a] = NULL THEN {} ELSE {KeyAt(a)}

(* next() on a table whose iteration has not begun. *)
NextStart ==
  /\ pc[Scanner] = "idle"
  /\ next_current_bin = -1
  /\ Goto(Scanner, "walk")
  /\ visited' = {}
  /\ stable' = {k \in Key : AbsMap[k] # Absent}
  /\ UNCHANGED <<tableVars, mutexs, cursorVars, loc, iterator, seen>>

(* next() in the bin it is in, up to the read of the cursor's successor.   *)
NextInBin ==
  LET b == next_current_bin
  IN  /\ pc[Scanner] = "idle"
      /\ b >= 0
      /\ mutexs[b] = NULL
      /\ \E it \in (IF next_last_visit_entry = NULL THEN {NULL}
                    ELSE ReadNext(next_last_visit_entry)) :
           IF it = NULL
           THEN /\ Goto(Scanner, "walk")
                /\ UNCHANGED <<mutexs, iterator, visited>>
           ELSE /\ Goto(Scanner, "advance")
                /\ mutexs' = [mutexs EXCEPT ![b] = Scanner]
                /\ iterator' = it
                /\ visited' = visited \cup KeyCopied(it)
      /\ UNCHANGED <<tableVars, cursorVars, loc, seen, stable>>

(* Mutant of NextAdvance: the cursor stays where it was. *)
NextAdvanceStays ==
  /\ pc[Scanner] = "advance"
  /\ iterator' = NULL
  /\ mutexs' = [mutexs EXCEPT ![next_current_bin] = NULL]
  /\ Goto(Scanner, "idle")
  /\ UNCHANGED <<tableVars, cursorVars, loc, seen, visited, stable>>

(* next() puts the cursor on the entry it returns and unlocks the bin. *)
NextAdvance ==
  /\ pc[Scanner] = "advance"
  /\ next_last_visit_entry' = iterator
  /\ iterator' = NULL
  /\ mutexs' = [mutexs EXCEPT ![next_current_bin] = NULL]
  /\ Goto(Scanner, "idle")
  /\ UNCHANGED <<tableVars, next_current_bin, loc, seen, visited, stable>>

(* next() goes on to the following bin and returns its first entry, if any. *)
NextBin ==
  LET b == next_current_bin + 1
  IN  /\ pc[Scanner] = "walk"
      /\ b < Size
      /\ mutexs[b] = NULL
      /\ next_current_bin' = b
      /\ IF table[b] = <<>>
         THEN UNCHANGED <<pc, next_last_visit_entry, visited>>
         ELSE /\ next_last_visit_entry' = table[b][1]
              /\ visited' = visited \cup {KeyAt(table[b][1])}
              /\ Goto(Scanner, "idle")
      /\ UNCHANGED <<tableVars, mutexs, loc, iterator, seen, stable>>

(* Mutants of NextEnd: the bin is not reset; the last bin is left out. *)
NextEndNoReset ==
  /\ pc[Scanner] = "walk"
  /\ next_current_bin + 1 >= Size
  /\ next_current_bin' = next_current_bin + 1
  /\ next_last_visit_entry' = NULL
  /\ Goto(Scanner, "idle")
  /\ UNCHANGED <<tableVars, mutexs, loc, seen, scanVars>>
NextEndEarly ==
  /\ pc[Scanner] = "walk"
  /\ next_current_bin + 1 >= Size - 1
  /\ next_current_bin' = -1
  /\ next_last_visit_entry' = NULL
  /\ Goto(Scanner, "idle")
  /\ UNCHANGED <<tableVars, mutexs, loc, seen, scanVars>>

(* next() has passed the last bin: reset the iteration and return -1. *)
NextEnd ==
  /\ pc[Scanner] = "walk"
  /\ next_current_bin + 1 >= Size
  /\ next_current_bin' = -1
  /\ next_last_visit_entry' = NULL
  /\ Goto(Scanner, "idle")
  /\ UNCHANGED <<tableVars, mutexs, loc, seen, scanVars>>
-----------------------------------------------------------------------------
Get(w) ==
  \/ "get" \in Ops /\ \E k \in Key : GetLookup(w, k)
  \/ GetReturn(w)
  \/ GetDone(w)

SetStep(w) == "set" \in Ops /\ \E k \in Key, v \in Value : Set(w, k, v)

Del(w) ==
  \/ "del" \in Ops /\ \E k \in Key : DelUnlink(w, k)
  \/ DelFree(w)

Scan == NextStart \/ NextInBin \/ NextAdvance \/ NextBin \/ NextEnd

Next == Scan \/ \E w \in Writers : Get(w) \/ SetStep(w) \/ Del(w)

Spec == Init /\ [][Next]_vars

(* The iterating thread keeps calling next() and gets every mutex that is  *)
(* free again and again; a writer inside del() finishes it.                *)
FairSpec ==
  /\ Spec
  /\ SF_vars(NextInBin) /\ SF_vars(NextBin)
  /\ WF_vars(NextStart) /\ WF_vars(NextAdvance) /\ WF_vars(NextEnd)
  /\ \A w \in Writers : WF_vars(DelFree(w))
-----------------------------------------------------------------------------
Call == [key : Key \cup {NULL}, pair : Pointer, succ : Pointer, hit : BOOLEAN,
         ret : Value \cup {Absent, Garbage, NULL}]

TypeOK ==
  /\ table \in [Bins -> Seq(Addr)]
  /\ heap \in [Addr -> Entry \cup {NULL}]
  /\ mutexs \in [Bins -> Threads \cup {NULL}]
  /\ next_current_bin \in -1 .. Size - 1
  /\ next_last_visit_entry \in Pointer
  /\ pc \in [Threads -> {"idle", "get", "got", "del", "walk", "advance"}]
  /\ loc \in [Writers -> Call]
  /\ \A w \in Writers : pc[w] \in {"get", "del"} => loc[w].pair \in Addr
  /\ iterator \in Pointer
  /\ seen \in [Writers -> SUBSET (Value \cup {Absent})]
  /\ visited \subseteq Key
  /\ stable \subseteq Key

(* Every chain holds allocated entries of its own bin, in strictly         *)
(* ascending flow_src_compare order: the early stop of every walk down a   *)
(* chain in get, set and del is right only because of this.                *)
ChainsSorted ==
  \A b \in Bins : \A i \in 1 .. Len(table[b]) :
    /\ heap[table[b][i]] # NULL
    /\ HashBin[KeyAt(table[b][i])] = b
    /\ \A j \in 1 .. i - 1 : KeyAt(table[b][j]) < KeyAt(table[b][i])

(* An entry that del() has unlinked is still allocated, is reachable from  *)
(* no bin and belongs to one del() only, so the free() that follows never  *)
(* releases an entry another thread can still find.                        *)
UnlinkedIsPrivate ==
  \A w \in Writers : pc[w] = "del" =>
    /\ heap[loc[w].pair] # NULL
    /\ ~InChain(loc[w].pair)
    /\ \A x \in Writers \ {w} : pc[x] = "del" => loc[x].pair # loc[w].pair

(* get() returns a value that was bound to the flow at some moment between *)
(* its call and its return, -1 only if the flow was absent at one.         *)
GetIsLinearizable == \A w \in Writers : pc[w] = "got" => loc[w].ret \in seen[w]

(* A scan that ends has returned every flow that was in the table during   *)
(* the whole scan.                                                         *)
ScanIsComplete == [][NextEnd => stable \subseteq visited]_vars

(* No scan returns a flow twice: an entry that next() copies out always    *)
(* has a key this scan has not returned before.                            *)
NoFlowReturnedTwice ==
  [][(\/ NextInBin /\ pc'[Scanner] = "advance"
      \/ NextBin /\ pc'[Scanner] = "idle") => visited' # visited]_vars

(* Every scan that starts ends, however many flows are set meanwhile. *)
ScanTerminates == next_current_bin >= 0 ~> next_current_bin = -1

(* The table behaves as a map from flows to values: no step of any thread  *)
(* changes the binding of two flows.                                       *)
Map == INSTANCE FlowMap WITH map <- AbsMap
ImplementsMap == Map!Spec

(* set(k, v) binds k to v, del(k) unbinds k and the walk of get(k) finds   *)
(* what k is bound to: the early stop of the walk never misses a flow that *)
(* is in the table nor takes another flow's entry for it.                  *)
CallsActOnTheirFlow ==
  [][\A w \in Writers, k \in Key :
       /\ \A v \in Value : Set(w, k, v) => Map!Bind(k, v)
       /\ DelUnlink(w, k) => Map!Unbind(k)
       /\ GetLookup(w, k) /\ pc'[w] = "got" => loc'[w].ret = AbsMap[k]]_vars
=============================================================================
