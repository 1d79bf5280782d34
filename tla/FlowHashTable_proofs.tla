----------------------- MODULE FlowHashTable_proofs ------------------------
(***************************************************************************)
(* Machine-checked proofs about FlowHashTable: first the shape of the      *)
(* chains, then that the table implements FlowMap, then get, then the      *)
(* iteration.                                                              *)
(***************************************************************************)
EXTENDS FlowHashTable, SeqLemmas
-----------------------------------------------------------------------------
(***************************************************************************)
(* The inductive invariant.  Sortedness is not preserved by del alone      *)
(* unless the entry between unlink and free is known to be out of every    *)
(* chain, so the two go together.                                          *)
(***************************************************************************)
IInv == TypeOK /\ ChainsSorted /\ UnlinkedIsPrivate

(* A cell that is allocated holds an entry. *)
LEMMA EntryAt ==
  ASSUME TypeOK, NEW a \in Addr, heap[a] # NULL
  PROVE  /\ heap[a] \in Entry
         /\ KeyAt(a) \in Key /\ KeyAt(a) \in Int /\ ValueAt(a) \in Value
<1>1. heap[a] \in Entry
  BY DEF TypeOK
<1> QED
  BY <1>1, KeyAssumption DEF Entry, KeyAt, ValueAt

(* Every position of a chain holds an allocated entry of that bin. *)
LEMMA ChainEntry ==
  ASSUME TypeOK, ChainsSorted, NEW b \in Bins, NEW i \in 1 .. Len(table[b])
  PROVE  /\ table[b] \in Seq(Addr) /\ Len(table[b]) \in Nat
         /\ table[b][i] \in Addr /\ heap[table[b][i]] # NULL
         /\ heap[table[b][i]] \in Entry
         /\ KeyAt(table[b][i]) \in Key /\ KeyAt(table[b][i]) \in Int
         /\ ValueAt(table[b][i]) \in Value
         /\ HashBin[KeyAt(table[b][i])] = b
<1>1. table[b] \in Seq(Addr)
  BY DEF TypeOK
<1>2. table[b][i] \in Addr
  BY <1>1
<1>3. heap[table[b][i]] # NULL /\ HashBin[KeyAt(table[b][i])] = b
  BY DEF ChainsSorted
<1> QED
  BY <1>1, <1>2, <1>3, EntryAt

(* The walk down a sorted or unsorted chain always stops somewhere, with   *)
(* only smaller keys before the place where it stops.                      *)
LEMMA WalkStops ==
  ASSUME TypeOK, ChainsSorted, NEW b \in Bins, NEW k \in Key
  PROVE  /\ WalkTo(table[b], k) \in 1 .. Len(table[b]) + 1
         /\ \A j \in 1 .. WalkTo(table[b], k) - 1 : KeyAt(table[b][j]) < k
         /\ WalkTo(table[b], k) <= Len(table[b]) =>
              KeyAt(table[b][WalkTo(table[b], k)]) >= k
<1> DEFINE n == Len(table[b])
           Stop(i) == i <= n => KeyAt(table[b][i]) >= k
           T == {i \in 1 .. n + 1 : Stop(i)}
<1>1. n \in Nat
  BY DEF TypeOK
<1>2. n + 1 \in T /\ T \in SUBSET Nat
  BY <1>1
<1>3. PICK m \in T : \A j \in T : m <= j
  BY <1>2, LeastNat
<1>4. ASSUME NEW j \in 1 .. m - 1
      PROVE  KeyAt(table[b][j]) < k
  <2>1. j \in 1 .. n /\ j \notin T
    BY <1>1, <1>3
  <2>2. ~ (KeyAt(table[b][j]) >= k)
    BY <2>1, <1>1
  <2>3. KeyAt(table[b][j]) \in Int /\ k \in Int
    BY <2>1, ChainEntry, KeyAssumption
  <2> QED
    BY <2>2, <2>3
<1>5. /\ m \in 1 .. n + 1
      /\ m <= n => KeyAt(table[b][m]) >= k
  BY <1>3
<1> QED
  BY <1>4, <1>5 DEF WalkTo

(* Two positions that hold the same cell are the same position. *)
LEMMA CellsDistinct ==
  ASSUME TypeOK, ChainsSorted, NEW b \in Bins, NEW c \in Bins,
         NEW i \in 1 .. Len(table[b]), NEW j \in 1 .. Len(table[c]),
         table[b][i] = table[c][j]
  PROVE  b = c /\ i = j
<1>1. b = c
  BY ChainEntry
<1>2. Len(table[b]) \in Nat /\ KeyAt(table[b][i]) \in Int
  BY ChainEntry
<1>3. ~ (i < j)
  <2> SUFFICES ASSUME i < j PROVE FALSE
    OBVIOUS
  <2>1. i \in 1 .. j - 1
    BY <1>2
  <2>2. KeyAt(table[c][i]) < KeyAt(table[c][j])
    BY <2>1 DEF ChainsSorted
  <2> QED
    BY <2>2, <1>1, <1>2
<1>4. ~ (j < i)
  <2> SUFFICES ASSUME j < i PROVE FALSE
    OBVIOUS
  <2>1. j \in 1 .. i - 1
    BY <1>2, <1>1
  <2>2. KeyAt(table[b][j]) < KeyAt(table[b][i])
    BY <2>1 DEF ChainsSorted
  <2> QED
    BY <2>2, <1>1, <1>2
<1> QED
  BY <1>1, <1>2, <1>3, <1>4

(* The map the table stands for is a map. *)
LEMMA AbsMapType ==
  ASSUME TypeOK, ChainsSorted, NEW k \in Key
  PROVE  AbsMap[k] \in Value \cup {Absent}
<1> DEFINE chain == table[HashBin[k]]
           P(i) == KeyAt(chain[i]) = k
<1>1. HashBin[k] \in Bins
  BY HashAssumption
<1>2. CASE \E i \in 1 .. Len(chain) : P(i)
  <2> DEFINE c == CHOOSE i \in 1 .. Len(chain) : P(i)
  <2>1. c \in 1 .. Len(chain)
    BY <1>2
  <2>2. ValueAt(chain[c]) \in Value
    BY <1>1, <2>1, ChainEntry
  <2>3. AbsMap[k] = ValueAt(chain[c])
    BY <1>2 DEF AbsMap
  <2> QED
    BY <2>2, <2>3
<1>3. CASE ~ \E i \in 1 .. Len(chain) : P(i)
  BY <1>3 DEF AbsMap
<1> QED
  BY <1>2, <1>3
-----------------------------------------------------------------------------
(* A step that leaves the chains, the cells and the writers' calls alone   *)
(* preserves the parts of the invariant that are about them.               *)
LEMMA Untouched ==
  ASSUME ChainsSorted, UnlinkedIsPrivate, UNCHANGED <<table, heap>>,
         \A w \in Writers : pc'[w] = "del" =>
                             pc[w] = "del" /\ loc'[w].pair = loc[w].pair
  PROVE  ChainsSorted' /\ UnlinkedIsPrivate'
<1>1. ChainsSorted'
  BY DEF ChainsSorted, KeyAt
<1>2. UnlinkedIsPrivate'
  BY DEF UnlinkedIsPrivate, InChain
<1> QED
  BY <1>1, <1>2

LEMMA GetLookupInv ==
  ASSUME IInv, NEW w \in Writers, NEW k \in Key, GetLookup(w, k)
  PROVE  IInv'
<1> USE DEF IInv
<1> DEFINE chain == table[HashBin[k]]
           i == WalkTo(chain, k)
<1>1. HashBin[k] \in Bins
  BY HashAssumption
<1>2. i \in 1 .. Len(chain) + 1 /\ Len(chain) \in Nat
  BY <1>1, WalkStops DEF TypeOK
<1>3. ASSUME FoundAt(chain, i, k)
      PROVE  chain[i] \in Addr /\ ValueAt(chain[i]) \in Value
  <2>1. i \in 1 .. Len(chain)
    BY <1>2, <1>3 DEF FoundAt
  <2> QED
    BY <1>1, <2>1, ChainEntry
<1>4. AbsMap[k] \in Value \cup {Absent}
  BY AbsMapType
<1> HIDE DEF i, chain
<1>5. loc' \in [Writers -> Call]
  <2>1. loc[w] \in Call
    BY DEF TypeOK
  <2>2. CASE FoundAt(chain, i, k) /\ ReadsLate
    <3>1. loc' = [loc EXCEPT ![w] = Locals(k, chain[i], NULL, FALSE, NULL)]
      BY <2>2 DEF GetLookup, chain, i
    <3>2. Locals(k, chain[i], NULL, FALSE, NULL) \in Call
      BY <2>2, <1>3 DEF Locals, Call, Pointer
    <3> QED
      BY <3>1, <3>2 DEF TypeOK
  <2>3. CASE ~ (FoundAt(chain, i, k) /\ ReadsLate)
    <3> DEFINE r == IF FoundAt(chain, i, k) THEN ValueAt(chain[i]) ELSE Absent
    <3>1. loc' = [loc EXCEPT ![w] = Locals(k, NULL, NULL, FALSE, r)]
      BY <2>3 DEF GetLookup, chain, i
    <3>2. r \in Value \cup {Absent}
      BY <1>3
    <3> HIDE DEF r
    <3>3. Locals(k, NULL, NULL, FALSE, r) \in Call
      BY <3>2 DEF Locals, Call, Pointer
    <3> QED
      BY <3>1, <3>3 DEF TypeOK
  <2> QED
    BY <2>2, <2>3
<1>5a. pc' = [pc EXCEPT ![w] = "get"] \/ pc' = [pc EXCEPT ![w] = "got"]
  BY DEF GetLookup, Goto
<1>6. pc' \in [Threads -> {"idle", "get", "got", "del", "walk", "advance"}]
  BY <1>5a DEF TypeOK, Threads
<1>7. seen' \in [Writers -> SUBSET (Value \cup {Absent})]
  BY <1>4 DEF GetLookup, TypeOK
<1>8. \A x \in Writers : pc'[x] \in {"get", "del"} => loc'[x].pair \in Addr
  <2>1. CASE FoundAt(chain, i, k) /\ ReadsLate
    <3>1. loc' = [loc EXCEPT ![w] = Locals(k, chain[i], NULL, FALSE, NULL)]
      BY <2>1 DEF GetLookup, chain, i
    <3> QED
      BY <2>1, <3>1, <1>3, <1>5a DEF TypeOK, Threads, Locals
  <2>2. CASE ~ (FoundAt(chain, i, k) /\ ReadsLate)
    <3>1. /\ pc' = [pc EXCEPT ![w] = "got"]
          /\ \A x \in Writers \ {w} : loc'[x] = loc[x]
      BY <2>2 DEF GetLookup, Goto, chain, i, TypeOK
    <3> QED
      BY <3>1 DEF TypeOK, Threads
  <2> QED
    BY <2>1, <2>2
<1>8a. TypeOK'
  BY <1>5, <1>6, <1>7, <1>8
  DEF GetLookup, TypeOK, tableVars, cursorVars, scanVars
<1>9. \A x \in Writers : pc'[x] = "del" =>
                           pc[x] = "del" /\ loc'[x].pair = loc[x].pair
  BY <1>5a DEF GetLookup, TypeOK, Threads
<1>10. UNCHANGED <<table, heap>>
  BY DEF GetLookup, tableVars
<1> QED
  BY <1>8a, <1>9, <1>10, Untouched

LEMMA GetReturnInv ==
  ASSUME IInv, NEW w \in Writers, GetReturn(w)
  PROVE  IInv'
<1> USE DEF IInv
<1>1. PICK v \in ReadValue(loc[w].pair) :
        loc' = [loc EXCEPT ![w] = Locals(loc[w].key, loc[w].pair, NULL, FALSE, v)]
  BY DEF GetReturn, TypeOK
<1>2. v \in Value \cup {Garbage}
  <2>1. loc[w].pair \in Addr
    BY DEF GetReturn, TypeOK
  <2>2. CASE heap[loc[w].pair] = NULL
    BY <1>1, <2>2 DEF ReadValue
  <2>3. CASE heap[loc[w].pair] # NULL
    BY <1>1, <2>1, <2>3, EntryAt DEF ReadValue
  <2> QED
    BY <2>2, <2>3
<1>3. loc' \in [Writers -> Call]
  <2>1. Locals(loc[w].key, loc[w].pair, NULL, FALSE, v) \in Call
    BY <1>2 DEF TypeOK, Locals, Call, Pointer
  <2> QED
    BY <1>1, <2>1 DEF TypeOK
<1>4. pc' = [pc EXCEPT ![w] = "got"]
  BY DEF GetReturn, Goto
<1>5. \A x \in Writers : pc'[x] \in {"get", "del"} =>
                           pc'[x] = pc[x] /\ loc'[x].pair = loc[x].pair
  BY <1>1, <1>4 DEF TypeOK, Threads
<1>6. TypeOK'
  BY <1>3, <1>4, <1>5 DEF GetReturn, TypeOK, Threads, tableVars, cursorVars, scanVars
<1> QED
  BY <1>5, <1>6, Untouched DEF GetReturn, tableVars

LEMMA GetDoneInv ==
  ASSUME IInv, NEW w \in Writers, GetDone(w)
  PROVE  IInv'
<1> USE DEF IInv
<1>1. pc' = [pc EXCEPT ![w] = "idle"] /\ loc' = [loc EXCEPT ![w] = NoCall]
  BY DEF GetDone, Goto
<1>2. NoCall \in Call
  BY DEF NoCall, Locals, Call, Pointer
<1>3. \A x \in Writers : pc'[x] \in {"get", "del"} =>
                           pc'[x] = pc[x] /\ loc'[x].pair = loc[x].pair
  BY <1>1 DEF TypeOK, Threads
<1>4. TypeOK'
  BY <1>1, <1>2, <1>3 DEF GetDone, TypeOK, Threads, tableVars, cursorVars, scanVars
<1> QED
  BY <1>3, <1>4, Untouched DEF GetDone, tableVars

LEMMA SetInv ==
  ASSUME IInv, NEW w \in Writers, NEW k \in Key, NEW v \in Value, Set(w, k, v)
  PROVE  IInv'
<1> USE DEF IInv
<1> DEFINE b == HashBin[k]
           s == table[b]
           i == WalkTo(s, k)
<1>1. b \in Bins /\ s \in Seq(Addr) /\ Len(s) \in Nat /\ k \in Int
  BY HashAssumption, KeyAssumption DEF TypeOK
<1>2. /\ i \in 1 .. Len(s) + 1
      /\ \A j \in 1 .. i - 1 : KeyAt(s[j]) < k
      /\ i <= Len(s) => KeyAt(s[i]) >= k
  BY <1>1, WalkStops
<1>3. seen' \in [Writers -> SUBSET (Value \cup {Absent})]
  BY DEF Set, SeenBy, TypeOK
<1>4. UNCHANGED <<mutexs, next_current_bin, next_last_visit_entry, pc, loc,
                  iterator, visited, stable>>
  BY DEF Set, cursorVars, scanVars
<1>5. CASE FoundAt(s, i, k)
  <2>1. i \in 1 .. Len(s)
    BY <1>1, <1>2, <1>5 DEF FoundAt
  <2>2. s[i] \in Addr /\ heap[s[i]] \in Entry
    BY <1>1, <2>1, ChainEntry
  <2>3. heap' = [heap EXCEPT ![s[i]] = [heap[s[i]] EXCEPT !.value = v]]
        /\ table' = table
    BY <1>5 DEF Set, Replace
  <2>4. /\ [heap[s[i]] EXCEPT !.value = v] \in Entry
        /\ [heap[s[i]] EXCEPT !.value = v].key = heap[s[i]].key
    BY <2>2 DEF Entry
  <2> HIDE DEF s, i
  <2>5. heap' \in [Addr -> Entry \cup {NULL}]
    BY <2>3, <2>4 DEF TypeOK
  <2>6. \A a \in Addr : /\ heap[a] # NULL => heap'[a] # NULL
                         /\ heap'[a].key = heap[a].key
    BY <2>2, <2>3, <2>4, NullAssumption DEF TypeOK, Entry
  <2>7. TypeOK'
    BY <1>3, <1>4, <2>3, <2>5 DEF TypeOK
  <2>8. ChainsSorted'
    <3> SUFFICES ASSUME NEW c \in Bins, NEW m \in 1 .. Len(table[c])
                 PROVE  /\ heap'[table[c][m]] # NULL
                        /\ HashBin[heap'[table[c][m]].key] = c
                        /\ \A j \in 1 .. m - 1 :
                             heap'[table[c][j]].key < heap'[table[c][m]].key
      BY <2>3 DEF ChainsSorted, KeyAt
    <3>1. \A j \in 1 .. m : j \in 1 .. Len(table[c])
      BY DEF TypeOK
    <3>2. \A j \in 1 .. m : /\ table[c][j] \in Addr
                             /\ heap'[table[c][j]].key = heap[table[c][j]].key
      BY <3>1, <2>6, ChainEntry
    <3>3. /\ heap[table[c][m]] # NULL
          /\ HashBin[heap[table[c][m]].key] = c
          /\ \A j \in 1 .. m - 1 : heap[table[c][j]].key < heap[table[c][m]].key
      BY DEF ChainsSorted, KeyAt
    <3>4. m \in 1 .. m /\ \A j \in 1 .. m - 1 : j \in 1 .. m
      BY DEF TypeOK
    <3> QED
      BY <3>2, <3>3, <3>4, <2>6
  <2>9. UnlinkedIsPrivate'
    BY <1>4, <2>3, <2>6 DEF UnlinkedIsPrivate, InChain, TypeOK
  <2> QED
    BY <2>7, <2>8, <2>9
<1>6. CASE ~ FoundAt(s, i, k)
  <2>1. PICK a \in Addr :
          /\ heap[a] = NULL
          /\ heap' = [heap EXCEPT ![a] = [key |-> k, value |-> v]]
          /\ table' = [table EXCEPT ![b] = InsertAt(s, i, a)]
    BY <1>6 DEF Set
  <2> DEFINE t == InsertAt(s, i, a)
  <2>2. /\ t \in Seq(Addr) /\ Len(t) = Len(s) + 1
        /\ \A j \in 1 .. Len(s) + 1 :
             t[j] = IF j < i THEN s[j] ELSE IF j = i THEN a ELSE s[j - 1]
    <3> HIDE DEF s, i
    <3>1. a \in Addr /\ s \in Seq(Addr) /\ i \in 1 .. Len(s) + 1
      BY <1>1, <1>2
    <3>2. t \in Seq(Addr)
      BY ONLY <3>1, InsertAtProperties
    <3>3. Len(t) = Len(s) + 1
      BY ONLY <3>1, InsertAtProperties
    <3>4. \A j \in 1 .. Len(s) + 1 :
            t[j] = IF j < i THEN s[j] ELSE IF j = i THEN a ELSE s[j - 1]
      BY ONLY <3>1, InsertAtProperties
    <3> QED
      BY ONLY <3>2, <3>3, <3>4
  <2>3. \A c \in Bins : \A j \in 1 .. Len(table[c]) : table[c][j] # a
    BY <2>1, ChainEntry
  <2>4. /\ heap'[a].key = k /\ heap'[a] # NULL
        /\ \A x \in Addr \ {a} : heap'[x] = heap[x]
    BY <2>1, NullAssumption DEF TypeOK
  <2>5. /\ table'[b] = t
        /\ \A c \in Bins \ {b} : table'[c] = table[c]
    BY <2>1, <1>1 DEF TypeOK
  <2>6. heap' \in [Addr -> Entry \cup {NULL}]
    BY <2>1 DEF TypeOK, Entry
  <2>7. table' \in [Bins -> Seq(Addr)]
    <3>1. table \in [Bins -> Seq(Addr)] /\ t \in Seq(Addr)
      BY <2>2 DEF TypeOK
    <3>2. table' = [table EXCEPT ![b] = t]
      BY <2>1
    <3> HIDE DEF t
    <3> QED
      BY <3>1, <3>2
  <2>8. TypeOK'
    BY <1>3, <1>4, <2>6, <2>7 DEF TypeOK
  <2>9. ~ (i <= Len(s)) \/ KeyAt(s[i]) > k
    <3> SUFFICES ASSUME i <= Len(s) PROVE KeyAt(s[i]) > k
      OBVIOUS
    <3>1. i \in 1 .. Len(s) /\ KeyAt(s[i]) \in Int
      BY <1>1, <1>2, ChainEntry
    <3>2. KeyAt(s[i]) # k
      BY <1>6 DEF FoundAt
    <3> QED
      BY <3>1, <3>2, <1>1, <1>2
  <2> HIDE DEF t
  <2>10. \A j \in 1 .. Len(s) : /\ s[j] \in Addr \ {a} /\ heap[s[j]] # NULL
                                 /\ heap[s[j]].key \in Int
                                 /\ HashBin[heap[s[j]].key] = b
    BY <1>1, <2>3, ChainEntry DEF KeyAt
  <2>11. \A m \in 1 .. Len(s) : \A j \in 1 .. m - 1 :
           heap[s[j]].key < heap[s[m]].key
    BY <1>1 DEF ChainsSorted, KeyAt
  <2> HIDE DEF s, i
  <2>12. \A m \in i .. Len(s) : heap[s[m]].key > k
    <3> SUFFICES ASSUME NEW m \in i .. Len(s) PROVE heap[s[m]].key > k
      OBVIOUS
    <3>1. i \in 1 .. Len(s) /\ m \in 1 .. Len(s) /\ heap[s[i]].key > k
      BY <1>1, <1>2, <2>9 DEF KeyAt
    <3>2. CASE m = i
      BY <3>1, <3>2
    <3>3. CASE m # i
      <4>1. i \in 1 .. m - 1
        BY <3>1, <3>3
      <4>2. heap[s[i]].key < heap[s[m]].key
        BY <4>1, <3>1, <2>11
      <4> QED
        BY <4>2, <3>1, <2>10, <1>1
    <3> QED
      BY <3>2, <3>3
  <2>13. ASSUME NEW m \in 1 .. Len(s) + 1
         PROVE  /\ heap'[t[m]] # NULL
                /\ heap'[t[m]].key = IF m < i THEN heap[s[m]].key
                                     ELSE IF m = i THEN k
                                     ELSE heap[s[m - 1]].key
                /\ HashBin[heap'[t[m]].key] = b
    <3>1. CASE m < i
      <4>1. m \in 1 .. Len(s) /\ t[m] = s[m]
        BY <3>1, <1>1, <1>2, <2>2
      <4> QED
        BY <3>1, <4>1, <2>4, <2>10
    <3>2. CASE m = i
      BY <3>2, <2>2, <2>4
    <3>3. CASE m > i
      <4>1. m - 1 \in 1 .. Len(s) /\ t[m] = s[m - 1]
        BY <3>3, <1>1, <1>2, <2>2
      <4>2. heap'[t[m]] = heap[s[m - 1]] /\ heap[s[m - 1]] # NULL
            /\ HashBin[heap[s[m - 1]].key] = b
        BY <4>1, <2>4, <2>10
      <4> QED
        BY <3>3, <4>2, <1>2
    <3> QED
      BY <3>1, <3>2, <3>3, <1>2
  <2>14. ASSUME NEW m \in 1 .. Len(s) + 1, NEW j \in 1 .. m - 1
         PROVE  heap'[t[j]].key < heap'[t[m]].key
    <3>1. j \in 1 .. Len(s) + 1 /\ j \in 1 .. Len(s) /\ j < m
      BY <1>1
    <3> DEFINE K(n) == IF n < i THEN heap[s[n]].key
                       ELSE IF n = i THEN k ELSE heap[s[n - 1]].key
    <3>2. heap'[t[j]].key = K(j) /\ heap'[t[m]].key = K(m)
      <4>1. \A n \in 1 .. Len(s) + 1 : heap'[t[n]].key = K(n)
        BY <2>13
      <4> QED
        BY <3>1, <4>1
    <3>3. K(j) < K(m)
      <4>1. CASE m < i
        BY <4>1, <3>1, <1>1, <1>2, <2>11
      <4>2. CASE m = i
        BY <4>2, <3>1, <1>2 DEF KeyAt
      <4>3. CASE m > i /\ j < i
        <5>1. m - 1 \in 1 .. Len(s) /\ m - 1 \in i .. Len(s) /\ j \in 1 .. i - 1
          BY <4>3, <1>1, <1>2, <3>1
        <5>2. heap[s[j]].key < k
          BY <5>1, <1>2 DEF KeyAt
        <5>5. heap[s[m - 1]].key > k
          BY <5>1, <2>12
        <5>3. K(j) = heap[s[j]].key /\ K(m) = heap[s[m - 1]].key
          BY <4>3, <1>2
        <5>4. heap[s[j]].key \in Int /\ heap[s[m - 1]].key \in Int
          BY <5>1, <3>1, <2>10
        <5> QED
          BY <5>2, <5>3, <5>4, <5>5, <1>1
      <4>4. CASE m > i /\ j = i
        <5>1. m - 1 \in i .. Len(s)
          BY <4>4, <1>1, <1>2
        <5>2. k < heap[s[m - 1]].key
          BY <5>1, <2>12, <2>10, <1>1, <1>2
        <5> QED
          BY <5>2, <4>4, <1>2
      <4>5. CASE m > i /\ j > i
        <5>1. m - 1 \in 1 .. Len(s) /\ j - 1 \in 1 .. (m - 1) - 1
          BY <4>5, <3>1, <1>1, <1>2
        <5>2. heap[s[j - 1]].key < heap[s[m - 1]].key
          BY <5>1, <2>11
        <5>3. K(j) = heap[s[j - 1]].key /\ K(m) = heap[s[m - 1]].key
          BY <4>5, <1>2, <3>1
        <5> QED
          BY <5>2, <5>3
      <4> QED
        BY <4>1, <4>2, <4>3, <4>4, <4>5, <1>2, <3>1
    <3> QED
      BY <3>2, <3>3
  <2>15. ChainsSorted'
    <3> SUFFICES ASSUME NEW c \in Bins, NEW m \in 1 .. Len(table'[c])
                 PROVE  /\ heap'[table'[c][m]] # NULL
                        /\ HashBin[heap'[table'[c][m]].key] = c
                        /\ \A j \in 1 .. m - 1 :
                             heap'[table'[c][j]].key < heap'[table'[c][m]].key
      BY DEF ChainsSorted, KeyAt
    <3>1. CASE c = b
      BY <3>1, <2>2, <2>5, <2>13, <2>14
    <3>2. CASE c # b
      <4>1. table'[c] = table[c] /\ Len(table[c]) \in Nat
        BY <3>2, <2>5 DEF TypeOK
      <4>2. \A j \in 1 .. Len(table[c]) : heap'[table[c][j]] = heap[table[c][j]]
        BY <2>3, <2>4, ChainEntry
      <4>3. m \in 1 .. Len(table[c]) /\ \A j \in 1 .. m - 1 : j \in 1 .. Len(table[c])
        BY <4>1
      <4> QED
        BY <4>1, <4>2, <4>3 DEF ChainsSorted, KeyAt
    <3> QED
      BY <3>1, <3>2
  <2>16. UnlinkedIsPrivate'
    <3> SUFFICES ASSUME NEW x \in Writers, pc[x] = "del"
                 PROVE  /\ heap'[loc[x].pair] # NULL
                        /\ ~ InChain(loc[x].pair)'
                        /\ \A y \in Writers \ {x} :
                             pc[y] = "del" => loc[y].pair # loc[x].pair
      BY <1>4 DEF UnlinkedIsPrivate, InChain
    <3>1. /\ loc[x].pair \in Addr \ {a} /\ heap[loc[x].pair] # NULL
          /\ ~ InChain(loc[x].pair)
      BY <2>1 DEF UnlinkedIsPrivate, TypeOK
    <3>2. ASSUME NEW c \in Bins, NEW m \in 1 .. Len(table'[c])
          PROVE  table'[c][m] # loc[x].pair
      <4>1. CASE c = b
        <5>1. m \in 1 .. Len(s) + 1 /\ table'[c][m] = t[m]
          BY <4>1, <2>2, <2>5
        <5>2. CASE m = i
          BY <5>1, <5>2, <2>2, <3>1
        <5>3. CASE m < i
          <6>1. m \in 1 .. Len(s) /\ t[m] = s[m]
            BY <5>1, <5>3, <2>2, <1>1, <1>2
          <6> QED
            BY <5>1, <6>1, <3>1, <1>1 DEF InChain, s
        <5>4. CASE m > i
          <6>1. m - 1 \in 1 .. Len(s) /\ t[m] = s[m - 1]
            BY <5>1, <5>4, <2>2, <1>1, <1>2
          <6> QED
            BY <5>1, <6>1, <3>1, <1>1 DEF InChain, s
        <5> QED
          BY <5>1, <5>2, <5>3, <5>4, <1>2
      <4>2. CASE c # b
        BY <4>2, <2>5, <3>1 DEF InChain
      <4> QED
        BY <4>1, <4>2
    <3>3. ~ InChain(loc[x].pair)'
      BY <3>2, <1>4 DEF InChain
    <3>4. heap'[loc[x].pair] # NULL
      BY <3>1, <2>4
    <3> QED
      BY <3>3, <3>4 DEF UnlinkedIsPrivate
  <2> QED
    BY <2>8, <2>15, <2>16
<1> QED
  BY <1>5, <1>6

LEMMA DelUnlinkInv ==
  ASSUME IInv, NEW w \in Writers, NEW k \in Key, DelUnlink(w, k)
  PROVE  IInv'
<1> USE DEF IInv
<1> DEFINE b == HashBin[k]
           s == table[b]
           i == WalkTo(s, k)
           c == s[i]
           t == RemoveAt(s, i)
           call == Locals(k, c, NextInChain(s, i), c = next_last_visit_entry, NULL)
<1>1. b \in Bins /\ s \in Seq(Addr) /\ Len(s) \in Nat
  BY HashAssumption DEF TypeOK
<1>2. i \in 1 .. Len(s)
  <2>1. i \in 1 .. Len(s) + 1 /\ i <= Len(s)
    BY <1>1, WalkStops DEF DelUnlink, FoundAt
  <2> QED
    BY <1>1, <2>1
<1>3. c \in Addr /\ heap[c] # NULL
  BY <1>1, <1>2, ChainEntry
<1>4. /\ t \in Seq(Addr) /\ Len(t) = Len(s) - 1
      /\ \A j \in 1 .. Len(s) - 1 : t[j] = IF j < i THEN s[j] ELSE s[j + 1]
  BY <1>1, <1>2, RemoveAtProperties
<1>5. /\ table' = [table EXCEPT ![b] = t]
      /\ mutexs' = [mutexs EXCEPT ![b] = w]
      /\ loc' = [loc EXCEPT ![w] = call]
      /\ pc' = [pc EXCEPT ![w] = "del"]
      /\ stable' = stable \ {k}
      /\ seen' = SeenBy(k, Absent)
      /\ UNCHANGED <<heap, next_current_bin, next_last_visit_entry, iterator, visited>>
  BY DEF DelUnlink, Unlink, Goto, cursorVars
<1>6. call \in Call /\ call.pair = c
  <2>1. NextInChain(s, i) \in Pointer
    <3>1. CASE i < Len(s)
      <4>1. i + 1 \in 1 .. Len(s)
        BY <3>1, <1>1, <1>2
      <4> QED
        BY <3>1, <4>1, <1>1, ChainEntry DEF NextInChain, Pointer
    <3>2. CASE ~ (i < Len(s))
      BY <3>2 DEF NextInChain, Pointer
    <3> QED
      BY <3>1, <3>2
  <2> HIDE DEF i, s, c
  <2> QED
    BY <2>1, <1>3 DEF Locals, Call, Pointer
<1> HIDE DEF s, i, c, t, call
<1>7. /\ table'[b] = t
      /\ \A d \in Bins \ {b} : table'[d] = table[d]
  BY <1>1, <1>5 DEF TypeOK
<1>8. /\ loc' \in [Writers -> Call] /\ loc'[w] = call
      /\ \A x \in Writers \ {w} : loc'[x] = loc[x]
  BY <1>5, <1>6 DEF TypeOK
<1>9. /\ pc' \in [Threads -> {"idle", "get", "got", "del", "walk", "advance"}]
      /\ \A x \in Writers \ {w} : pc'[x] = pc[x]
  BY <1>5 DEF TypeOK, Threads
<1>10. TypeOK'
  <2>1. table' \in [Bins -> Seq(Addr)]
    BY <1>1, <1>4, <1>5 DEF TypeOK
  <2>2. mutexs' \in [Bins -> Threads \cup {NULL}]
    BY <1>5 DEF TypeOK, Threads
  <2>3. seen' \in [Writers -> SUBSET (Value \cup {Absent})]
    BY <1>5 DEF SeenBy, TypeOK
  <2>4. \A x \in Writers : pc'[x] \in {"get", "del"} => loc'[x].pair \in Addr
    <3> SUFFICES ASSUME NEW x \in Writers, pc'[x] \in {"get", "del"}
                 PROVE  loc'[x].pair \in Addr
      OBVIOUS
    <3>1. CASE x = w
      BY <3>1, <1>3, <1>6, <1>8
    <3>2. CASE x # w
      BY <3>2, <1>8, <1>9 DEF TypeOK
    <3> QED
      BY <3>1, <3>2
  <2> QED
    BY <1>5, <1>8, <1>9, <2>1, <2>2, <2>3, <2>4 DEF TypeOK
(* Every position of a new chain is a position of the old one, in order. *)
<1>11. ASSUME NEW d \in Bins, NEW m \in 1 .. Len(table'[d])
       PROVE  \E n \in 1 .. Len(table[d]) :
                /\ table'[d][m] = table[d][n] /\ (d = b => n # i)
                /\ \A j \in 1 .. m - 1 :
                     \E l \in 1 .. n - 1 : table'[d][j] = table[d][l]
  <2>1. CASE d # b
    <3>1. table'[d] = table[d] /\ Len(table[d]) \in Nat
      BY <2>1, <1>7 DEF TypeOK
    <3> QED
      BY <2>1, <3>1
  <2>2. CASE d = b
    <3>1. table'[d] = t /\ table[d] = s /\ m \in 1 .. Len(s) - 1
      BY <2>2, <1>4, <1>7 DEF s
    <3>2. CASE m < i
      <4>1. m \in 1 .. Len(s) /\ t[m] = s[m]
        BY <3>1, <3>2, <1>1, <1>2, <1>4
      <4>2. \A j \in 1 .. m - 1 : t[j] = s[j]
        BY <3>1, <3>2, <1>1, <1>2, <1>4
      <4> QED
        BY <3>1, <3>2, <4>1, <4>2
    <3>3. CASE m >= i
      <4>1. m + 1 \in 1 .. Len(s) /\ t[m] = s[m + 1] /\ m + 1 # i
        BY <3>1, <3>3, <1>1, <1>2, <1>4
      <4>2. ASSUME NEW j \in 1 .. m - 1
            PROVE  \E l \in 1 .. (m + 1) - 1 : t[j] = s[l]
        <5>1. j \in 1 .. Len(s) - 1 /\ j \in 1 .. m /\ j + 1 \in 1 .. m
          BY <3>1, <1>1
        <5>2. t[j] = s[j] \/ t[j] = s[j + 1]
          BY <5>1, <1>4
        <5>3. (m + 1) - 1 = m
          BY <3>1
        <5> QED
          BY <5>1, <5>2, <5>3
      <4> QED
        BY <3>1, <4>1, <4>2
    <3>4. m < i \/ m >= i
      BY <3>1, <1>1, <1>2
    <3> QED
      BY <3>2, <3>3, <3>4
  <2> QED
    BY <2>1, <2>2
<1>12. ChainsSorted'
  <2> SUFFICES ASSUME NEW d \in Bins, NEW m \in 1 .. Len(table'[d])
               PROVE  /\ heap[table'[d][m]] # NULL
                      /\ HashBin[KeyAt(table'[d][m])] = d
                      /\ \A j \in 1 .. m - 1 :
                           KeyAt(table'[d][j]) < KeyAt(table'[d][m])
    BY <1>5 DEF ChainsSorted, KeyAt
  <2>1. PICK n \in 1 .. Len(table[d]) :
          /\ table'[d][m] = table[d][n]
          /\ \A j \in 1 .. m - 1 :
               \E l \in 1 .. n - 1 : table'[d][j] = table[d][l]
    BY <1>11
  <2>2. /\ heap[table[d][n]] # NULL /\ HashBin[KeyAt(table[d][n])] = d
        /\ \A l \in 1 .. n - 1 : KeyAt(table[d][l]) < KeyAt(table[d][n])
    BY DEF ChainsSorted
  <2> QED
    BY <2>1, <2>2
<1>13. \A d \in Bins : \A m \in 1 .. Len(table'[d]) : table'[d][m] # c
  <2> SUFFICES ASSUME NEW d \in Bins, NEW m \in 1 .. Len(table'[d]),
                      table'[d][m] = c
               PROVE  FALSE
    OBVIOUS
  <2>1. PICK n \in 1 .. Len(table[d]) : table'[d][m] = table[d][n] /\ (d = b => n # i)
    BY <1>11
  <2>2. table[d][n] = table[b][i]
    BY <2>1 DEF c, s
  <2>3. i \in 1 .. Len(table[b])
    BY <1>2 DEF s
  <2> QED
    BY <2>1, <2>2, <2>3, <1>1, CellsDistinct
<1>14. InChain(c)
  BY <1>1, <1>2 DEF InChain, c, s
<1>15. UnlinkedIsPrivate'
  <2> SUFFICES ASSUME NEW x \in Writers, pc'[x] = "del"
               PROVE  /\ heap[loc'[x].pair] # NULL
                      /\ \A d \in Bins : \A m \in 1 .. Len(table'[d]) :
                           table'[d][m] # loc'[x].pair
                      /\ \A y \in Writers \ {x} :
                           pc'[y] = "del" => loc'[y].pair # loc'[x].pair
    BY <1>5 DEF UnlinkedIsPrivate, InChain
  <2>1. ASSUME NEW y \in Writers \ {w}, pc'[y] = "del"
        PROVE  /\ heap[loc'[y].pair] # NULL
               /\ \A d \in Bins : \A m \in 1 .. Len(table'[d]) :
                    table'[d][m] # loc'[y].pair
               /\ loc'[y].pair # c
    <3>1. pc[y] = "del" /\ loc'[y] = loc[y]
      BY <2>1, <1>8, <1>9
    <3>2. heap[loc[y].pair] # NULL /\ ~ InChain(loc[y].pair)
      BY <3>1 DEF UnlinkedIsPrivate
    <3>3. ASSUME NEW d \in Bins, NEW m \in 1 .. Len(table'[d])
          PROVE  table'[d][m] # loc[y].pair
      <4>1. PICK n \in 1 .. Len(table[d]) : table'[d][m] = table[d][n]
        BY <1>11
      <4> QED
        BY <4>1, <3>2 DEF InChain
    <3> QED
      BY <3>1, <3>2, <3>3, <1>14
  <2>2. CASE x = w
    BY <2>2, <2>1, <1>3, <1>6, <1>8, <1>13
  <2>3. CASE x # w
    <3>1. ASSUME NEW y \in Writers \ {x}, pc'[y] = "del"
          PROVE  loc'[y].pair # loc'[x].pair
      <4>1. CASE y = w
        BY <4>1, <2>1, <2>3, <1>6, <1>8
      <4>2. CASE y # w
        <5>1. pc[x] = "del" /\ pc[y] = "del"
              /\ loc'[x] = loc[x] /\ loc'[y] = loc[y]
          BY <4>2, <2>3, <3>1, <1>8, <1>9
        <5> QED
          BY <5>1 DEF UnlinkedIsPrivate
      <4> QED
        BY <4>1, <4>2
    <3> QED
      BY <2>1, <2>3, <3>1
  <2> QED
    BY <2>2, <2>3
<1> QED
  BY <1>10, <1>12, <1>15

LEMMA DelFreeInv ==
  ASSUME IInv, NEW w \in Writers, DelFree(w)
  PROVE  IInv'
<1> USE DEF IInv
<1> DEFINE c == loc[w].pair
<1>1. /\ pc[w] = "del" /\ c \in Addr /\ heap[c] # NULL /\ ~ InChain(c)
      /\ loc[w].succ \in Pointer
  BY DEF DelFree, UnlinkedIsPrivate, TypeOK, Call
<1>2. /\ heap' = [heap EXCEPT ![c] = NULL]
      /\ mutexs' = [mutexs EXCEPT ![HashBin[loc[w].key]] = NULL]
      /\ loc' = [loc EXCEPT ![w] = NoCall]
      /\ pc' = [pc EXCEPT ![w] = "idle"]
      /\ next_last_visit_entry' = IF loc[w].hit THEN loc[w].succ
                                  ELSE next_last_visit_entry
      /\ UNCHANGED <<table, next_current_bin, iterator, visited, stable, seen>>
  BY DEF DelFree, Goto, scanVars
<1>3. NoCall \in Call
  BY DEF NoCall, Locals, Call, Pointer
<1> HIDE DEF c
<1>4. /\ heap'[c] = NULL
      /\ \A a \in Addr \ {c} : heap'[a] = heap[a]
  BY <1>1, <1>2 DEF TypeOK
<1>5. \A x \in Writers : pc'[x] \in {"get", "del"} =>
                          x # w /\ pc'[x] = pc[x] /\ loc'[x] = loc[x]
  BY <1>2 DEF TypeOK, Threads
<1>6. TypeOK'
  <2>1. heap' \in [Addr -> Entry \cup {NULL}]
    BY <1>2 DEF TypeOK
  <2>2. mutexs' \in [Bins -> Threads \cup {NULL}]
    BY <1>2 DEF TypeOK
  <2>3. loc' \in [Writers -> Call]
    BY <1>2, <1>3 DEF TypeOK
  <2>4. pc' \in [Threads -> {"idle", "get", "got", "del", "walk", "advance"}]
    BY <1>2 DEF TypeOK
  <2>5. next_last_visit_entry' \in Pointer
    BY <1>1, <1>2 DEF TypeOK
  <2>6. \A x \in Writers : pc'[x] \in {"get", "del"} => loc'[x].pair \in Addr
    BY <1>5 DEF TypeOK
  <2> QED
    BY <1>2, <2>1, <2>2, <2>3, <2>4, <2>5, <2>6 DEF TypeOK
<1>7. \A b \in Bins : \A i \in 1 .. Len(table[b]) :
        table[b][i] # c /\ heap'[table[b][i]] = heap[table[b][i]]
  BY <1>1, <1>4, ChainEntry DEF InChain
<1>8. ChainsSorted'
  <2> SUFFICES ASSUME NEW b \in Bins, NEW i \in 1 .. Len(table[b])
               PROVE  /\ heap'[table[b][i]] # NULL
                      /\ HashBin[heap'[table[b][i]].key] = b
                      /\ \A j \in 1 .. i - 1 :
                           heap'[table[b][j]].key < heap'[table[b][i]].key
    BY <1>2 DEF ChainsSorted, KeyAt
  <2>1. \A j \in 1 .. i - 1 : j \in 1 .. Len(table[b])
    BY DEF TypeOK
  <2> QED
    BY <2>1, <1>7 DEF ChainsSorted, KeyAt
<1>9. UnlinkedIsPrivate'
  <2> SUFFICES ASSUME NEW x \in Writers, pc'[x] = "del"
               PROVE  /\ heap'[loc'[x].pair] # NULL
                      /\ \A d \in Bins : \A m \in 1 .. Len(table[d]) :
                           table[d][m] # loc'[x].pair
                      /\ \A y \in Writers \ {x} :
                           pc'[y] = "del" => loc'[y].pair # loc'[x].pair
    BY <1>2 DEF UnlinkedIsPrivate, InChain
  <2>1. x # w /\ pc[x] = "del" /\ loc'[x] = loc[x]
    BY <1>5
  <2>2. loc[x].pair # c /\ loc[x].pair \in Addr
    BY <1>1, <2>1 DEF UnlinkedIsPrivate, TypeOK, c
  <2>3. \A y \in Writers \ {x} : pc'[y] = "del" => loc'[y].pair # loc'[x].pair
    BY <1>5, <2>1 DEF UnlinkedIsPrivate
  <2> QED
    BY <2>1, <2>2, <2>3, <1>4 DEF UnlinkedIsPrivate, InChain
<1> QED
  BY <1>6, <1>8, <1>9

(* The iterating thread changes no chain, no cell and no writer's call. *)
LEMMA ScanInv ==
  ASSUME IInv, Scan
  PROVE  IInv'
<1> USE DEF IInv
<1>1. /\ UNCHANGED <<table, heap, loc, seen>>
      /\ pc' \in [Threads -> {"idle", "get", "got", "del", "walk", "advance"}]
      /\ \A x \in Writers : pc'[x] = pc[x]
  <2>1. \A q \in {"idle", "walk", "advance"} :
          /\ [pc EXCEPT ![Scanner] = q] \in
               [Threads -> {"idle", "get", "got", "del", "walk", "advance"}]
          /\ \A x \in Writers : [pc EXCEPT ![Scanner] = q][x] = pc[x]
    BY NullAssumption DEF TypeOK, Threads
  <2>2. CASE NextStart
    BY <2>1, <2>2 DEF NextStart, Goto, tableVars
  <2>3. CASE NextInBin
    BY <2>1, <2>3 DEF NextInBin, Goto, tableVars
  <2>4. CASE NextAdvance
    BY <2>1, <2>4 DEF NextAdvance, Goto, tableVars
  <2>5. CASE NextBin
    BY <2>1, <2>5 DEF NextBin, Goto, tableVars, TypeOK
  <2>6. CASE NextEnd
    BY <2>1, <2>6 DEF NextEnd, Goto, tableVars
  <2> QED
    BY <2>2, <2>3, <2>4, <2>5, <2>6 DEF Scan
<1>2. /\ mutexs' \in [Bins -> Threads \cup {NULL}]
      /\ next_current_bin' \in -1 .. Size - 1
      /\ next_last_visit_entry' \in Pointer
      /\ iterator' \in Pointer
      /\ visited' \subseteq Key
      /\ stable' \subseteq Key
  <2>1. CASE NextStart
    BY <2>1 DEF NextStart, cursorVars, TypeOK
  <2>2. CASE NextInBin
    <3>1. PICK it \in (IF next_last_visit_entry = NULL THEN {NULL}
                       ELSE ReadNext(next_last_visit_entry)) :
            IF it = NULL
            THEN UNCHANGED <<mutexs, iterator, visited>>
            ELSE /\ mutexs' = [mutexs EXCEPT ![next_current_bin] = Scanner]
                 /\ iterator' = it
                 /\ visited' = visited \cup KeyCopied(it)
      BY <2>2 DEF NextInBin
    <3>2. it \in Pointer
      <4>1. CASE next_last_visit_entry = NULL
        BY <3>1, <4>1 DEF Pointer
      <4>2. CASE next_last_visit_entry # NULL /\ InChain(next_last_visit_entry)
        <5>1. PICK b \in Bins :
                \E i \in 1 .. Len(table[b]) : it = NextInChain(table[b], i)
          BY <3>1, <4>2 DEF ReadNext
        <5>3. PICK i \in 1 .. Len(table[b]) : it = NextInChain(table[b], i)
          BY <5>1
        <5>2. i < Len(table[b]) => i + 1 \in 1 .. Len(table[b])
          BY DEF TypeOK
        <5> QED
          BY <5>2, <5>3, ChainEntry DEF NextInChain, Pointer
      <4>3. CASE next_last_visit_entry # NULL /\ ~ InChain(next_last_visit_entry)
        BY <3>1, <4>3 DEF ReadNext, TypeOK, Call
      <4> QED
        BY <4>1, <4>2, <4>3
    <3>3. it # NULL => KeyCopied(it) \subseteq Key
      BY <3>2, EntryAt DEF KeyCopied, Pointer
    <3> QED
      BY <2>2, <3>1, <3>2, <3>3 DEF NextInBin, TypeOK, Threads, cursorVars
  <2>3. CASE NextAdvance
    BY <2>3 DEF NextAdvance, TypeOK, Pointer
  <2>4. CASE NextBin
    <3> DEFINE b == next_current_bin + 1
    <3>1. b \in Bins /\ b \in -1 .. Size - 1
      BY <2>4, SizeAssumption DEF NextBin, TypeOK, Bins
    <3>2. table[b] # <<>> => 1 \in 1 .. Len(table[b])
      BY <3>1 DEF TypeOK
    <3>3. table[b] # <<>> => table[b][1] \in Addr /\ KeyAt(table[b][1]) \in Key
      BY <3>1, <3>2, ChainEntry
    <3> QED
      BY <2>4, <3>1, <3>3 DEF NextBin, TypeOK, Pointer
  <2>5. CASE NextEnd
    BY <2>5, SizeAssumption DEF NextEnd, TypeOK, Pointer, scanVars
  <2> QED
    BY <2>1, <2>2, <2>3, <2>4, <2>5 DEF Scan
<1>3. TypeOK'
  BY <1>1, <1>2 DEF TypeOK
<1> QED
  BY <1>1, <1>3, Untouched

LEMMA InitInv == Init => IInv
<1> SUFFICES ASSUME Init PROVE IInv
  OBVIOUS
<1>1. NoCall \in Call
  BY DEF NoCall, Locals, Call, Pointer
<1>2. TypeOK
  <2>1. -1 \in -1 .. Size - 1
    BY SizeAssumption
  <2>2. <<>> \in Seq(Addr)
    OBVIOUS
  <2> QED
    BY <1>1, <2>1, <2>2 DEF Init, TypeOK, Threads, Pointer
<1>3. ChainsSorted
  BY DEF Init, ChainsSorted
<1>4. UnlinkedIsPrivate
  BY DEF Init, UnlinkedIsPrivate, Threads
<1> QED
  BY <1>2, <1>3, <1>4 DEF IInv

LEMMA NextInv == IInv /\ [Next]_vars => IInv'
<1> SUFFICES ASSUME IInv, [Next]_vars PROVE IInv'
  OBVIOUS
<1>1. CASE Scan
  BY <1>1, ScanInv
<1>2. ASSUME NEW w \in Writers, Get(w)
      PROVE  IInv'
  BY <1>2, GetLookupInv, GetReturnInv, GetDoneInv DEF Get
<1>3. ASSUME NEW w \in Writers, SetStep(w)
      PROVE  IInv'
  BY <1>3, SetInv DEF SetStep
<1>4. ASSUME NEW w \in Writers, Del(w)
      PROVE  IInv'
  BY <1>4, DelUnlinkInv, DelFreeInv DEF Del
<1>5. CASE UNCHANGED vars
  BY <1>5 DEF vars, IInv, TypeOK, ChainsSorted, UnlinkedIsPrivate, InChain, KeyAt
<1> QED
  BY <1>1, <1>2, <1>3, <1>4, <1>5 DEF Next

(* The table's variables keep their types: in particular a call that is    *)
(* about to dereference its pair always holds a cell of the heap.          *)
THEOREM TypeCorrect == Spec => []TypeOK
<1>1. IInv => TypeOK
  BY DEF IInv
<1> QED
  BY <1>1, InitInv, NextInv, PTL DEF Spec

(* Whatever get, set, del and next interleave, for any number of threads,  *)
(* flows and bins: every chain is made of allocated entries of its own bin *)
(* in strictly ascending order.                                            *)
THEOREM Sortedness == Spec => []ChainsSorted
<1>1. IInv => ChainsSorted
  BY DEF IInv
<1> QED
  BY <1>1, InitInv, NextInv, PTL DEF Spec

(* del() frees only an entry that no bin leads to and that no other del()  *)
(* is about to free, for any number of threads.                            *)
THEOREM NoDoubleFree == Spec => []UnlinkedIsPrivate
<1>1. IInv => UnlinkedIsPrivate
  BY DEF IInv
<1> QED
  BY <1>1, InitInv, NextInv, PTL DEF Spec
-----------------------------------------------------------------------------
(***************************************************************************)
(* The table as a map.  AbsMap is restated with the chains and the cells   *)
(* as parameters, so that one lemma serves the state before and the state  *)
(* after a step.                                                           *)
(***************************************************************************)
MapOf(tab, hp) ==
  [k \in Key |->
     LET chain == tab[HashBin[k]]
     IN  IF \E i \in 1 .. Len(chain) : hp[chain[i]].key = k
         THEN hp[chain[CHOOSE i \in 1 .. Len(chain) : hp[chain[i]].key = k]].value
         ELSE Absent]

(* No flow has two entries. *)
KeysUnique(tab, hp) ==
  \A b \in Bins : \A i, j \in 1 .. Len(tab[b]) :
    hp[tab[b][i]].key = hp[tab[b][j]].key => i = j

LEMMA AbsMapIsMapOf ==
  AbsMap = MapOf(table, heap) /\ AbsMap' = MapOf(table', heap')
BY DEF AbsMap, MapOf, KeyAt, ValueAt

(* Sorted chains hold a flow at most once, before a step and after it. *)
LEMMA KeysAreUnique == IInv => KeysUnique(table, heap)
<1> SUFFICES ASSUME IInv, NEW b \in Bins,
                    NEW i \in 1 .. Len(table[b]), NEW j \in 1 .. Len(table[b]),
                    KeyAt(table[b][i]) = KeyAt(table[b][j])
             PROVE  i = j
  BY DEF KeysUnique, KeyAt
<1> USE DEF IInv
<1>1. Len(table[b]) \in Nat /\ KeyAt(table[b][i]) \in Int
  BY ChainEntry
<1>2. ~ (i < j)
  <2> SUFFICES ASSUME i < j PROVE FALSE
    OBVIOUS
  <2>1. i \in 1 .. j - 1
    BY <1>1
  <2>2. KeyAt(table[b][i]) < KeyAt(table[b][j])
    BY <2>1 DEF ChainsSorted
  <2> QED
    BY <2>2, <1>1
<1>3. ~ (j < i)
  <2> SUFFICES ASSUME j < i PROVE FALSE
    OBVIOUS
  <2>1. j \in 1 .. i - 1
    BY <1>1
  <2>2. KeyAt(table[b][j]) < KeyAt(table[b][i])
    BY <2>1 DEF ChainsSorted
  <2> QED
    BY <2>2, <1>1
<1> QED
  BY <1>1, <1>2, <1>3

LEMMA KeysStayUnique == IInv' => KeysUnique(table', heap')
<1>1. KeysUnique(table', heap') <=> KeysUnique(table, heap)'
  BY DEF KeysUnique
<1>2. IInv' => KeysUnique(table, heap)'
  BY KeysAreUnique, PTL
<1> QED
  BY <1>1, <1>2

(* What a flow is bound to, with an entry of its own and without one. *)
LEMMA MapOfFound ==
  ASSUME NEW tab, NEW hp, KeysUnique(tab, hp), NEW k \in Key,
         NEW i \in 1 .. Len(tab[HashBin[k]]), hp[tab[HashBin[k]][i]].key = k
  PROVE  MapOf(tab, hp)[k] = hp[tab[HashBin[k]][i]].value
<1> DEFINE s == tab[HashBin[k]]
           c == CHOOSE j \in 1 .. Len(s) : hp[s[j]].key = k
<1>1. HashBin[k] \in Bins
  BY HashAssumption
<1>2. c \in 1 .. Len(s) /\ hp[s[c]].key = k
  OBVIOUS
<1>3. c = i
  BY <1>1, <1>2 DEF KeysUnique
<1>4. MapOf(tab, hp)[k] = hp[s[c]].value
  BY DEF MapOf
<1> QED
  BY <1>3, <1>4

LEMMA MapOfMissing ==
  ASSUME NEW tab, NEW hp, NEW k \in Key,
         \A i \in 1 .. Len(tab[HashBin[k]]) : hp[tab[HashBin[k]][i]].key # k
  PROVE  MapOf(tab, hp)[k] = Absent
BY DEF MapOf

(* The two tables hold the same entries of flow g. *)
SameEntries(tab, hp, tab2, hp2, g) ==
  /\ \A i \in 1 .. Len(tab[HashBin[g]]) :
       hp[tab[HashBin[g]][i]].key = g =>
         \E m \in 1 .. Len(tab2[HashBin[g]]) :
           /\ tab2[HashBin[g]][m] = tab[HashBin[g]][i]
           /\ hp2[tab[HashBin[g]][i]] = hp[tab[HashBin[g]][i]]
  /\ \A m \in 1 .. Len(tab2[HashBin[g]]) :
       hp2[tab2[HashBin[g]][m]].key = g =>
         \E i \in 1 .. Len(tab[HashBin[g]]) :
           /\ tab[HashBin[g]][i] = tab2[HashBin[g]][m]
           /\ hp2[tab[HashBin[g]][i]] = hp[tab[HashBin[g]][i]]

(* A flow whose entries are the same is bound to the same value. *)
LEMMA MapOfKept ==
  ASSUME NEW tab, NEW hp, NEW tab2, NEW hp2,
         KeysUnique(tab, hp), KeysUnique(tab2, hp2), NEW g \in Key,
         SameEntries(tab, hp, tab2, hp2, g)
  PROVE  MapOf(tab2, hp2)[g] = MapOf(tab, hp)[g]
<1>1. CASE \E i \in 1 .. Len(tab[HashBin[g]]) : hp[tab[HashBin[g]][i]].key = g
  <2>1. PICK i \in 1 .. Len(tab[HashBin[g]]) : hp[tab[HashBin[g]][i]].key = g
    BY <1>1
  <2>2. PICK m \in 1 .. Len(tab2[HashBin[g]]) :
          /\ tab2[HashBin[g]][m] = tab[HashBin[g]][i]
          /\ hp2[tab[HashBin[g]][i]] = hp[tab[HashBin[g]][i]]
    BY <2>1 DEF SameEntries
  <2>3. MapOf(tab, hp)[g] = hp[tab[HashBin[g]][i]].value
    BY <2>1, MapOfFound
  <2>4. MapOf(tab2, hp2)[g] = hp2[tab2[HashBin[g]][m]].value
    BY <2>1, <2>2, MapOfFound
  <2> QED
    BY <2>2, <2>3, <2>4
<1>2. CASE \A i \in 1 .. Len(tab[HashBin[g]]) : hp[tab[HashBin[g]][i]].key # g
  <2>1. \A m \in 1 .. Len(tab2[HashBin[g]]) : hp2[tab2[HashBin[g]][m]].key # g
    BY <1>2 DEF SameEntries
  <2> QED
    BY <1>2, <2>1, MapOfMissing
<1> QED
  BY <1>1, <1>2

(* What set() does to the chains: every cell that is in a chain stays in   *)
(* it under its key, the cells with another key stay as they are, k's cell *)
(* holds v, and no cell with another key joins a chain.                    *)
SetEffect(k, v) ==
  /\ \E m \in 1 .. Len(table'[HashBin[k]]) :
       heap'[table'[HashBin[k]][m]] = [key |-> k, value |-> v]
  /\ \A c \in Bins : \A i \in 1 .. Len(table[c]) :
       /\ \E m \in 1 .. Len(table'[c]) : table'[c][m] = table[c][i]
       /\ heap'[table[c][i]].key = heap[table[c][i]].key
       /\ heap[table[c][i]].key = k => heap'[table[c][i]].value = v
       /\ heap[table[c][i]].key # k => heap'[table[c][i]] = heap[table[c][i]]
  /\ \A c \in Bins : \A m \in 1 .. Len(table'[c]) :
       heap'[table'[c][m]].key # k =>
         \E i \in 1 .. Len(table[c]) : table[c][i] = table'[c][m]

LEMMA SetPositions ==
  ASSUME IInv, NEW w \in Writers, NEW k \in Key, NEW v \in Value, Set(w, k, v)
  PROVE  SetEffect(k, v)
<1> USE DEF IInv
<1> DEFINE b == HashBin[k]
           s == table[b]
           i == WalkTo(s, k)
<1>1. b \in Bins /\ s \in Seq(Addr) /\ Len(s) \in Nat /\ k \in Int
  BY HashAssumption, KeyAssumption DEF TypeOK
<1>2. /\ i \in 1 .. Len(s) + 1
      /\ \A j \in 1 .. i - 1 : KeyAt(s[j]) < k
      /\ i <= Len(s) => KeyAt(s[i]) >= k
  BY <1>1, WalkStops
<1>3. CASE FoundAt(s, i, k)
  <2>1. i \in 1 .. Len(s)
    BY <1>1, <1>2, <1>3 DEF FoundAt
  <2>2. s[i] \in Addr /\ heap[s[i]] \in Entry /\ heap[s[i]].key = k
    BY <1>1, <1>3, <2>1, ChainEntry DEF FoundAt, KeyAt
  <2>3. heap' = [heap EXCEPT ![s[i]] = [heap[s[i]] EXCEPT !.value = v]]
        /\ table' = table
    BY <1>3 DEF Set, Replace
  <2>4. [heap[s[i]] EXCEPT !.value = v] = [key |-> k, value |-> v]
    BY <2>2 DEF Entry
  <2>5. \A c \in Bins : \A j \in 1 .. Len(table[c]) :
          heap[table[c][j]].key = k => table[c][j] = s[i]
    <3> SUFFICES ASSUME NEW c \in Bins, NEW j \in 1 .. Len(table[c]),
                        heap[table[c][j]].key = k
                 PROVE  table[c][j] = s[i]
      OBVIOUS
    <3>1. c = b
      BY ChainEntry DEF KeyAt
    <3>2. j = i
      BY <3>1, <2>1, <2>2, <1>1, KeysAreUnique DEF KeysUnique
    <3> QED
      BY <3>1, <3>2
  <2>6. \A c \in Bins : \A j \in 1 .. Len(table[c]) : table[c][j] \in Addr
    BY ChainEntry
  <2> HIDE DEF s, i
  <2>7. /\ heap'[s[i]] = [key |-> k, value |-> v]
        /\ \A a \in Addr \ {s[i]} : heap'[a] = heap[a]
    BY <2>2, <2>3, <2>4 DEF TypeOK
  <2>8. \E m \in 1 .. Len(table'[HashBin[k]]) :
          heap'[table'[HashBin[k]][m]] = [key |-> k, value |-> v]
    BY <2>1, <2>3, <2>7 DEF s
  <2>9. ASSUME NEW c \in Bins, NEW j \in 1 .. Len(table[c])
        PROVE  /\ heap'[table[c][j]].key = heap[table[c][j]].key
               /\ heap[table[c][j]].key = k => heap'[table[c][j]].value = v
               /\ heap[table[c][j]].key # k => heap'[table[c][j]] = heap[table[c][j]]
    <3>1. CASE table[c][j] = s[i]
      BY <3>1, <2>2, <2>7
    <3>2. CASE table[c][j] # s[i]
      BY <3>2, <2>5, <2>6, <2>7
    <3> QED
      BY <3>1, <3>2
  <2> QED
    BY <2>3, <2>8, <2>9 DEF SetEffect
<1>4. CASE ~ FoundAt(s, i, k)
  <2>1. PICK a \in Addr :
          /\ heap[a] = NULL
          /\ heap' = [heap EXCEPT ![a] = [key |-> k, value |-> v]]
          /\ table' = [table EXCEPT ![b] = InsertAt(s, i, a)]
    BY <1>4 DEF Set
  <2> DEFINE t == InsertAt(s, i, a)
  <2>2. /\ t \in Seq(Addr) /\ Len(t) = Len(s) + 1
        /\ \A j \in 1 .. Len(s) + 1 :
             t[j] = IF j < i THEN s[j] ELSE IF j = i THEN a ELSE s[j - 1]
    <3>1. a \in Addr /\ s \in Seq(Addr) /\ i \in 1 .. Len(s) + 1
      BY <1>1, <1>2
    <3> HIDE DEF s, i
    <3>2. t \in Seq(Addr)
      BY ONLY <3>1, InsertAtProperties
    <3>3. Len(t) = Len(s) + 1
      BY ONLY <3>1, InsertAtProperties
    <3>4. \A j \in 1 .. Len(s) + 1 :
            t[j] = IF j < i THEN s[j] ELSE IF j = i THEN a ELSE s[j - 1]
      BY ONLY <3>1, InsertAtProperties
    <3> QED
      BY ONLY <3>2, <3>3, <3>4
  <2>3. \A c \in Bins : \A j \in 1 .. Len(table[c]) :
          table[c][j] \in Addr /\ table[c][j] # a
    BY <2>1, ChainEntry
  <2>4. /\ heap'[a] = [key |-> k, value |-> v]
        /\ \A x \in Addr \ {a} : heap'[x] = heap[x]
    BY <2>1 DEF TypeOK
  <2>5. /\ table'[b] = t
        /\ \A c \in Bins \ {b} : table'[c] = table[c]
    BY <2>1, <1>1 DEF TypeOK
  <2>6. \A j \in 1 .. Len(s) : heap[s[j]].key # k
    <3> SUFFICES ASSUME NEW j \in 1 .. Len(s), heap[s[j]].key = k
                 PROVE  FALSE
      OBVIOUS
    <3>1. ~ (j < i)
      BY <1>1, <1>2 DEF KeyAt
    <3>2. i \in 1 .. Len(s)
      BY <3>1, <1>1, <1>2
    <3>3. KeyAt(s[i]) # k /\ KeyAt(s[i]) >= k /\ KeyAt(s[i]) \in Int
      BY <3>2, <1>1, <1>2, <1>4, ChainEntry DEF FoundAt
    <3>4. i \in 1 .. j - 1
      BY <3>1, <3>2, <3>3, <1>1, <1>2 DEF KeyAt
    <3>5. KeyAt(s[i]) < KeyAt(s[j])
      BY <3>4, <1>1 DEF ChainsSorted
    <3> QED
      BY <3>3, <3>5, <1>1 DEF KeyAt
  <2>7. \A c \in Bins : \A j \in 1 .. Len(table[c]) : heap[table[c][j]].key # k
    <3> SUFFICES ASSUME NEW c \in Bins, NEW j \in 1 .. Len(table[c]),
                        heap[table[c][j]].key = k
                 PROVE  FALSE
      OBVIOUS
    <3>1. c = b
      BY ChainEntry DEF KeyAt
    <3> QED
      BY <3>1, <2>6
  <2> HIDE DEF t, s, i
  <2>8. \E m \in 1 .. Len(table'[HashBin[k]]) :
          heap'[table'[HashBin[k]][m]] = [key |-> k, value |-> v]
    <3>1. i \in 1 .. Len(t) /\ t[i] = a
      BY <1>1, <1>2, <2>2
    <3> QED
      BY <3>1, <2>4, <2>5
  <2>9. ASSUME NEW c \in Bins, NEW j \in 1 .. Len(table[c])
        PROVE  \E m \in 1 .. Len(table'[c]) : table'[c][m] = table[c][j]
    <3>1. CASE c # b
      BY <3>1, <2>5
    <3>2. CASE c = b
      <4>1. j \in 1 .. Len(s) /\ table[c] = s /\ table'[c] = t
        BY <3>2, <2>5 DEF s
      <4>2. CASE j < i
        <5>1. j \in 1 .. Len(t) /\ t[j] = s[j]
          BY <4>1, <4>2, <2>2, <1>1
        <5> QED
          BY <5>1, <4>1
      <4>3. CASE ~ (j < i)
        <5>1. j + 1 \in 1 .. Len(s) + 1 /\ j + 1 \in 1 .. Len(t)
              /\ ~ (j + 1 < i) /\ j + 1 # i /\ (j + 1) - 1 = j
          BY <4>1, <4>3, <2>2, <1>1, <1>2
        <5>2. t[j + 1] = s[j]
          BY <5>1, <2>2
        <5> QED
          BY <5>1, <5>2, <4>1
      <4> QED
        BY <4>2, <4>3
    <3> QED
      BY <3>1, <3>2
  <2>10. ASSUME NEW c \in Bins, NEW m \in 1 .. Len(table'[c]),
                heap'[table'[c][m]].key # k
         PROVE  \E j \in 1 .. Len(table[c]) : table[c][j] = table'[c][m]
    <3>1. CASE c # b
      BY <3>1, <2>5
    <3>2. CASE c = b
      <4>1. m \in 1 .. Len(s) + 1 /\ table[c] = s /\ table'[c] = t
        BY <3>2, <2>2, <2>5 DEF s
      <4>2. m # i
        BY <4>1, <2>2, <2>4, <2>10
      <4>3. CASE m < i
        <5>1. m \in 1 .. Len(s) /\ t[m] = s[m]
          BY <4>1, <4>3, <2>2, <1>1, <1>2
        <5> QED
          BY <5>1, <4>1
      <4>4. CASE ~ (m < i)
        <5>1. m - 1 \in 1 .. Len(s) /\ t[m] = s[m - 1]
          BY <4>1, <4>2, <4>4, <2>2, <1>1, <1>2
        <5> QED
          BY <5>1, <4>1
      <4> QED
        BY <4>3, <4>4
    <3> QED
      BY <3>1, <3>2
  <2>11. \A c \in Bins : \A j \in 1 .. Len(table[c]) :
           heap'[table[c][j]] = heap[table[c][j]]
    BY <2>3, <2>4
  <2> QED
    BY <2>7, <2>8, <2>9, <2>10, <2>11 DEF SetEffect
<1> QED
  BY <1>3, <1>4

(* What del() does to the chains: exactly the cells with another key than  *)
(* k stay, and the one it has taken out had key k.                         *)
DelEffect(k) ==
  /\ \E i \in 1 .. Len(table[HashBin[k]]) : heap[table[HashBin[k]][i]].key = k
  /\ \A c \in Bins : \A m \in 1 .. Len(table'[c]) :
       /\ heap[table'[c][m]].key # k
       /\ \E i \in 1 .. Len(table[c]) : table[c][i] = table'[c][m]
  /\ \A c \in Bins : \A i \in 1 .. Len(table[c]) :
       heap[table[c][i]].key # k =>
         \E m \in 1 .. Len(table'[c]) : table'[c][m] = table[c][i]

LEMMA DelPositions ==
  ASSUME IInv, NEW w \in Writers, NEW k \in Key, DelUnlink(w, k)
  PROVE  DelEffect(k)
<1> USE DEF IInv
<1> DEFINE b == HashBin[k]
           s == table[b]
           i == WalkTo(s, k)
           t == RemoveAt(s, i)
<1>1. b \in Bins /\ s \in Seq(Addr) /\ Len(s) \in Nat
  BY HashAssumption DEF TypeOK
<1>2. i \in 1 .. Len(s) /\ heap[s[i]].key = k
  <2>1. FoundAt(s, i, k)
    BY DEF DelUnlink
  <2>2. i \in 1 .. Len(s) + 1
    BY <1>1, WalkStops
  <2> QED
    BY <1>1, <2>1, <2>2 DEF FoundAt, KeyAt
<1>3. table' = [table EXCEPT ![b] = t]
  BY DEF DelUnlink, Unlink
<1>4. /\ t \in Seq(Addr) /\ Len(t) = Len(s) - 1
      /\ \A j \in 1 .. Len(s) - 1 : t[j] = IF j < i THEN s[j] ELSE s[j + 1]
  <2> HIDE DEF s, i
  <2> QED
    BY <1>1, <1>2, RemoveAtProperties
<1>5. \A c \in Bins : \A j \in 1 .. Len(table[c]) :
        heap[table[c][j]].key = k <=> c = b /\ j = i
  <2> SUFFICES ASSUME NEW c \in Bins, NEW j \in 1 .. Len(table[c]),
                      heap[table[c][j]].key = k
               PROVE  c = b /\ j = i
    BY <1>2
  <2>1. c = b
    BY ChainEntry DEF KeyAt
  <2>2. j = i
    BY <2>1, <1>1, <1>2, KeysAreUnique DEF KeysUnique
  <2> QED
    BY <2>1, <2>2
<1>6. /\ table'[b] = t
      /\ \A c \in Bins \ {b} : table'[c] = table[c]
  BY <1>1, <1>3 DEF TypeOK
<1>7. \E j \in 1 .. Len(table[HashBin[k]]) : heap[table[HashBin[k]][j]].key = k
  BY <1>2
<1> HIDE DEF t, s, i
<1>8. ASSUME NEW c \in Bins, NEW m \in 1 .. Len(table'[c])
      PROVE  /\ heap[table'[c][m]].key # k
             /\ \E j \in 1 .. Len(table[c]) : table[c][j] = table'[c][m]
  <2>1. CASE c # b
    BY <2>1, <1>5, <1>6
  <2>2. CASE c = b
    <3>1. m \in 1 .. Len(s) - 1 /\ table[c] = s /\ table'[c] = t
      BY <2>2, <1>4, <1>6 DEF s
    <3>2. CASE m < i
      <4>1. m \in 1 .. Len(s) /\ t[m] = s[m] /\ m # i
        BY <3>1, <3>2, <1>1, <1>4
      <4> QED
        BY <4>1, <3>1, <1>5
    <3>3. CASE ~ (m < i)
      <4>1. m + 1 \in 1 .. Len(s) /\ t[m] = s[m + 1] /\ m + 1 # i
        BY <3>1, <3>3, <1>1, <1>2, <1>4
      <4> QED
        BY <4>1, <3>1, <1>5
    <3> QED
      BY <3>2, <3>3
  <2> QED
    BY <2>1, <2>2
<1>9. ASSUME NEW c \in Bins, NEW j \in 1 .. Len(table[c]),
             heap[table[c][j]].key # k
      PROVE  \E m \in 1 .. Len(table'[c]) : table'[c][m] = table[c][j]
  <2>1. CASE c # b
    BY <2>1, <1>6
  <2>2. CASE c = b
    <3>1. j \in 1 .. Len(s) /\ table[c] = s /\ table'[c] = t
      BY <2>2, <1>6 DEF s
    <3>2. j # i
      BY <2>2, <1>5, <1>9
    <3>3. CASE j < i
      <4>1. j \in 1 .. Len(t) /\ t[j] = s[j]
        BY <3>1, <3>3, <1>1, <1>2, <1>4
      <4> QED
        BY <4>1, <3>1
    <3>4. CASE ~ (j < i)
      <4>1. j - 1 \in 1 .. Len(s) - 1 /\ ~ (j - 1 < i) /\ (j - 1) + 1 = j
        BY <3>1, <3>2, <3>4, <1>1, <1>2
      <4>2. j - 1 \in 1 .. Len(t) /\ t[j - 1] = s[j]
        BY <4>1, <1>4
      <4> QED
        BY <4>2, <3>1
    <3> QED
      BY <3>3, <3>4
  <2> QED
    BY <2>1, <2>2
<1> QED
  BY <1>7, <1>8, <1>9 DEF DelEffect

-----------------------------------------------------------------------------
(* A map is determined by what it binds every flow to. *)
LEMMA MapOfDomain ==
  ASSUME NEW tab, NEW hp
  PROVE  MapOf(tab, hp) = [g \in Key |-> MapOf(tab, hp)[g]]
BY DEF MapOf

(* set(k, v) binds k to v and leaves every other flow's binding alone. *)
LEMMA SetBinds ==
  ASSUME IInv, NEW w \in Writers, NEW k \in Key, NEW v \in Value, Set(w, k, v)
  PROVE  AbsMap' = [AbsMap EXCEPT ![k] = v]
<1>1. KeysUnique(table, heap) /\ KeysUnique(table', heap')
  BY SetInv, KeysAreUnique, KeysStayUnique
<1>1a. SetEffect(k, v)
  BY SetPositions
<1>2. MapOf(table', heap')[k] = v
  <2>1. PICK m \in 1 .. Len(table'[HashBin[k]]) :
          heap'[table'[HashBin[k]][m]] = [key |-> k, value |-> v]
    BY <1>1a DEF SetEffect
  <2>2. /\ heap'[table'[HashBin[k]][m]].key = k
        /\ heap'[table'[HashBin[k]][m]].value = v
    BY <2>1
  <2> QED
    BY <1>1, <2>2, MapOfFound
<1>3. ASSUME NEW g \in Key, g # k
      PROVE  MapOf(table', heap')[g] = MapOf(table, heap)[g]
  <2>1. HashBin[g] \in Bins
    BY HashAssumption
  <2>2. ASSUME NEW i \in 1 .. Len(table[HashBin[g]]),
               heap[table[HashBin[g]][i]].key = g
        PROVE  \E m \in 1 .. Len(table'[HashBin[g]]) :
                 /\ table'[HashBin[g]][m] = table[HashBin[g]][i]
                 /\ heap'[table[HashBin[g]][i]] = heap[table[HashBin[g]][i]]
    BY <1>3, <2>1, <2>2, <1>1a DEF SetEffect
  <2>3. ASSUME NEW m \in 1 .. Len(table'[HashBin[g]]),
               heap'[table'[HashBin[g]][m]].key = g
        PROVE  \E i \in 1 .. Len(table[HashBin[g]]) :
                 /\ table[HashBin[g]][i] = table'[HashBin[g]][m]
                 /\ heap'[table[HashBin[g]][i]] = heap[table[HashBin[g]][i]]
    <3>1. PICK i \in 1 .. Len(table[HashBin[g]]) :
            table[HashBin[g]][i] = table'[HashBin[g]][m]
      BY <1>3, <2>1, <2>3, <1>1a DEF SetEffect
    <3>2a. heap'[table[HashBin[g]][i]].key = heap[table[HashBin[g]][i]].key
      BY <2>1, <1>1a DEF SetEffect
    <3>2. heap[table[HashBin[g]][i]].key # k
      BY <1>3, <2>3, <3>1, <3>2a
    <3>3. heap'[table[HashBin[g]][i]] = heap[table[HashBin[g]][i]]
      BY <2>1, <3>2, <1>1a DEF SetEffect
    <3> QED
      BY <3>1, <3>3
  <2>4. SameEntries(table, heap, table', heap', g)
    BY <2>2, <2>3 DEF SameEntries
  <2> QED
    BY <1>1, <2>4, MapOfKept
<1>4. MapOf(table', heap') = [MapOf(table, heap) EXCEPT ![k] = v]
  BY <1>2, <1>3, MapOfDomain
<1> QED
  BY <1>4, AbsMapIsMapOf

(* del(k) unbinds k, which was bound, and leaves every other flow's        *)
(* binding alone.                                                          *)
LEMMA DelUnbinds ==
  ASSUME IInv, NEW w \in Writers, NEW k \in Key, DelUnlink(w, k)
  PROVE  /\ AbsMap[k] # Absent
         /\ AbsMap' = [AbsMap EXCEPT ![k] = Absent]
<1>1. KeysUnique(table, heap) /\ KeysUnique(table', heap')
  BY DelUnlinkInv, KeysAreUnique, KeysStayUnique
<1>2. heap' = heap /\ HashBin[k] \in Bins
  BY HashAssumption DEF DelUnlink
<1>2a. DelEffect(k)
  BY DelPositions
<1>3. MapOf(table, heap)[k] # Absent
  <2>1. PICK i \in 1 .. Len(table[HashBin[k]]) :
          heap[table[HashBin[k]][i]].key = k
    BY <1>2a DEF DelEffect
  <2>2. MapOf(table, heap)[k] = heap[table[HashBin[k]][i]].value
    BY <1>1, <2>1, MapOfFound
  <2>3. heap[table[HashBin[k]][i]].value \in Value
    BY <1>2, ChainEntry DEF IInv, ValueAt
  <2> QED
    BY <2>2, <2>3, ValueAssumption
<1>4. MapOf(table', heap')[k] = Absent
  <2>1. \A m \in 1 .. Len(table'[HashBin[k]]) :
          heap'[table'[HashBin[k]][m]].key # k
    BY <1>2, <1>2a DEF DelEffect
  <2> QED
    BY <2>1, MapOfMissing
<1>5. ASSUME NEW g \in Key, g # k
      PROVE  MapOf(table', heap')[g] = MapOf(table, heap)[g]
  <2>1. HashBin[g] \in Bins
    BY HashAssumption
  <2>2. ASSUME NEW i \in 1 .. Len(table[HashBin[g]]),
               heap[table[HashBin[g]][i]].key = g
        PROVE  \E m \in 1 .. Len(table'[HashBin[g]]) :
                 /\ table'[HashBin[g]][m] = table[HashBin[g]][i]
                 /\ heap'[table[HashBin[g]][i]] = heap[table[HashBin[g]][i]]
    BY <1>2, <1>5, <2>1, <2>2, <1>2a DEF DelEffect
  <2>3. ASSUME NEW m \in 1 .. Len(table'[HashBin[g]]),
               heap'[table'[HashBin[g]][m]].key = g
        PROVE  \E i \in 1 .. Len(table[HashBin[g]]) :
                 /\ table[HashBin[g]][i] = table'[HashBin[g]][m]
                 /\ heap'[table[HashBin[g]][i]] = heap[table[HashBin[g]][i]]
    BY <1>2, <2>1, <1>2a DEF DelEffect
  <2>4. SameEntries(table, heap, table', heap', g)
    BY <2>2, <2>3 DEF SameEntries
  <2> QED
    BY <1>1, <2>4, MapOfKept
<1>6. MapOf(table', heap') = [MapOf(table, heap) EXCEPT ![k] = Absent]
  BY <1>4, <1>5, MapOfDomain
<1> QED
  BY <1>3, <1>6, AbsMapIsMapOf

(* free() after the unlink changes no flow's binding. *)
LEMMA DelFreeKeeps ==
  ASSUME IInv, NEW w \in Writers, DelFree(w)
  PROVE  AbsMap' = AbsMap
<1>1. KeysUnique(table, heap) /\ KeysUnique(table', heap')
  BY DelFreeInv, KeysAreUnique, KeysStayUnique
<1>2. table' = table /\ heap' = [heap EXCEPT ![loc[w].pair] = NULL]
  BY DEF DelFree
<1>3. loc[w].pair \in Addr /\ ~ InChain(loc[w].pair)
  BY DEF DelFree, IInv, UnlinkedIsPrivate, TypeOK
<1>4. \A b \in Bins : \A i \in 1 .. Len(table[b]) :
        heap'[table[b][i]] = heap[table[b][i]]
  <2> SUFFICES ASSUME NEW b \in Bins, NEW i \in 1 .. Len(table[b])
               PROVE  heap'[table[b][i]] = heap[table[b][i]]
    OBVIOUS
  <2>1. table[b][i] \in Addr /\ table[b][i] # loc[w].pair
    BY <1>3, ChainEntry DEF IInv, InChain
  <2> QED
    BY <1>2, <2>1 DEF IInv, TypeOK
<1>5. ASSUME NEW g \in Key
      PROVE  MapOf(table', heap')[g] = MapOf(table, heap)[g]
  <2>1. HashBin[g] \in Bins
    BY HashAssumption
  <2>2. ASSUME NEW i \in 1 .. Len(table[HashBin[g]]),
               heap[table[HashBin[g]][i]].key = g
        PROVE  \E m \in 1 .. Len(table'[HashBin[g]]) :
                 /\ table'[HashBin[g]][m] = table[HashBin[g]][i]
                 /\ heap'[table[HashBin[g]][i]] = heap[table[HashBin[g]][i]]
    BY <1>2, <1>4, <2>1
  <2>3. ASSUME NEW m \in 1 .. Len(table'[HashBin[g]]),
               heap'[table'[HashBin[g]][m]].key = g
        PROVE  \E i \in 1 .. Len(table[HashBin[g]]) :
                 /\ table[HashBin[g]][i] = table'[HashBin[g]][m]
                 /\ heap'[table[HashBin[g]][i]] = heap[table[HashBin[g]][i]]
    BY <1>2, <1>4, <2>1
  <2>4. SameEntries(table, heap, table', heap', g)
    BY <2>2, <2>3 DEF SameEntries
  <2> QED
    BY <1>1, <2>4, MapOfKept
<1>6. MapOf(table', heap') = MapOf(table, heap)
  BY <1>5, MapOfDomain
<1> QED
  BY <1>6, AbsMapIsMapOf

(* The walk of get finds the flow's entry exactly when there is one. *)
LEMMA LookupFinds ==
  ASSUME IInv, NEW k \in Key
  PROVE  LET chain == table[HashBin[k]]
             i == WalkTo(chain, k)
         IN  /\ FoundAt(chain, i, k) =>
                  /\ i \in 1 .. Len(chain)
                  /\ AbsMap[k] = ValueAt(chain[i])
             /\ ~ FoundAt(chain, i, k) => AbsMap[k] = Absent
<1> DEFINE s == table[HashBin[k]]
           i == WalkTo(s, k)
<1>1. /\ HashBin[k] \in Bins /\ Len(s) \in Nat /\ k \in Int
      /\ i \in 1 .. Len(s) + 1
      /\ \A j \in 1 .. i - 1 : KeyAt(s[j]) < k
      /\ i <= Len(s) => KeyAt(s[i]) >= k
  BY HashAssumption, KeyAssumption, WalkStops DEF IInv, TypeOK
<1>2. ASSUME FoundAt(s, i, k)
      PROVE  i \in 1 .. Len(s) /\ AbsMap[k] = ValueAt(s[i])
  <2>1. i \in 1 .. Len(s) /\ heap[s[i]].key = k
    BY <1>1, <1>2 DEF FoundAt, KeyAt
  <2>2. MapOf(table, heap)[k] = heap[s[i]].value
    BY <2>1, KeysAreUnique, MapOfFound
  <2> QED
    BY <2>1, <2>2, AbsMapIsMapOf DEF ValueAt
<1>3. ASSUME ~ FoundAt(s, i, k)
      PROVE  AbsMap[k] = Absent
  <2>1. ASSUME NEW j \in 1 .. Len(s), heap[s[j]].key = k
        PROVE  FALSE
    <3>1. ~ (j < i)
      BY <1>1, <2>1 DEF KeyAt
    <3>2. i \in 1 .. Len(s)
      BY <3>1, <1>1
    <3>3. KeyAt(s[i]) # k /\ KeyAt(s[i]) >= k /\ KeyAt(s[i]) \in Int
      BY <3>2, <1>1, <1>3, ChainEntry DEF FoundAt, IInv
    <3>4. i \in 1 .. j - 1
      BY <2>1, <3>1, <3>2, <3>3, <1>1 DEF KeyAt
    <3>5. KeyAt(s[i]) < KeyAt(s[j])
      BY <3>4, <1>1 DEF ChainsSorted, IInv
    <3> QED
      BY <2>1, <3>3, <3>5, <1>1 DEF KeyAt
  <2>2. MapOf(table, heap)[k] = Absent
    BY <2>1, MapOfMissing
  <2> QED
    BY <2>2, AbsMapIsMapOf
<1> QED
  BY <1>2, <1>3

(* Every step of the table is a step of the map or leaves it alone. *)
LEMMA NextImplements ==
  ASSUME IInv, [Next]_vars
  PROVE  Map!Next \/ AbsMap' = AbsMap
<1>1. ASSUME UNCHANGED <<table, heap>>
      PROVE  AbsMap' = AbsMap
  BY <1>1 DEF AbsMap, KeyAt, ValueAt
<1>2. CASE Scan
  <2>1. UNCHANGED <<table, heap>>
    BY <1>2 DEF Scan, NextStart, NextInBin, NextAdvance, NextBin, NextEnd, tableVars
  <2> QED
    BY <2>1, <1>1
<1>3. ASSUME NEW w \in Writers, Get(w)
      PROVE  AbsMap' = AbsMap
  <2>1. UNCHANGED <<table, heap>>
    BY <1>3 DEF Get, GetLookup, GetReturn, GetDone, tableVars
  <2> QED
    BY <2>1, <1>1
<1>4. ASSUME NEW w \in Writers, SetStep(w)
      PROVE  Map!Next
  BY <1>4, SetBinds DEF SetStep, Map!Next, Map!Bind
<1>5. ASSUME NEW w \in Writers, Del(w)
      PROVE  Map!Next \/ AbsMap' = AbsMap
  <2>1. CASE DelFree(w)
    BY <2>1, DelFreeKeeps
  <2>2. ASSUME NEW k \in Key, DelUnlink(w, k)
        PROVE  Map!Next
    BY <2>2, DelUnbinds DEF Map!Next, Map!Unbind
  <2> QED
    BY <1>5, <2>1, <2>2 DEF Del
<1>6. CASE UNCHANGED vars
  BY <1>1, <1>6 DEF vars
<1> QED
  BY <1>2, <1>3, <1>4, <1>5, <1>6 DEF Next

(* The empty table is the empty map. *)
LEMMA InitImplements == Init => Map!Init
<1> SUFFICES ASSUME Init PROVE AbsMap = [k \in Key |-> Absent]
  BY DEF Map!Init
<1>1. \A k \in Key : Len(table[HashBin[k]]) = 0
  BY HashAssumption DEF Init
<1> QED
  BY <1>1 DEF AbsMap

(* The tables of public_lib implement the map their callers take them for: *)
(* for any number of threads, flows, bins and cells, every step of get,    *)
(* set, del and next binds one flow, unbinds one flow or changes nothing.  *)
THEOREM TableImplementsMap == Spec => ImplementsMap
<1>1. Init => Map!Init
  BY InitImplements
<1>2. IInv /\ [Next]_vars => [Map!Next]_AbsMap
  BY NextImplements
<1> QED
  BY <1>1, <1>2, InitInv, NextInv, PTL DEF Spec, ImplementsMap, Map!Spec

(* set binds, del unbinds and the walk of get finds its own flow: the      *)
(* early stop in a sorted chain never misses an entry nor takes another    *)
(* flow's entry for it.                                                    *)
THEOREM EveryCallActsOnItsFlow == Spec => CallsActOnTheirFlow
<1> DEFINE A == \A w \in Writers, k \in Key :
                  /\ \A v \in Value : Set(w, k, v) => Map!Bind(k, v)
                  /\ DelUnlink(w, k) => Map!Unbind(k)
                  /\ GetLookup(w, k) /\ pc'[w] = "got" => loc'[w].ret = AbsMap[k]
<1>1. IInv /\ [Next]_vars => [A]_vars
  <2> SUFFICES ASSUME IInv, NEW w \in Writers, NEW k \in Key
               PROVE  /\ \A v \in Value : Set(w, k, v) => Map!Bind(k, v)
                      /\ DelUnlink(w, k) => Map!Unbind(k)
                      /\ GetLookup(w, k) /\ pc'[w] = "got" =>
                           loc'[w].ret = AbsMap[k]
    OBVIOUS
  <2>1. \A v \in Value : Set(w, k, v) => Map!Bind(k, v)
    BY SetBinds DEF Map!Bind
  <2>2. DelUnlink(w, k) => Map!Unbind(k)
    BY DelUnbinds DEF Map!Unbind
  <2>3. ASSUME GetLookup(w, k), pc'[w] = "got"
        PROVE  loc'[w].ret = AbsMap[k]
    <3> DEFINE s == table[HashBin[k]]
               i == WalkTo(s, k)
               r == IF FoundAt(s, i, k) THEN ValueAt(s[i]) ELSE Absent
    <3>1. ~ (FoundAt(s, i, k) /\ ReadsLate)
      BY <2>3 DEF GetLookup, Goto, IInv, TypeOK, Threads
    <3>2. loc' = [loc EXCEPT ![w] = Locals(k, NULL, NULL, FALSE, r)]
      BY <2>3, <3>1 DEF GetLookup
    <3>3. AbsMap[k] = r
      BY LookupFinds
    <3> HIDE DEF r
    <3> QED
      BY <3>2, <3>3 DEF IInv, TypeOK, Locals
  <2> QED
    BY <2>1, <2>2, <2>3
<1> QED
  BY <1>1, InitInv, NextInv, PTL DEF Spec, CallsActOnTheirFlow

-----------------------------------------------------------------------------
(***************************************************************************)
(* get.  Between the unlock and the late read of vInt's get the entry must *)
(* stay in its chain, under its key, with a value the flow was bound to    *)
(* meanwhile.  A del breaks that, so GetInv asks for it only where the     *)
(* value is copied under the lock or nobody deletes.                       *)
(***************************************************************************)
(* The two ways in which a get is atomic in spite of the late read: vFloat *)
(* copies the value under the lock, and no thread deletes.                 *)
AtomicGet == ReadsUnderLock \/ "del" \notin Ops

(* A get that is about to read late still holds an entry of its flow's     *)
(* chain, and the entry's value is one the flow was bound to meanwhile.    *)
LateReadIsSafe(w) ==
  pc[w] = "get" =>
    /\ loc[w].key \in Key
    /\ \E i \in 1 .. Len(table[HashBin[loc[w].key]]) :
         table[HashBin[loc[w].key]][i] = loc[w].pair
    /\ KeyAt(loc[w].pair) = loc[w].key
    /\ ValueAt(loc[w].pair) \in seen[w]

GetInv ==
  \A w \in Writers :
    /\ pc[w] = "get" => ~ ReadsUnderLock
    /\ pc[w] = "del" => "del" \in Ops
    /\ AtomicGet => LateReadIsSafe(w)
    /\ AtomicGet /\ pc[w] = "got" => loc[w].ret \in seen[w]

(* A step that leaves x's call and the cells alone. *)
LEMMA CallUntouched ==
  ASSUME GetInv, NEW x \in Writers, UNCHANGED <<table, heap>>,
         pc'[x] = pc[x], loc'[x] = loc[x], seen'[x] = seen[x]
  PROVE  /\ pc'[x] = "get" => ~ ReadsUnderLock
         /\ pc'[x] = "del" => "del" \in Ops
         /\ AtomicGet => LateReadIsSafe(x)'
         /\ AtomicGet /\ pc'[x] = "got" => loc'[x].ret \in seen'[x]
BY DEF GetInv, LateReadIsSafe, KeyAt, ValueAt

(* The steps of the writers and of the iteration keep GetInv. *)
LEMMA GetLookupLate ==
  ASSUME IInv, GetInv, NEW w \in Writers, NEW k \in Key, GetLookup(w, k)
  PROVE  GetInv'
<1> DEFINE s == table[HashBin[k]]
           i == WalkTo(s, k)
           r == IF FoundAt(s, i, k) THEN ValueAt(s[i]) ELSE Absent
<1>1. UNCHANGED <<table, heap>> /\ HashBin[k] \in Bins
  BY HashAssumption DEF GetLookup, tableVars
<1>2. ASSUME NEW x \in Writers, x # w
      PROVE  pc'[x] = pc[x] /\ loc'[x] = loc[x] /\ seen'[x] = seen[x]
  BY <1>2 DEF GetLookup, Goto, IInv, TypeOK, Threads
<1>3. seen'[w] = {AbsMap[k]}
  BY DEF GetLookup, IInv, TypeOK
<1>4. AbsMap[k] = r /\ (FoundAt(s, i, k) => i \in 1 .. Len(s))
  BY LookupFinds
<1>5. CASE FoundAt(s, i, k) /\ ReadsLate
  <2>1. pc' = [pc EXCEPT ![w] = "get"]
        /\ loc' = [loc EXCEPT ![w] = Locals(k, s[i], NULL, FALSE, NULL)]
    BY <1>5 DEF GetLookup, Goto
  <2> HIDE DEF i
  <2>2. pc'[w] = "get" /\ loc'[w].key = k /\ loc'[w].pair = s[i]
    BY <2>1 DEF IInv, TypeOK, Threads, Locals
  <2>3. KeyAt(s[i]) = k /\ ValueAt(s[i]) \in seen'[w] /\ i \in 1 .. Len(s)
    BY <1>3, <1>4, <1>5 DEF FoundAt
  <2>4. LateReadIsSafe(w)'
    BY <1>1, <2>2, <2>3 DEF LateReadIsSafe, KeyAt, ValueAt
  <2>5. ~ ReadsUnderLock
    BY <1>5 DEF ReadsLate
  <2> QED
    BY <1>1, <1>2, <2>2, <2>4, <2>5, CallUntouched DEF GetInv
<1>6. CASE ~ (FoundAt(s, i, k) /\ ReadsLate)
  <2>1. pc' = [pc EXCEPT ![w] = "got"]
        /\ loc' = [loc EXCEPT ![w] = Locals(k, NULL, NULL, FALSE, r)]
    BY <1>6 DEF GetLookup, Goto
  <2> HIDE DEF r
  <2>2. pc'[w] = "got" /\ loc'[w].ret = r
    BY <2>1 DEF IInv, TypeOK, Threads, Locals
  <2>3. loc'[w].ret \in seen'[w]
    BY <1>3, <1>4, <2>2
  <2>4. LateReadIsSafe(w)'
    BY <2>2 DEF LateReadIsSafe
  <2> QED
    BY <1>1, <1>2, <2>2, <2>3, <2>4, CallUntouched DEF GetInv
<1> QED
  BY <1>5, <1>6

LEMMA GetReturnLate ==
  ASSUME IInv, GetInv, NEW w \in Writers, GetReturn(w)
  PROVE  GetInv'
<1>1. PICK v \in ReadValue(loc[w].pair) :
        loc' = [loc EXCEPT ![w] = Locals(loc[w].key, loc[w].pair, NULL, FALSE, v)]
  BY DEF GetReturn, IInv, TypeOK
<1>2. /\ pc[w] = "get" /\ pc' = [pc EXCEPT ![w] = "got"]
      /\ UNCHANGED <<table, heap, seen>>
  BY DEF GetReturn, Goto, tableVars
<1>3. pc'[w] = "got" /\ loc'[w].ret = v
  BY <1>1, <1>2 DEF IInv, TypeOK, Threads, Locals
<1>4. ASSUME NEW x \in Writers, x # w
      PROVE  pc'[x] = pc[x] /\ loc'[x] = loc[x] /\ seen'[x] = seen[x]
  BY <1>1, <1>2, <1>4 DEF IInv, TypeOK, Threads
<1>5. ASSUME AtomicGet
      PROVE  loc'[w].ret \in seen'[w]
  <2>1. LateReadIsSafe(w)
    BY <1>5 DEF GetInv
  <2>2. HashBin[loc[w].key] \in Bins
    BY <1>2, <2>1, HashAssumption DEF LateReadIsSafe
  <2>3. heap[loc[w].pair] # NULL
    BY <1>2, <2>1, <2>2, ChainEntry DEF LateReadIsSafe, IInv
  <2>4. v = ValueAt(loc[w].pair)
    BY <1>1, <2>3 DEF ReadValue
  <2> QED
    BY <1>2, <1>3, <2>1, <2>4 DEF LateReadIsSafe
<1>6. LateReadIsSafe(w)'
  BY <1>3 DEF LateReadIsSafe
<1> QED
  BY <1>2, <1>3, <1>4, <1>5, <1>6, CallUntouched DEF GetInv

LEMMA GetDoneLate ==
  ASSUME IInv, GetInv, NEW w \in Writers, GetDone(w)
  PROVE  GetInv'
<1>1. pc'[w] = "idle" /\ UNCHANGED <<table, heap>>
  BY DEF GetDone, Goto, tableVars, IInv, TypeOK, Threads
<1>2. ASSUME NEW x \in Writers, x # w
      PROVE  pc'[x] = pc[x] /\ loc'[x] = loc[x] /\ seen'[x] = seen[x]
  BY <1>2 DEF GetDone, Goto, IInv, TypeOK, Threads
<1>3. LateReadIsSafe(w)'
  BY <1>1 DEF LateReadIsSafe
<1> QED
  BY <1>1, <1>2, <1>3, CallUntouched DEF GetInv

LEMMA SetLate ==
  ASSUME IInv, GetInv, NEW w \in Writers, NEW k \in Key, NEW v \in Value,
         Set(w, k, v)
  PROVE  GetInv'
<1>1. UNCHANGED <<pc, loc>> /\ seen' = SeenBy(k, v)
  BY DEF Set
<1>2. \A c \in Bins : \A i \in 1 .. Len(table[c]) :
        /\ \E m \in 1 .. Len(table'[c]) : table'[c][m] = table[c][i]
        /\ heap'[table[c][i]].key = heap[table[c][i]].key
        /\ heap[table[c][i]].key = k => heap'[table[c][i]].value = v
        /\ heap[table[c][i]].key # k => heap'[table[c][i]] = heap[table[c][i]]
  <2>1. SetEffect(k, v)
    BY SetPositions
  <2> QED
    BY <2>1 DEF SetEffect
<1>3. ASSUME NEW x \in Writers
      PROVE  /\ seen[x] \subseteq seen'[x]
             /\ pc[x] = "get" /\ loc[x].key = k => v \in seen'[x]
  BY <1>1 DEF SeenBy
<1>4. ASSUME NEW x \in Writers, LateReadIsSafe(x)
      PROVE  LateReadIsSafe(x)'
  <2> SUFFICES ASSUME pc[x] = "get"
               PROVE  /\ loc[x].key \in Key
                      /\ \E m \in 1 .. Len(table'[HashBin[loc[x].key]]) :
                           table'[HashBin[loc[x].key]][m] = loc[x].pair
                      /\ heap'[loc[x].pair].key = loc[x].key
                      /\ heap'[loc[x].pair].value \in seen'[x]
    BY <1>1 DEF LateReadIsSafe, KeyAt, ValueAt
  <2>1. /\ loc[x].key \in Key /\ HashBin[loc[x].key] \in Bins
        /\ heap[loc[x].pair].key = loc[x].key
        /\ heap[loc[x].pair].value \in seen[x]
    BY <1>4, HashAssumption DEF LateReadIsSafe, KeyAt, ValueAt
  <2>2. PICK i \in 1 .. Len(table[HashBin[loc[x].key]]) :
          table[HashBin[loc[x].key]][i] = loc[x].pair
    BY <1>4 DEF LateReadIsSafe
  <2>3. /\ \E m \in 1 .. Len(table'[HashBin[loc[x].key]]) :
             table'[HashBin[loc[x].key]][m] = loc[x].pair
        /\ heap'[loc[x].pair].key = heap[loc[x].pair].key
        /\ heap[loc[x].pair].key = k => heap'[loc[x].pair].value = v
        /\ heap[loc[x].pair].key # k => heap'[loc[x].pair] = heap[loc[x].pair]
    BY <1>2, <2>1, <2>2
  <2> QED
    BY <2>1, <2>3, <1>3
<1> QED
  BY <1>1, <1>3, <1>4 DEF GetInv

LEMMA DelUnlinkLate ==
  ASSUME IInv, GetInv, NEW w \in Writers, NEW k \in Key, DelUnlink(w, k),
         "del" \in Ops
  PROVE  GetInv'
<1>1. /\ pc[w] = "idle" /\ pc'[w] = "del"
      /\ \A x \in Writers \ {w} : pc'[x] = pc[x] /\ loc'[x] = loc[x]
      /\ seen' = SeenBy(k, Absent)
  BY DEF DelUnlink, Goto, IInv, TypeOK, Threads
<1>2. \A x \in Writers : seen[x] \subseteq seen'[x]
  BY <1>1 DEF SeenBy
<1>3. ASSUME AtomicGet, NEW x \in Writers
      PROVE  pc'[x] # "get"
  BY <1>1, <1>3 DEF AtomicGet, GetInv
<1>4. AtomicGet => \A x \in Writers : LateReadIsSafe(x)'
  BY <1>3 DEF LateReadIsSafe
<1> QED
  BY <1>1, <1>2, <1>4 DEF GetInv

LEMMA DelFreeLate ==
  ASSUME IInv, GetInv, NEW w \in Writers, DelFree(w)
  PROVE  GetInv'
<1>1. /\ pc[w] = "del" /\ pc'[w] = "idle" /\ seen' = seen
      /\ \A x \in Writers \ {w} : pc'[x] = pc[x] /\ loc'[x] = loc[x]
  BY DEF DelFree, Goto, IInv, TypeOK, Threads
<1>2. ASSUME AtomicGet, NEW x \in Writers
      PROVE  pc'[x] # "get"
  BY <1>1, <1>2 DEF AtomicGet, GetInv
<1>3. AtomicGet => \A x \in Writers : LateReadIsSafe(x)'
  BY <1>2 DEF LateReadIsSafe
<1> QED
  BY <1>1, <1>3 DEF GetInv

(* The iterating thread touches no cell, no chain and no writer's call. *)
LEMMA ScanTouchesNoCall ==
  ASSUME IInv, Scan
  PROVE  /\ UNCHANGED <<table, heap, loc, seen>>
         /\ \A x \in Writers : pc'[x] = pc[x]
<1>1. \A q : \A x \in Writers : [pc EXCEPT ![Scanner] = q][x] = pc[x]
  BY NullAssumption DEF IInv, TypeOK, Threads
<1>2. CASE NextStart
  BY <1>1, <1>2 DEF NextStart, Goto, tableVars
<1>3. CASE NextInBin
  BY <1>1, <1>3 DEF NextInBin, Goto, tableVars
<1>4. CASE NextAdvance
  BY <1>1, <1>4 DEF NextAdvance, Goto, tableVars
<1>5. CASE NextBin
  BY <1>1, <1>5 DEF NextBin, Goto, tableVars
<1>6. CASE NextEnd
  BY <1>1, <1>6 DEF NextEnd, Goto, tableVars
<1> QED
  BY <1>2, <1>3, <1>4, <1>5, <1>6 DEF Scan

LEMMA NextLate == IInv /\ GetInv /\ [Next]_vars => GetInv'
<1> SUFFICES ASSUME IInv, GetInv, [Next]_vars PROVE GetInv'
  OBVIOUS
<1>1. CASE Scan
  BY <1>1, ScanTouchesNoCall, CallUntouched DEF GetInv
<1>2. ASSUME NEW w \in Writers, Get(w)
      PROVE  GetInv'
  BY <1>2, GetLookupLate, GetReturnLate, GetDoneLate DEF Get
<1>3. ASSUME NEW w \in Writers, SetStep(w)
      PROVE  GetInv'
  BY <1>3, SetLate DEF SetStep
<1>4. ASSUME NEW w \in Writers, Del(w)
      PROVE  GetInv'
  BY <1>4, DelUnlinkLate, DelFreeLate DEF Del
<1>5. CASE UNCHANGED vars
  BY <1>5, CallUntouched DEF vars, GetInv
<1> QED
  BY <1>1, <1>2, <1>3, <1>4, <1>5 DEF Next

(* get is linearizable for any number of threads, flows and bins when it   *)
(* copies the value under the lock (vFloat), and in spite of its late read *)
(* when no thread deletes (every vInt map but the one of the levels).      *)
THEOREM GetIsAtomic ==
  ReadsUnderLock \/ "del" \notin Ops => (Spec => []GetIsLinearizable)
<1> SUFFICES ASSUME AtomicGet PROVE Spec => []GetIsLinearizable
  BY DEF AtomicGet
<1>1. Init => GetInv
  BY DEF Init, GetInv, LateReadIsSafe, Threads
<1>2. GetInv => GetIsLinearizable
  BY DEF GetInv, GetIsLinearizable
<1> QED
  BY <1>1, <1>2, InitInv, NextInv, NextLate, PTL DEF Spec

-----------------------------------------------------------------------------
(***************************************************************************)
(* The iteration, where nobody deletes.  ScanPosition says what the scan   *)
(* has and has not returned in terms of the bin and the entry it stands    *)
(* at; sets by other threads only ever add entries around that position.   *)
(***************************************************************************)
(* Flow k lies before or at the entry in cell a of the bin the iteration   *)
(* has reached.                                                            *)
Passed(k, a) ==
  \/ HashBin[k] < next_current_bin
  \/ HashBin[k] = next_current_bin /\ k <= KeyAt(a)

(* Cell a is in the chain the iteration has reached, the scan has returned *)
(* every stable flow up to it and has returned no flow beyond it.          *)
ReachedCell(a) ==
  /\ next_current_bin \in Bins
  /\ \E i \in 1 .. Len(table[next_current_bin]) : table[next_current_bin][i] = a
  /\ \A k \in stable : Passed(k, a) => k \in visited
  /\ \A k \in visited : Passed(k, a)

(* Every stable flow has an entry. *)
StableInTable ==
  \A k \in stable : \E i \in 1 .. Len(table[HashBin[k]]) :
    KeyAt(table[HashBin[k]][i]) = k

(* The scan has returned the stable flows of the bins it has finished.     *)
BetweenBins ==
  /\ \A k \in stable : HashBin[k] <= next_current_bin => k \in visited
  /\ \A k \in visited : HashBin[k] <= next_current_bin

(* The inductive invariant of the iteration. *)
ScanPosition ==
  /\ pc[Scanner] \in {"idle", "walk", "advance"}
  /\ StableInTable
  /\ pc[Scanner] = "walk" => BetweenBins
  /\ pc[Scanner] = "idle" /\ next_current_bin # -1 =>
       ReachedCell(next_last_visit_entry)
  /\ pc[Scanner] = "advance" => ReachedCell(iterator)

(* The flows of one chain, in the order in which the iteration meets them. *)
LEMMA KeysAscend ==
  ASSUME IInv, NEW b \in Bins,
         NEW i \in 1 .. Len(table[b]), NEW j \in 1 .. Len(table[b])
  PROVE  /\ KeyAt(table[b][i]) \in Key /\ KeyAt(table[b][i]) \in Int
         /\ HashBin[KeyAt(table[b][i])] = b
         /\ i < j <=> KeyAt(table[b][i]) < KeyAt(table[b][j])
         /\ i <= j <=> KeyAt(table[b][i]) <= KeyAt(table[b][j])
<1> USE DEF IInv
<1>1. /\ Len(table[b]) \in Nat
      /\ KeyAt(table[b][i]) \in Int /\ KeyAt(table[b][j]) \in Int
      /\ KeyAt(table[b][i]) \in Key /\ HashBin[KeyAt(table[b][i])] = b
  BY ChainEntry
<1>2. i < j => KeyAt(table[b][i]) < KeyAt(table[b][j])
  <2> SUFFICES ASSUME i < j PROVE KeyAt(table[b][i]) < KeyAt(table[b][j])
    OBVIOUS
  <2>1. i \in 1 .. j - 1
    BY <1>1
  <2> QED
    BY <2>1 DEF ChainsSorted
<1>3. j < i => KeyAt(table[b][j]) < KeyAt(table[b][i])
  <2> SUFFICES ASSUME j < i PROVE KeyAt(table[b][j]) < KeyAt(table[b][i])
    OBVIOUS
  <2>1. j \in 1 .. i - 1
    BY <1>1
  <2> QED
    BY <2>1 DEF ChainsSorted
<1>4. i = j => KeyAt(table[b][i]) = KeyAt(table[b][j])
  OBVIOUS
<1> HIDE DEF IInv
<1> QED
  BY <1>1, <1>2, <1>3, <1>4

(* The successor that next() reads of an entry in a chain. *)
LEMMA SuccessorRead ==
  ASSUME IInv, NEW b \in Bins, NEW i \in 1 .. Len(table[b]),
         NEW it \in ReadNext(table[b][i])
  PROVE  it = NextInChain(table[b], i)
<1>1. InChain(table[b][i])
  BY DEF InChain
<1>2a. PICK c \in Bins : \E j \in 1 .. Len(table[c]) :
         table[c][j] = table[b][i] /\ it = NextInChain(table[c], j)
  BY <1>1 DEF ReadNext
<1>2. PICK j \in 1 .. Len(table[c]) :
        table[c][j] = table[b][i] /\ it = NextInChain(table[c], j)
  BY <1>2a
<1>3. c = b /\ j = i
  BY <1>2, CellsDistinct DEF IInv
<1> QED
  BY <1>2, <1>3

(* A step of a writer that keeps every cell of a chain in it and under its *)
(* key keeps the position of the scan.                                     *)
LEMMA PositionKept ==
  ASSUME TypeOK, ScanPosition,
         pc'[Scanner] = pc[Scanner],
         UNCHANGED <<next_current_bin, next_last_visit_entry, iterator,
                     visited, stable>>,
         \A c \in Bins : \A i \in 1 .. Len(table[c]) :
           /\ \E m \in 1 .. Len(table'[c]) : table'[c][m] = table[c][i]
           /\ heap'[table[c][i]].key = heap[table[c][i]].key
  PROVE  ScanPosition'
<1>1. ASSUME NEW a, ReachedCell(a)
      PROVE  /\ \E m \in 1 .. Len(table'[next_current_bin]) :
                  table'[next_current_bin][m] = a
             /\ heap'[a].key = heap[a].key
  <2>1. PICK i \in 1 .. Len(table[next_current_bin]) : table[next_current_bin][i] = a
    BY <1>1 DEF ReachedCell
  <2> QED
    BY <1>1, <2>1 DEF ReachedCell
<1>2. StableInTable'
  <2> SUFFICES ASSUME NEW k \in stable
               PROVE  \E m \in 1 .. Len(table'[HashBin[k]]) :
                        heap'[table'[HashBin[k]][m]].key = k
    BY DEF StableInTable, KeyAt
  <2>1. PICK i \in 1 .. Len(table[HashBin[k]]) :
          heap[table[HashBin[k]][i]].key = k
    BY DEF ScanPosition, StableInTable, KeyAt
  <2>2. HashBin[k] \in Bins
    BY HashAssumption DEF TypeOK
  <2>3. PICK m \in 1 .. Len(table'[HashBin[k]]) :
          table'[HashBin[k]][m] = table[HashBin[k]][i]
    BY <2>2
  <2>4. heap'[table'[HashBin[k]][m]].key = k
    BY <2>1, <2>2, <2>3
  <2> QED
    BY <2>4
<1>3. pc'[Scanner] = "walk" => BetweenBins'
  BY DEF ScanPosition, BetweenBins
<1>4. ReachedCell(next_last_visit_entry) => ReachedCell(next_last_visit_entry)'
  BY <1>1 DEF ReachedCell, Passed, KeyAt
<1>5. ReachedCell(iterator) => ReachedCell(iterator)'
  BY <1>1 DEF ReachedCell, Passed, KeyAt
<1> QED
  BY <1>2, <1>3, <1>4, <1>5 DEF ScanPosition

(* A scan that begins: the stable flows are the ones in the table now. *)
LEMMA NextStartPosition ==
  ASSUME IInv, ScanPosition, NextStart
  PROVE  ScanPosition'
<1>1. /\ pc'[Scanner] = "walk" /\ visited' = {} /\ next_current_bin' = -1
      /\ stable' = {k \in Key : AbsMap[k] # Absent}
      /\ UNCHANGED <<table, heap>>
  BY DEF NextStart, Goto, tableVars, cursorVars, IInv, TypeOK, Threads
<1>2. StableInTable'
  <2> SUFFICES ASSUME NEW k \in Key, AbsMap[k] # Absent
               PROVE  \E i \in 1 .. Len(table[HashBin[k]]) :
                        heap[table[HashBin[k]][i]].key = k
    BY <1>1 DEF StableInTable, KeyAt
  <2> QED
    BY MapOfMissing, AbsMapIsMapOf
<1>3. BetweenBins'
  <2>1. ASSUME NEW k \in stable'
        PROVE  ~ (HashBin[k] <= next_current_bin')
    <3>1. HashBin[k] \in Bins
      BY <1>1, <2>1, HashAssumption
    <3> QED
      BY <1>1, <3>1, SizeAssumption DEF Bins
  <2> QED
    BY <1>1, <2>1 DEF BetweenBins
<1> QED
  BY <1>1, <1>2, <1>3 DEF ScanPosition

(* The position and what next() returns when it stays in its bin. *)
LEMMA NextInBinPosition ==
  ASSUME IInv, ScanPosition, NextInBin
  PROVE  /\ ScanPosition'
         /\ pc'[Scanner] = "advance" => visited' # visited
<1> DEFINE b == next_current_bin
           e == next_last_visit_entry
<1>1. /\ pc[Scanner] = "idle" /\ b >= 0 /\ b # -1
      /\ UNCHANGED <<table, heap, next_current_bin, next_last_visit_entry, stable>>
  BY DEF NextInBin, tableVars, cursorVars, IInv, TypeOK
<1>2. ReachedCell(e) /\ StableInTable
  BY <1>1 DEF ScanPosition
<1>3. b \in Bins
  BY <1>2 DEF ReachedCell
<1>4. PICK i \in 1 .. Len(table[b]) : table[b][i] = e
  BY <1>2 DEF ReachedCell
<1>5. e # NULL /\ Len(table[b]) \in Nat
  BY <1>3, <1>4, NullAssumption, ChainEntry DEF IInv
<1>6. PICK it \in ReadNext(e) :
        IF it = NULL
        THEN pc' = [pc EXCEPT ![Scanner] = "walk"] /\ visited' = visited
        ELSE /\ pc' = [pc EXCEPT ![Scanner] = "advance"]
             /\ iterator' = it
             /\ visited' = visited \cup KeyCopied(it)
  BY <1>5 DEF NextInBin, Goto
<1>7. it = NextInChain(table[b], i)
  BY <1>3, <1>4, <1>6, SuccessorRead
<1>8. StableInTable'
  BY <1>1, <1>2 DEF StableInTable, KeyAt
<1>9. \A k \in stable : k \in Key /\ k \in Int
  BY KeyAssumption DEF IInv, TypeOK
<1>9a. /\ \A k \in stable : Passed(k, e) => k \in visited
       /\ \A k \in visited : Passed(k, e)
  BY <1>2 DEF ReachedCell
<1>10. ASSUME NEW k \in stable, HashBin[k] = b
       PROVE  \E p \in 1 .. Len(table[b]) : KeyAt(table[b][p]) = k
  BY <1>2, <1>10 DEF StableInTable
<1>11. CASE i < Len(table[b])
  <2>1. /\ i + 1 \in 1 .. Len(table[b])
        /\ it = table[b][i + 1]
    BY <1>5, <1>7, <1>11 DEF NextInChain
  <2>2. it \in Addr /\ heap[it] # NULL /\ it # NULL
    BY <1>3, <2>1, NullAssumption, ChainEntry DEF IInv
  <2>3. /\ pc'[Scanner] = "advance" /\ iterator' = it
        /\ visited' = visited \cup {KeyAt(it)}
    BY <1>6, <2>2 DEF KeyCopied, IInv, TypeOK, Threads
  <2>4. /\ KeyAt(it) \in Int /\ KeyAt(e) \in Int /\ KeyAt(e) < KeyAt(it)
        /\ KeyAt(it) \in Key /\ HashBin[KeyAt(it)] = b
    <3>1. i < i + 1
      BY <1>5
    <3> QED
      BY <1>3, <1>4, <2>1, <3>1, KeysAscend
  <2>5. ASSUME NEW k \in stable, HashBin[k] = b, k <= KeyAt(it)
        PROVE  k <= KeyAt(e) \/ k = KeyAt(it)
    <3>1. PICK p \in 1 .. Len(table[b]) : KeyAt(table[b][p]) = k
      BY <1>10, <2>5
    <3>2. p <= i + 1
      BY <3>1, <1>3, <2>1, <2>5, KeysAscend
    <3>3. p <= i \/ p = i + 1
      BY <3>2, <1>5
    <3> QED
      BY <3>1, <3>3, <1>3, <1>4, <2>1, KeysAscend
  <2>6. KeyAt(it) \notin visited
    <3> SUFFICES ASSUME KeyAt(it) \in visited PROVE FALSE
      OBVIOUS
    <3>1. HashBin[KeyAt(it)] < b \/ (HashBin[KeyAt(it)] = b /\ KeyAt(it) <= KeyAt(e))
      BY <1>9a DEF Passed
    <3> QED
      BY <3>1, <2>4, <1>3 DEF Bins
  <2>7. ReachedCell(iterator)'
    <3>1. ASSUME NEW k \in stable, HashBin[k] < b \/ (HashBin[k] = b /\ k <= KeyAt(it))
          PROVE  k \in visited \cup {KeyAt(it)}
      BY <3>1, <2>5, <1>9a DEF Passed
    <3>2. ASSUME NEW k \in visited
          PROVE  HashBin[k] < b \/ (HashBin[k] = b /\ k <= KeyAt(it))
      <4>1. HashBin[k] < b \/ (HashBin[k] = b /\ k <= KeyAt(e))
        BY <1>9a DEF Passed
      <4>2. k \in Int
        BY KeyAssumption DEF IInv, TypeOK
      <4> QED
        BY <4>1, <4>2, <2>4
    <3>3. HashBin[KeyAt(it)] = b /\ KeyAt(it) <= KeyAt(it)
      BY <2>4
    <3>4. \E m \in 1 .. Len(table[b]) : table[b][m] = it
      BY <2>1
    <3> QED
      BY <1>1, <1>3, <2>3, <3>1, <3>2, <3>3, <3>4 DEF ReachedCell, Passed, KeyAt
  <2> QED
    BY <1>8, <2>3, <2>6, <2>7 DEF ScanPosition
<1>12. CASE ~ (i < Len(table[b]))
  <2>1. it = NULL
    BY <1>7, <1>12 DEF NextInChain
  <2>2. pc'[Scanner] = "walk" /\ visited' = visited
    BY <1>6, <2>1 DEF IInv, TypeOK, Threads
  <2>3. ASSUME NEW k \in stable, HashBin[k] <= b
        PROVE  k \in visited
    <3>1. HashBin[k] \in Int /\ b \in Int
      BY <1>3, <1>9, HashAssumption, SizeAssumption DEF Bins
    <3>2. CASE HashBin[k] = b
      <4>1. PICK p \in 1 .. Len(table[b]) : KeyAt(table[b][p]) = k
        BY <1>10, <3>2
      <4>2. p <= i
        BY <1>5, <1>12
      <4>3. k <= KeyAt(e)
        BY <1>3, <1>4, <4>1, <4>2, KeysAscend
      <4> QED
        BY <3>2, <4>3, <1>9a DEF Passed
    <3>3. CASE HashBin[k] # b
      <4>1. HashBin[k] < b
        BY <2>3, <3>1, <3>3
      <4> QED
        BY <4>1, <1>9a DEF Passed
    <3> QED
      BY <3>2, <3>3
  <2>4. ASSUME NEW k \in visited
        PROVE  HashBin[k] <= b
    <3>1. HashBin[k] \in Int /\ b \in Int
      BY <1>3, HashAssumption, SizeAssumption DEF IInv, TypeOK, Bins
    <3> QED
      BY <3>1, <1>9a DEF Passed
  <2>5. BetweenBins'
    BY <1>1, <2>2, <2>3, <2>4 DEF BetweenBins
  <2> QED
    BY <1>8, <2>2, <2>5 DEF ScanPosition
<1> QED
  BY <1>11, <1>12

(* The entry just returned becomes the cursor. *)
LEMMA NextAdvancePosition ==
  ASSUME IInv, ScanPosition, NextAdvance
  PROVE  ScanPosition'
<1>1. /\ pc[Scanner] = "advance" /\ pc'[Scanner] = "idle"
      /\ next_last_visit_entry' = iterator
      /\ UNCHANGED <<table, heap, next_current_bin, visited, stable>>
  BY DEF NextAdvance, Goto, tableVars, IInv, TypeOK, Threads
<1>2. ReachedCell(iterator) /\ StableInTable
  BY <1>1 DEF ScanPosition
<1>3. ReachedCell(next_last_visit_entry)'
  BY <1>1, <1>2 DEF ReachedCell, Passed, KeyAt
<1>4. StableInTable'
  BY <1>1, <1>2 DEF StableInTable, KeyAt
<1> QED
  BY <1>1, <1>3, <1>4 DEF ScanPosition

(* The position and what next() returns when it goes on to the next bin. *)
LEMMA NextBinPosition ==
  ASSUME IInv, ScanPosition, NextBin
  PROVE  /\ ScanPosition'
         /\ pc'[Scanner] = "idle" => visited' # visited
<1> DEFINE b == next_current_bin + 1
<1>1. /\ pc[Scanner] = "walk" /\ b < Size /\ next_current_bin' = b
      /\ UNCHANGED <<table, heap, iterator, stable>>
  BY DEF NextBin, tableVars
<1>2. /\ b \in Bins /\ b \in Int /\ next_current_bin \in Int
      /\ table[b] \in Seq(Addr)
  BY <1>1, SizeAssumption DEF IInv, TypeOK, Bins
<1>3. BetweenBins /\ StableInTable
  BY <1>1 DEF ScanPosition
<1>4. StableInTable'
  BY <1>1, <1>3 DEF StableInTable, KeyAt
<1>5. \A k \in stable \cup visited : k \in Key /\ k \in Int /\ HashBin[k] \in Int
  BY HashAssumption, KeyAssumption, SizeAssumption DEF IInv, TypeOK, Bins
<1>6. ASSUME NEW k \in stable, HashBin[k] <= b, HashBin[k] # b
      PROVE  k \in visited
  <2>1. HashBin[k] <= next_current_bin
    BY <1>2, <1>5, <1>6
  <2> QED
    BY <2>1, <1>3 DEF BetweenBins
<1>7. ASSUME NEW k \in visited
      PROVE  HashBin[k] < b
  <2>1. HashBin[k] <= next_current_bin
    BY <1>3 DEF BetweenBins
  <2> QED
    BY <2>1, <1>2, <1>5
<1> HIDE DEF b
<1>8. CASE table[b] = <<>>
  <2>1. pc'[Scanner] = "walk" /\ visited' = visited
    BY <1>1, <1>8 DEF NextBin, b
  <2>2. ASSUME NEW k \in stable
        PROVE  HashBin[k] # b
    <3>1. \E i \in 1 .. Len(table[HashBin[k]]) : TRUE
      BY <1>3 DEF StableInTable
    <3> QED
      BY <3>1, <1>8
  <2>3. BetweenBins'
    <3>1. ASSUME NEW k \in visited PROVE HashBin[k] <= b
      BY <1>2, <1>5, <1>7
    <3> QED
      BY <1>1, <1>6, <2>1, <2>2, <3>1 DEF BetweenBins
  <2> QED
    BY <1>4, <2>1, <2>3 DEF ScanPosition
<1>9. CASE table[b] # <<>>
  <2> DEFINE a == table[b][1]
  <2>1. 1 \in 1 .. Len(table[b]) /\ Len(table[b]) \in Nat
    BY <1>2, <1>9
  <2>2. /\ pc'[Scanner] = "idle" /\ next_last_visit_entry' = a
        /\ visited' = visited \cup {KeyAt(a)}
    BY <1>9 DEF NextBin, Goto, IInv, TypeOK, Threads, b
  <2>3. KeyAt(a) \in Key /\ KeyAt(a) \in Int /\ HashBin[KeyAt(a)] = b
    BY <1>2, <2>1, KeysAscend
  <2>4. KeyAt(a) \notin visited
    BY <1>2, <1>7, <2>3
  <2>5. ASSUME NEW k \in stable, HashBin[k] = b, k <= KeyAt(a)
        PROVE  k = KeyAt(a)
    <3>1. PICK p \in 1 .. Len(table[b]) : KeyAt(table[b][p]) = k
      BY <1>3, <2>5 DEF StableInTable
    <3>2. p <= 1
      BY <3>1, <1>2, <2>1, <2>5, KeysAscend
    <3>3. p = 1
      BY <3>2, <2>1
    <3> QED
      BY <3>1, <3>3
  <2>6. ReachedCell(next_last_visit_entry)'
    <3>1. ASSUME NEW k \in stable, HashBin[k] < b \/ (HashBin[k] = b /\ k <= KeyAt(a))
          PROVE  k \in visited \cup {KeyAt(a)}
      <4>1. CASE HashBin[k] < b
        <5>1. HashBin[k] <= b /\ HashBin[k] # b
          BY <4>1, <1>2, <1>5
        <5> QED
          BY <5>1, <1>6
      <4>2. CASE HashBin[k] = b /\ k <= KeyAt(a)
        BY <4>2, <2>5
      <4> QED
        BY <3>1, <4>1, <4>2
    <3>2. HashBin[KeyAt(a)] = b /\ KeyAt(a) <= KeyAt(a)
      BY <2>3
    <3>3. \E m \in 1 .. Len(table[b]) : table[b][m] = a
      BY <2>1
    <3> HIDE DEF a
    <3> QED
      BY <1>1, <1>2, <1>7, <2>2, <3>1, <3>2, <3>3 DEF ReachedCell, Passed, KeyAt
  <2> QED
    BY <1>4, <2>2, <2>4, <2>6 DEF ScanPosition
<1> QED
  BY <1>8, <1>9

(* At the end of the scan every stable flow has been returned. *)
LEMMA NextEndPosition ==
  ASSUME IInv, ScanPosition, NextEnd
  PROVE  ScanPosition' /\ stable \subseteq visited
<1>1. /\ pc[Scanner] = "walk" /\ pc'[Scanner] = "idle"
      /\ next_current_bin + 1 >= Size /\ next_current_bin' = -1
      /\ UNCHANGED <<table, heap, visited, stable>>
  BY DEF NextEnd, Goto, tableVars, scanVars, IInv, TypeOK, Threads
<1>2. BetweenBins /\ StableInTable
  BY <1>1 DEF ScanPosition
<1>3. ASSUME NEW k \in stable
      PROVE  k \in visited
  <2>1. HashBin[k] \in Bins
    BY HashAssumption DEF IInv, TypeOK
  <2>2. HashBin[k] <= next_current_bin
    BY <1>1, <2>1, SizeAssumption DEF Bins, IInv, TypeOK
  <2> QED
    BY <1>2, <2>2 DEF BetweenBins
<1>4. StableInTable'
  BY <1>1, <1>2 DEF StableInTable, KeyAt
<1> QED
  BY <1>1, <1>3, <1>4 DEF ScanPosition

(* No step of a writer moves the scan when no thread deletes. *)
LEMMA WriterKeepsPosition ==
  ASSUME "del" \notin Ops, IInv, GetInv, ScanPosition,
         NEW w \in Writers, Get(w) \/ SetStep(w) \/ Del(w)
  PROVE  /\ ScanPosition'
         /\ pc'[Scanner] = pc[Scanner] /\ visited' = visited
         /\ UNCHANGED <<next_current_bin, iterator>>
<1>1. pc[w] # "del"
  BY DEF GetInv
<1>2. ~ Del(w)
  BY <1>1 DEF Del, DelFree
<1>3. \A q : [pc EXCEPT ![w] = q][Scanner] = pc[Scanner]
  BY NullAssumption DEF IInv, TypeOK, Threads
<1>4. /\ pc'[Scanner] = pc[Scanner]
      /\ UNCHANGED <<next_current_bin, next_last_visit_entry, iterator,
                     visited, stable>>
  <2>1. CASE Get(w)
    BY <2>1, <1>3
    DEF Get, GetLookup, GetReturn, GetDone, Goto, cursorVars, scanVars
  <2>2. CASE SetStep(w)
    BY <2>2 DEF SetStep, Set, cursorVars, scanVars
  <2> QED
    BY <1>2, <2>1, <2>2
<1>5. \A c \in Bins : \A i \in 1 .. Len(table[c]) :
        /\ \E m \in 1 .. Len(table'[c]) : table'[c][m] = table[c][i]
        /\ heap'[table[c][i]].key = heap[table[c][i]].key
  <2>1. CASE Get(w)
    <3>1. UNCHANGED <<table, heap>>
      BY <2>1 DEF Get, GetLookup, GetReturn, GetDone, tableVars
    <3> QED
      BY <3>1
  <2>2. CASE SetStep(w)
    <3>1. PICK k \in Key, v \in Value : Set(w, k, v)
      BY <2>2 DEF SetStep
    <3>2. SetEffect(k, v)
      BY <3>1, SetPositions
    <3> QED
      BY <3>2 DEF SetEffect
  <2> QED
    BY <1>2, <2>1, <2>2
<1>6. TypeOK
  BY DEF IInv
<1> QED
  BY <1>4, <1>5, <1>6, PositionKept

LEMMA NextPosition ==
  ASSUME "del" \notin Ops
  PROVE  IInv /\ GetInv /\ ScanPosition /\ [Next]_vars => ScanPosition'
<1> SUFFICES ASSUME IInv, GetInv, ScanPosition, [Next]_vars
             PROVE  ScanPosition'
  OBVIOUS
<1>1. CASE Scan
  BY <1>1, NextStartPosition, NextInBinPosition, NextAdvancePosition,
     NextBinPosition, NextEndPosition DEF Scan
<1>2. ASSUME NEW w \in Writers, Get(w) \/ SetStep(w) \/ Del(w)
      PROVE  ScanPosition'
  BY <1>2, WriterKeepsPosition
<1>3. CASE UNCHANGED vars
  BY <1>3 DEF vars, ScanPosition, StableInTable, BetweenBins, ReachedCell,
              Passed, KeyAt
<1> QED
  BY <1>1, <1>2, <1>3 DEF Next

LEMMA InitPosition == Init => GetInv /\ ScanPosition
<1>1. Init => GetInv
  BY DEF Init, GetInv, LateReadIsSafe, Threads
<1>2. Init => ScanPosition
  BY DEF Init, ScanPosition, StableInTable, Threads
<1> QED
  BY <1>1, <1>2

(* With no thread deleting, a scan that ends has returned every flow that  *)
(* was in the table ever since it began, however many flows other threads  *)
(* insert meanwhile, and wherever in the chains.                           *)
THEOREM ScanMissesNothing ==
  "del" \notin Ops => (Spec => ScanIsComplete)
<1> SUFFICES ASSUME "del" \notin Ops PROVE Spec => ScanIsComplete
  OBVIOUS
<1>1. IInv /\ GetInv /\ ScanPosition /\ [Next]_vars => ScanPosition'
  BY NextPosition
<1>2. IInv /\ ScanPosition /\ [Next]_vars => [NextEnd => stable \subseteq visited]_vars
  BY NextEndPosition
<1> QED
  BY <1>1, <1>2, InitInv, InitPosition, NextInv, NextLate, PTL
  DEF Spec, ScanIsComplete

(* With no thread deleting, next() never returns a flow a second time in   *)
(* one scan.                                                               *)
THEOREM ScanRepeatsNothing ==
  "del" \notin Ops => (Spec => NoFlowReturnedTwice)
<1> SUFFICES ASSUME "del" \notin Ops PROVE Spec => NoFlowReturnedTwice
  OBVIOUS
<1> DEFINE A == (\/ NextInBin /\ pc'[Scanner] = "advance"
                 \/ NextBin /\ pc'[Scanner] = "idle") => visited' # visited
<1>1. IInv /\ GetInv /\ ScanPosition /\ [Next]_vars => ScanPosition'
  BY NextPosition
<1>2. IInv /\ ScanPosition /\ [Next]_vars => [A]_vars
  BY NextInBinPosition, NextBinPosition
<1> QED
  BY <1>1, <1>2, InitInv, InitPosition, NextInv, NextLate, PTL
  DEF Spec, NoFlowReturnedTwice
=============================================================================
