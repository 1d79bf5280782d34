-------------------------- MODULE MCFlowHashTable --------------------------
(***************************************************************************)
(* Model-checking instances of FlowHashTable: all flows but the greatest   *)
(* share bin 0.  Heap cells are interchangeable, and so are the writers.   *)
(***************************************************************************)
EXTENDS FlowHashTable

MCHashBin == [k \in Key |-> IF k < Max(Key) THEN 0 ELSE 1]

Symmetry == Permutations(Addr) \cup Permutations(Writers)
=============================================================================
