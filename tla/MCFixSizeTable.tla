--------------------------- MODULE MCFixSizeTable ---------------------------
(* A small instance of FixSizeTable: two buckets, two flows in each. *)
EXTENDS FixSizeTable, TLC

CONSTANTS t1, t2, a1, a2, b1, b2

MCBinOf == (a1 :> 0) @@ (a2 :> 0) @@ (b1 :> 1) @@ (b2 :> 1)
MCLevel == 0 .. 1

MCCall(op, k, d, l) == [op |-> op, key |-> k, delta |-> d, level |-> l]

(* Every operation on the flows of bucket 0, and additions in bucket 1 to  *)
(* collide at the same time.                                               *)
MCRequest ==
  UNION {{MCCall("get", k, 0, 0), MCCall("del", k, 0, 0), MCCall("add", k, 1, 0)}
           \cup {MCCall("update", k, 1, l) : l \in MCLevel}
           \cup {MCCall("set", k, 0, l) : l \in MCLevel} : k \in {a1, a2}}
    \cup {MCCall("add", k, 1, 0) : k \in {b1, b2}}
=============================================================================
