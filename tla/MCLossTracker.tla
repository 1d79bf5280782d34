--------------------------- MODULE MCLossTracker ---------------------------
(***************************************************************************)
(* Model-checking instances of LossTracker: two 5-tuples of one source     *)
(* flow from host A to host B, and one flow the other way.                 *)
(***************************************************************************)
EXTENDS LossTracker

CONSTANTS A, B, f1, f2, g, ab, ba

MCFlowSrcOf == [f \in Flow |-> IF f = g THEN ba ELSE ab]
MCSrc == [f \in Flow |-> IF f = g THEN B ELSE A]
MCDst == [f \in Flow |-> IF f = g THEN A ELSE B]

(* Bounds: packets in the traces of A and of B. *)
MCMaxSeqid == [h \in Host |-> IF h = A THEN 4 ELSE 1]
MCOneSender == [h \in Host |-> IF h = A THEN 3 ELSE 0]

Symmetry == Permutations({f1, f2})
=============================================================================
