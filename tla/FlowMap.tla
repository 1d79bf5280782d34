------------------------------ MODULE FlowMap ------------------------------
(***************************************************************************)
(* What the flow hash tables of public_lib promise to the threads that     *)
(* share one: a finite map from flows to values in which a step binds one  *)
(* flow, unbinds one flow, or changes nothing.                             *)
(***************************************************************************)
CONSTANTS
  Key,     \* flows
  Value,   \* values a flow can be bound to
  Absent   \* what a lookup of an unbound flow returns (-1 in the code)

VARIABLE map

Init == map = [k \in Key |-> Absent]

Bind(k, v) == map' = [map EXCEPT ![k] = v]

Unbind(k) ==
  /\ map[k] # Absent
  /\ map' = [map EXCEPT ![k] = Absent]

Next == \E k \in Key : Unbind(k) \/ \E v \in Value : Bind(k, v)

Spec == Init /\ [][Next]_map
=============================================================================
