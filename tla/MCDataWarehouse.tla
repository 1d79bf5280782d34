-------------------------- MODULE MCDataWarehouse --------------------------
(* Small instances of DataWarehouse. *)
EXTENDS DataWarehouse

MCOneFlow == [f \in {1} |-> 1]
(* Two flows with a bin each, and in one bucket of the map of fixed size. *)
MCTwoBins == [f \in 1 .. 2 |-> f]
MCOneBucket == [f \in 1 .. 2 |-> 1]

MCSetting(way, type, flows) ==
  [conditions |-> way, loss_map_mem_type |-> type, monitored |-> flows]
MCInject == {MCSetting("inject", "INFINITE", {1})}
MCTagFixed == {MCSetting("tag", "FIXED", {1})}
(* The shipped setting, the one with condition packets and the bare one. *)
MCSettings == {MCSetting("tag", "FIXED", {1}), MCSetting("inject", "INFINITE", {1}),
               MCSetting("switch", "INFINITE", {1})}
(* The same, with a host that monitors none of the flows whose condition   *)
(* packets it injects.                                                     *)
MCUnsampled == {MCSetting("tag", "FIXED", {1}), MCSetting("inject", "INFINITE", {}),
                MCSetting("switch", "INFINITE", {1})}
=============================================================================
