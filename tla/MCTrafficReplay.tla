-------------------------- MODULE MCTrafficReplay --------------------------
(* A small instance of TrafficReplay: two senders with networks of two     *)
(* addresses.                                                              *)
EXTENDS TrafficReplay, TLC

MCTask(s, r, m) == [sender_host |-> s, receiver_host |-> r, monitors |-> m]

(* The first, the second and the last switch monitor; a file with a line   *)
(* that has no monitors, and one without a task for the second host.       *)
MCTaskFiles ==
  {<<Comment, MCTask(1, 2, {1, 2}), MCTask(2, 1, {1, 12})>>,
   <<MCTask(1, 2, {2}), MCTask(2, 1, {})>>,
   <<MCTask(1, 2, {12})>>}

MCSymmetry == Permutations(Ip)
=============================================================================
