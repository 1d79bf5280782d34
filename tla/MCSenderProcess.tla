-------------------------- MODULE MCSenderProcess --------------------------
(* A small instance of SenderProcess. *)
EXTENDS SenderProcess

MCSetting(freq, inject) ==
  [interval_msec_len |-> Interval, condition_msec_freq |-> freq,
   switch_memory_times |-> 1, thresholds |-> 1, volumes |-> 1,
   inject |-> inject, host_sample |-> TRUE, replacement |-> TRUE]

(* With and without condition packets, and one that states no frequency. *)
MCSettings == {MCSetting(Freq, TRUE), MCSetting(Freq, FALSE), MCSetting(0, TRUE)}
=============================================================================
