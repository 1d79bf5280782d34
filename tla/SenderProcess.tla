--------------------------- MODULE SenderProcess ---------------------------
(***************************************************************************)
(* The life of one sender process and the clock its threads go by.         *)
(*   main      reads the setting, initialises the data warehouse, starts   *)
(*             the threads, replays the trace, joins the updator and the   *)
(*             rotator and destroys the data warehouse (tcpreplay.c);      *)
(*   updator   ends when its FIFO cannot be opened or read;                *)
(*   rotator   ends when its file cannot be opened; otherwise it waits for *)
(*             the next whole ten minutes and then rotates once an         *)
(*             interval (interval_rotator.c);                              *)
(*   condition sends a round at the start of every condition interval, and *)
(*             ends, with both its mutexes locked, when a round runs out   *)
(*             of memory (condition_sender.c).                             *)
(* What the threads do with the data warehouse is DataWarehouse's; here a  *)
(* rotation or a round takes time and holds mutexes.  Time is              *)
(* CLOCK_REALTIME in milliseconds, which is not set back.  Local variables *)
(* are set to 0 when they are used no more.                                *)
(***************************************************************************)
EXTENDS Integers

CONSTANTS
  Whole,         \* 600000, ten minutes
  Interval,      \* interval_msec_len
  Freq,          \* condition_msec_freq
  SleepMod,      \* 2^32, the range of to_sleep_msec
  MainDelay, RotatorDelay,  \* sleep(1) and sleep(2)
  WakeLate,      \* how late nanosleep() returns at most
  StartTimes,    \* when the process may be started
  Settings,      \* what the setting file may state
  MaxTime        \* bound: the clock

ASSUME TimeAssumption ==
  /\ Whole \in Nat \ {0} /\ Interval \in Nat \ {0} /\ Freq \in Nat \ {0}
  /\ SleepMod \in Nat /\ Interval < SleepMod
  /\ MainDelay \in Nat /\ RotatorDelay \in Nat
  /\ WakeLate \in Nat
  /\ StartTimes \subseteq Nat /\ MaxTime \in Nat

(* A field the file does not state is 0; the thresholds and the volumes of *)
(* the switches count as one field each.                                   *)
Setting ==
  [interval_msec_len : {0, Interval}, condition_msec_freq : {0, Freq},
   switch_memory_times : {0, 1}, thresholds : {0, 1}, volumes : {0, 1},
   inject : BOOLEAN, host_sample : BOOLEAN, replacement : BOOLEAN]
ASSUME SettingAssumption == Settings \subseteq Setting

VARIABLES
  now,
  setting,    \* cm_experiment_setting
  main,       \* where main() is
  until,      \* when main's sleep ends
  updator,    \* "off", "opening", "reading" or "ended"
  rotator,    \* the rotator's place, sleep, pre_interval_tag and current_msec
  condition,  \* the same of the condition sender
  destroyed,  \* data_warehouse_destroy() has begun
  from,       \* history: when each thread called get_next_interval_start()
  schedule    \* history: when the rotation before began, and whether the
              \* last one took longer than an interval

vars == <<now, setting, main, until, updator, rotator, condition, destroyed,
          from, schedule>>

Init ==
  /\ now \in StartTimes
  /\ setting \in Settings
  /\ main = "setting"
  /\ until = 0
  /\ updator = "off"
  /\ rotator = [pc |-> "off", until |-> 0, tag |-> 0, cur |-> 0]
  /\ condition = [pc |-> "off", tag |-> 0, cur |-> 0]
  /\ destroyed = FALSE
  /\ from = [rotator |-> 0, condition |-> 0]
  /\ schedule = [prev |-> 0, overran |-> FALSE]

Running == main # "exited"

(* packet_send_mutex is held by the condition sender for a round, and by   *)
(* main for one packet; data_warehouse_mutex is held for a round and for a *)
(* rotation.  A condition sender that has ended has unlocked neither.      *)
PacketSendFree == condition.pc \notin {"lock", "round", "ended"}
WarehouseFree == condition.pc \notin {"round", "ended"} /\ rotator.pc # "rotate"
-----------------------------------------------------------------------------
(* check_value_correct() *)
ValueCorrect(s) ==
  /\ s.interval_msec_len # 0
  /\ s.condition_msec_freq # 0
  /\ s.switch_memory_times # 0
  /\ s.thresholds # 0
  /\ s.volumes # 0

(* init_cm_experiment_setting(); the file may be missing. *)
InitSetting ==
  /\ main = "setting"
  /\ \/ main' = "exited"
     \/ ValueCorrect(setting) /\ main' = "init"
  /\ UNCHANGED <<now, setting, until, updator, rotator, condition, destroyed,
                 from, schedule>>

(* data_warehouse_init() fails without tasks or memory. *)
InitWarehouse ==
  /\ main = "init"
  /\ main' \in {"threads", "exited"}
  /\ UNCHANGED <<now, setting, until, updator, rotator, condition, destroyed,
                 from, schedule>>

(* Conditions are sent in packets of their own. *)
NeedsConditions(s) == s.inject /\ s.host_sample /\ s.replacement

(* pthread_create() for the threads, or a return when one fails. *)
StartThreads ==
  /\ main = "threads"
  /\ \/ main' = "exited" /\ UNCHANGED <<until, updator, rotator, condition, from>>
     \/ /\ main' = "delay"
        /\ until' = now + MainDelay
        /\ updator' = "opening"
        /\ rotator' = [rotator EXCEPT !.pc = "delay", !.until = now + RotatorDelay]
        /\ condition' = IF NeedsConditions(setting)
                        THEN [condition EXCEPT !.pc = "leave"] ELSE condition
        /\ from' = [from EXCEPT !.condition = now]
  /\ UNCHANGED <<now, setting, destroyed, schedule>>

StartReplay ==
  /\ main = "delay"
  /\ now >= until
  /\ main' = "replay"
  /\ until' = 0
  /\ UNCHANGED <<now, setting, updator, rotator, condition, destroyed,
                 from, schedule>>

(* send_packets(): the last packet of the trace needs packet_send_mutex. *)
SendLast ==
  /\ main = "replay" /\ PacketSendFree
  /\ main' = "sent"
  /\ UNCHANGED <<now, setting, until, updator, rotator, condition, destroyed,
                 from, schedule>>

(* tcpreplay_replay() returns, after the last packet or before one; an     *)
(* error ends the process.                                                 *)
EndReplay ==
  /\ \/ main = "sent" /\ main' = "join_updator"
     \/ main \in {"replay", "sent"} /\ main' = "exited"
  /\ UNCHANGED <<now, setting, until, updator, rotator, condition, destroyed,
                 from, schedule>>

(* Mutant of JoinUpdator: the condition sender is joined as well. *)
JoinUpdatorAll ==
  /\ main = "join_updator"
  /\ updator = "ended" /\ condition.pc = "off"
  /\ main' = "join_rotator"
  /\ UNCHANGED <<now, setting, until, updator, rotator, condition, destroyed,
                 from, schedule>>

JoinUpdator ==
  /\ main = "join_updator"
  /\ updator = "ended"
  /\ main' = "join_rotator"
  /\ UNCHANGED <<now, setting, until, updator, rotator, condition, destroyed,
                 from, schedule>>

(* Mutant of JoinRotator: the rotator is not joined. *)
JoinRotatorNot ==
  /\ main = "join_rotator"
  /\ main' = "destroy"
  /\ destroyed' = TRUE
  /\ UNCHANGED <<now, setting, until, updator, rotator, condition, from, schedule>>

(* The rotator has ended; data_warehouse_destroy() begins. *)
JoinRotator ==
  /\ main = "join_rotator"
  /\ rotator.pc = "ended"
  /\ main' = "destroy"
  /\ destroyed' = TRUE
  /\ UNCHANGED <<now, setting, until, updator, rotator, condition, from, schedule>>

Exit ==
  /\ main = "destroy"
  /\ main' = "exited"
  /\ UNCHANGED <<now, setting, until, updator, rotator, condition, destroyed,
                 from, schedule>>

MainStep ==
  \/ InitSetting \/ InitWarehouse \/ StartThreads \/ StartReplay \/ SendLast
  \/ EndReplay \/ JoinUpdator \/ JoinRotator \/ Exit
-----------------------------------------------------------------------------
(* flow_infor_update(): the FIFO is opened, then read until a read fails. *)
OpenFIFO ==
  /\ Running /\ updator = "opening"
  /\ updator' \in {"reading", "ended"}
  /\ UNCHANGED <<now, setting, main, until, rotator, condition, destroyed, from,
                 schedule>>
ReadFails ==
  /\ Running /\ updator = "reading"
  /\ updator' = "ended"
  /\ UNCHANGED <<now, setting, main, until, rotator, condition, destroyed, from,
                 schedule>>
-----------------------------------------------------------------------------
(* Mutant of LeavesStart: the first loop is left at once. *)
LeavesStartAtOnce(period) == TRUE

(* get_next_interval_start(): the first loop ends when now is not the      *)
(* start of an interval, the second at a later start or after it.          *)
LeavesStart(period) == now % period # 0
ReachesStart(tag, period) == now % period = 0 \/ now > (tag + 1) * period

(* rotate_interval(): the first sleep is over; the file is opened. *)
OpenTargetFile ==
  /\ Running /\ rotator.pc = "delay" /\ now >= rotator.until
  /\ \E pc \in {"ended", "leave"} :
       rotator' = [rotator EXCEPT !.pc = pc, !.until = 0]
  /\ from' = [from EXCEPT !.rotator = now]
  /\ UNCHANGED <<now, setting, main, until, updator, condition, destroyed, schedule>>

RotatorLeaves ==
  /\ Running /\ rotator.pc = "leave" /\ LeavesStart(Whole)
  /\ rotator' = [rotator EXCEPT !.pc = "wait", !.tag = now \div Whole]
  /\ UNCHANGED <<now, setting, main, until, updator, condition, destroyed, from,
                 schedule>>

(* current_msec is the time before the wait for data_warehouse_mutex. *)
FirstRotation ==
  /\ Running /\ rotator.pc = "wait" /\ ReachesStart(rotator.tag, Whole)
  /\ rotator' = [rotator EXCEPT !.pc = "first", !.cur = now, !.tag = 0]
  /\ UNCHANGED <<now, setting, main, until, updator, condition, destroyed, from,
                 schedule>>

RotatorLocks ==
  /\ Running /\ rotator.pc \in {"first", "next"} /\ WarehouseFree
  /\ rotator' = [rotator EXCEPT !.pc = "rotate"]
  /\ UNCHANGED <<now, setting, main, until, updator, condition, destroyed, from,
                 schedule>>

(* Mutant of ToSleep: the time the rotation took is not subtracted. *)
ToSleepWhole(duration) == Interval

(* Mutant of ToSleep: to_sleep_msec has 64 bits. *)
ToSleepLong(duration) == (Interval - duration) % (SleepMod * SleepMod)

(* to_sleep_msec is unsigned and has 32 bits. *)
ToSleep(duration) == (Interval - (duration % SleepMod)) % SleepMod

EndRotation ==
  LET duration == now - rotator.cur
  IN  /\ Running /\ rotator.pc = "rotate"
      /\ rotator' = [rotator EXCEPT !.pc = "sleep", !.until = now + ToSleep(duration)]
      /\ schedule' = [schedule EXCEPT !.overran = duration > Interval]
      /\ UNCHANGED <<now, setting, main, until, updator, condition, destroyed, from>>

NextRotation ==
  /\ Running /\ rotator.pc = "sleep" /\ now >= rotator.until
  /\ rotator' = [rotator EXCEPT !.pc = "next", !.cur = now, !.until = 0]
  /\ schedule' = [schedule EXCEPT !.prev = rotator.cur]
  /\ UNCHANGED <<now, setting, main, until, updator, condition, destroyed, from>>
-----------------------------------------------------------------------------
ConditionLeaves ==
  /\ Running /\ condition.pc = "leave" /\ LeavesStart(Freq)
  /\ condition' = [condition EXCEPT !.pc = "wait", !.tag = now \div Freq]
  /\ UNCHANGED <<now, setting, main, until, updator, rotator, destroyed, from,
                 schedule>>

(* get_next_interval_start() returns, and the round is postponed. *)
BeginRound ==
  /\ Running /\ condition.pc = "wait" /\ ReachesStart(condition.tag, Freq)
  /\ condition' = [condition EXCEPT !.pc = "postpone", !.cur = now, !.tag = 0]
  /\ UNCHANGED <<now, setting, main, until, updator, rotator, destroyed, from,
                 schedule>>

(* The round locks packet_send_mutex, then data_warehouse_mutex. *)
RoundLocksSend ==
  /\ Running /\ condition.pc = "postpone"
  /\ condition' = [condition EXCEPT !.pc = "lock"]
  /\ UNCHANGED <<now, setting, main, until, updator, rotator, destroyed, from,
                 schedule>>
RoundLocksWarehouse ==
  /\ Running /\ condition.pc = "lock" /\ WarehouseFree
  /\ condition' = [condition EXCEPT !.pc = "round"]
  /\ UNCHANGED <<now, setting, main, until, updator, rotator, destroyed, from,
                 schedule>>

EndRound ==
  /\ Running /\ condition.pc = "round"
  /\ condition' = [condition EXCEPT !.pc = "leave", !.cur = 0]
  /\ from' = [from EXCEPT !.condition = now]
  /\ UNCHANGED <<now, setting, main, until, updator, rotator, destroyed, schedule>>

(* The map of what was sent cannot be created anew: the thread returns and *)
(* leaves both mutexes locked.                                             *)
RoundFails ==
  /\ Running /\ condition.pc = "round"
  /\ condition' = [condition EXCEPT !.pc = "ended", !.cur = 0]
  /\ UNCHANGED <<now, setting, main, until, updator, rotator, destroyed, from,
                 schedule>>
-----------------------------------------------------------------------------
(* Time passes; a sleep is at most WakeLate longer than asked for. *)
Tick ==
  /\ Running /\ now < MaxTime
  /\ rotator.pc = "sleep" => now < rotator.until + WakeLate
  /\ now' = now + 1
  /\ UNCHANGED <<setting, main, until, updator, rotator, condition, destroyed,
                 from, schedule>>

RotatorStep ==
  \/ OpenTargetFile \/ RotatorLeaves \/ FirstRotation \/ RotatorLocks
  \/ EndRotation \/ NextRotation
ConditionStep ==
  \/ ConditionLeaves \/ BeginRound \/ RoundLocksSend \/ RoundLocksWarehouse
  \/ EndRound \/ RoundFails

Next ==
  \/ MainStep \/ OpenFIFO \/ ReadFails \/ RotatorStep \/ ConditionStep \/ Tick

Spec == Init /\ [][Next]_vars

(* main, the rounds and the clock go on, and main gets packet_send_mutex   *)
(* if it is unlocked again and again.                                      *)
FairSpec ==
  /\ Spec
  /\ WF_vars(MainStep) /\ SF_vars(SendLast) /\ WF_vars(Tick)
  /\ WF_vars(ConditionStep)
-----------------------------------------------------------------------------
TypeOK ==
  /\ now \in Nat /\ until \in Nat
  /\ setting \in Settings
  /\ main \in {"setting", "init", "threads", "delay", "replay", "sent",
               "join_updator", "join_rotator", "destroy", "exited"}
  /\ updator \in {"off", "opening", "reading", "ended"}
  /\ rotator \in [pc : {"off", "delay", "leave", "wait", "first", "next",
                        "rotate", "sleep", "ended"}, until : Nat, tag : Nat, cur : Nat]
  /\ rotator.pc = "sleep" => rotator.until < now + SleepMod
  /\ condition \in [pc : {"off", "leave", "wait", "postpone", "lock", "round",
                          "ended"}, tag : Nat, cur : Nat]
  /\ destroyed \in BOOLEAN
  /\ from \in [rotator : Nat, condition : Nat]
  /\ schedule \in [prev : Nat, overran : BOOLEAN]

(* get_next_interval_start(): it returns in a later interval than the one  *)
(* it was called in, however late the loops look at the clock: no two      *)
(* rounds of conditions begin in one condition interval.                   *)
StartsInLaterInterval ==
  /\ rotator.pc = "first" => rotator.cur \div Whole > from.rotator \div Whole
  /\ condition.pc = "postpone" => condition.cur \div Freq > from.condition \div Freq

(* rotate_interval(): two consecutive rotations never begin closer than an *)
(* interval to each other, and the second begins late only by what         *)
(* nanosleep() adds, unless the first took longer than an interval, the    *)
(* wait for data_warehouse_mutex included: then to_sleep_msec wraps, and   *)
(* the second is late by 2^32 milliseconds at least.                       *)
RotationsKeepTime ==
  rotator.pc = "next" =>
    /\ schedule.prev + Interval <= rotator.cur
    /\ ~ schedule.overran => rotator.cur <= schedule.prev + Interval + WakeLate
    /\ schedule.overran => schedule.prev + Interval + SleepMod <= rotator.cur

(* main(): the data warehouse is destroyed only when the updator and the   *)
(* rotator have given up.  (The condition sender is not joined.)           *)
DestroyedAfterUsers == destroyed => updator = "ended" /\ rotator.pc = "ended"

(* A sender whose updator and rotator have given up ends, however its      *)
(* rounds of conditions fall; unless the condition sender has given up as  *)
(* well, with packet_send_mutex locked: main may then wait for the mutex   *)
(* for ever.                                                               *)
BrokenSenderExits ==
  (updator = "ended" /\ rotator.pc = "ended")
    ~> (main = "exited" \/ condition.pc = "ended")
=============================================================================
