------------------------ MODULE SenderProcess_proofs ------------------------
(***************************************************************************)
(* Proofs about SenderProcess, for every setting, period, delay and range  *)
(* of the sleep.                                                           *)
(***************************************************************************)
EXTENDS SenderProcess, TLAPS

RotatorType ==
  /\ rotator \in [pc : {"off", "delay", "leave", "wait", "first", "next",
                        "rotate", "sleep", "ended"}, until : Nat, tag : Nat, cur : Nat]
  /\ rotator.pc = "sleep" => rotator.until < now + SleepMod
ConditionType ==
  condition \in [pc : {"off", "leave", "wait", "postpone", "lock", "round",
                       "ended"}, tag : Nat, cur : Nat]

(* A thread that waits has seen the clock inside interval tag, which is no *)
(* earlier than the interval of the call.                                  *)
Waits(tag, start, period) == tag >= start \div period /\ now > tag * period

RotatorWaits ==
  /\ rotator.pc \in {"leave", "wait"} => from.rotator <= now
  /\ rotator.pc = "wait" => Waits(rotator.tag, from.rotator, Whole)
  /\ rotator.pc = "first" => rotator.cur \div Whole > from.rotator \div Whole
ConditionWaits ==
  /\ condition.pc \in {"leave", "wait"} => from.condition <= now
  /\ condition.pc = "wait" => Waits(condition.tag, from.condition, Freq)
  /\ condition.pc = "postpone" => condition.cur \div Freq > from.condition \div Freq

(* The sleep ends an interval after the rotation began or, after a         *)
(* rotation that took longer, 2^32 milliseconds later or more.             *)
OnTime ==
  /\ rotator.pc \in {"first", "next", "rotate"} => rotator.cur <= now
  /\ rotator.pc = "sleep" =>
       /\ now <= rotator.until + WakeLate
       /\ ~ schedule.overran => rotator.until = rotator.cur + Interval
       /\ schedule.overran => rotator.cur + Interval + SleepMod <= rotator.until
  /\ RotationsKeepTime

Lifetime ==
  /\ destroyed => main \in {"destroy", "exited"}
  /\ destroyed => updator = "ended" /\ rotator.pc = "ended"
  /\ main \in {"join_rotator", "destroy"} => updator = "ended"
  /\ main \in {"setting", "init", "threads"} => condition.pc = "off"

Inv == TypeOK /\ RotatorWaits /\ ConditionWaits /\ OnTime /\ Lifetime
-----------------------------------------------------------------------------
(* Where a number lies between the multiples of a period. *)
LEMMA Division ==
  ASSUME NEW n \in Nat, NEW p \in Nat \ {0}
  PROVE  /\ n \div p \in Nat /\ n % p \in 0 .. p - 1
         /\ n = p * (n \div p) + (n % p)
<1>1. n \div p \in Nat
  OBVIOUS
<1>2. n % p \in 0 .. p - 1
  OBVIOUS
<1>3. n = p * (n \div p) + (n % p)
  OBVIOUS
<1> QED
  BY <1>1, <1>2, <1>3

LEMMA DivisionBelow ==
  ASSUME NEW n \in Nat, NEW p \in Nat \ {0}, NEW q \in Nat, n >= q * p
  PROVE  n \div p >= q
<1> DEFINE d == n \div p
           r == n % p
<1>1. d \in Nat /\ r \in 0 .. p - 1 /\ n = p * d + r
  BY Division
<1> HIDE DEF d, r
<1>2. SUFFICES ASSUME d + 1 <= q PROVE FALSE
  BY <1>1 DEF d
<1>3. (d + 1) * p <= q * p
  BY <1>1, <1>2
<1>4. (d + 1) * p = p * d + p
  BY <1>1
<1> QED
  BY <1>1, <1>3, <1>4

LEMMA DivisionMonotone ==
  ASSUME NEW m \in Nat, NEW n \in Nat, NEW p \in Nat \ {0}, m <= n
  PROVE  m \div p <= n \div p
<1>1. m \div p \in Nat /\ m >= (m \div p) * p
  <2>1. m \div p \in Nat /\ m % p \in 0 .. p - 1 /\ m = p * (m \div p) + (m % p)
    BY Division
  <2> QED
    BY <2>1
<1>2. n >= (m \div p) * p
  BY <1>1
<1> QED
  BY <1>1, <1>2, DivisionBelow, Division

(* get_next_interval_start(): the two loops. *)
LEMMA FirstLoop ==
  ASSUME NEW p \in Nat \ {0}, NEW start \in Nat, now \in Nat, start <= now,
         LeavesStart(p)
  PROVE  now \div p \in Nat /\ Waits(now \div p, start, p)
<1> DEFINE d == now \div p
           r == now % p
<1>1. d \in Nat /\ r \in 0 .. p - 1 /\ now = p * d + r
  BY Division
<1>2. start \div p <= d
  BY DivisionMonotone
<1>3. r # 0
  BY DEF LeavesStart
<1>4. start \div p \in Nat
  BY Division
<1> HIDE DEF d, r
<1>5. now > d * p
  BY <1>1, <1>3
<1> QED
  BY <1>1, <1>2, <1>4, <1>5 DEF Waits, d

LEMMA SecondLoop ==
  ASSUME NEW p \in Nat \ {0}, NEW start \in Nat, NEW tag \in Nat, now \in Nat,
         Waits(tag, start, p), ReachesStart(tag, p)
  PROVE  now \div p > start \div p
<1> DEFINE d == now \div p
           r == now % p
<1>1. d \in Nat /\ r \in 0 .. p - 1 /\ now = p * d + r
  BY Division
<1>2. start \div p \in Nat
  BY Division
<1>3. now >= (tag + 1) * p
  <2>1. CASE r = 0
    <3> HIDE DEF d, r
    <3>1. now = p * d
      BY <1>1, <2>1
    <3>2. SUFFICES ASSUME d <= tag PROVE FALSE
      <4>1. CASE d >= tag + 1
        <5>1. p * d >= p * (tag + 1)
          BY <1>1, <4>1
        <5> QED
          BY <1>1, <3>1, <5>1
      <4> QED
        BY <1>1, <4>1
    <3>3. p * d <= p * tag
      BY <1>1, <3>2
    <3>4. now > p * tag
      BY DEF Waits
    <3> QED
      BY <1>1, <3>1, <3>3, <3>4
  <2>2. CASE now > (tag + 1) * p
    BY <2>2
  <2> QED
    BY <2>1, <2>2 DEF ReachesStart
<1>4. now \div p >= tag + 1
  BY <1>3, DivisionBelow
<1>5. tag >= start \div p
  BY DEF Waits
<1> QED
  BY <1>1, <1>2, <1>4, <1>5
-----------------------------------------------------------------------------
LEMMA InvInit == Init => Inv
<1> SUFFICES ASSUME Init PROVE Inv
  OBVIOUS
<1>1. rotator.pc = "off" /\ condition.pc = "off" /\ main = "setting" /\ ~ destroyed
  BY DEF Init
<1>2. TypeOK
  <2>1. RotatorType /\ ConditionType
    BY DEF Init, RotatorType, ConditionType
  <2>2. schedule \in [prev : Nat, overran : BOOLEAN]
    BY DEF Init
  <2> QED
    BY <1>1, <2>1, <2>2, TimeAssumption DEF Init, TypeOK, RotatorType, ConditionType
<1> QED
  BY <1>1, <1>2 DEF Inv, RotatorWaits, ConditionWaits, OnTime, RotationsKeepTime, Lifetime

(* A sleep of the rotator ends an interval after the rotation began, or a  *)
(* multiple of SleepMod after that.                                        *)
LEMMA SleepLength ==
  ASSUME NEW d \in Nat
  PROVE  /\ ToSleep(d) \in 0 .. SleepMod - 1
         /\ d <= Interval => ToSleep(d) = Interval - d
         /\ d > Interval => d + ToSleep(d) >= Interval + SleepMod
<1>1. SleepMod \in Nat \ {0} /\ Interval \in Nat /\ Interval < SleepMod
  BY TimeAssumption
<1> DEFINE e == d % SleepMod
           q == d \div SleepMod
           s == (Interval - e) % SleepMod
<1>2. e \in 0 .. SleepMod - 1 /\ q \in Nat /\ d = SleepMod * q + e
  BY <1>1, Division
<1>3. s \in 0 .. SleepMod - 1
  <2> HIDE DEF e
  <2> QED
    BY <1>1, <1>2
<1>4. ASSUME d <= Interval PROVE s = Interval - d
  <2>1. e = d
    BY <1>1, <1>4
  <2>2. Interval - d \in 0 .. SleepMod - 1
    BY <1>1, <1>4
  <2> QED
    BY <1>1, <2>1, <2>2
<1>5. ASSUME d > Interval PROVE d + s >= Interval + SleepMod
  <2> HIDE DEF e, q
  <2>1. SleepMod * q \in Nat
    BY <1>1, <1>2
  <2>2. CASE e <= Interval
    <3>1. s = Interval - e
      <4>1. Interval - e \in 0 .. SleepMod - 1
        BY <1>1, <1>2, <2>2
      <4> QED
        BY <1>1, <4>1
    <3>2. q # 0
      BY <1>1, <1>2, <1>5, <2>2
    <3>3. SleepMod * q >= SleepMod
      BY <1>1, <1>2, <3>2
    <3> QED
      BY <1>1, <1>2, <2>1, <2>2, <3>1, <3>3
  <2>3. CASE e > Interval
    <3>1. s = Interval - e + SleepMod
      <4>1. Interval - e + SleepMod \in 0 .. SleepMod - 1
        BY <1>1, <1>2, <2>3
      <4>2. Interval - e = SleepMod * (-1) + (Interval - e + SleepMod)
        BY <1>1, <1>2
      <4> QED
        BY <1>1, <1>2, <4>1, <4>2
    <3> QED
      BY <1>1, <1>2, <2>1, <2>3, <3>1
  <2> QED
    BY <1>1, <1>2, <2>2, <2>3
<1> QED
  BY <1>3, <1>4, <1>5 DEF ToSleep

(* Steps of main do not touch the clock or a thread that runs. *)
LEMMA MainKeeps ==
  ASSUME Inv, MainStep
  PROVE  Inv'
<1> USE TimeAssumption
<1>1. CASE InitSetting \/ InitWarehouse \/ SendLast \/ EndReplay
         \/ JoinUpdator \/ Exit
  <2>1. UNCHANGED <<now, setting, until, updator, rotator, condition, destroyed,
                    from, schedule>>
    BY <1>1 DEF InitSetting, InitWarehouse, SendLast, EndReplay, JoinUpdator, Exit
  <2>2. TypeOK'
    BY <1>1, <2>1 DEF Inv, TypeOK, InitSetting, InitWarehouse, SendLast, EndReplay,
       JoinUpdator, Exit
  <2>3. (RotatorWaits /\ ConditionWaits /\ OnTime)'
    BY <2>1 DEF Inv, RotatorWaits, ConditionWaits, OnTime, Waits, RotationsKeepTime
  <2>4. Lifetime'
    BY <1>1, <2>1 DEF Inv, Lifetime, InitSetting, InitWarehouse, SendLast, EndReplay,
       JoinUpdator, Exit
  <2> QED
    BY <2>2, <2>3, <2>4 DEF Inv
<1>2. CASE StartThreads
  <2>1. CASE main' = "exited" /\ UNCHANGED <<until, updator, rotator, condition, from>>
    BY <1>2, <2>1 DEF StartThreads, Inv, TypeOK, RotatorWaits, ConditionWaits,
       OnTime, Waits, RotationsKeepTime, Lifetime
  <2>2. CASE main' = "delay"
    <3>1. /\ main = "threads" /\ main' = "delay"
          /\ until' = now + MainDelay
          /\ updator' = "opening"
          /\ rotator' = [rotator EXCEPT !.pc = "delay", !.until = now + RotatorDelay]
          /\ condition' \in {[condition EXCEPT !.pc = "leave"], condition}
          /\ from' = [from EXCEPT !.condition = now]
          /\ UNCHANGED <<now, setting, destroyed, schedule>>
      BY <1>2, <2>2 DEF StartThreads
    <3>2. rotator'.pc = "delay"
      BY <3>1 DEF Inv, TypeOK
    <3>3. TypeOK'
      <4>1. now + RotatorDelay \in Nat
        BY DEF Inv, TypeOK
      <4>2. RotatorType'
        BY <3>1, <3>2, <4>1 DEF Inv, TypeOK, RotatorType
      <4>3. ConditionType'
        BY <3>1 DEF Inv, TypeOK, ConditionType
      <4>4. from' \in [rotator : Nat, condition : Nat]
        BY <3>1 DEF Inv, TypeOK
      <4> QED
        BY <3>1, <3>2, <4>2, <4>3, <4>4 DEF Inv, TypeOK, RotatorType, ConditionType
    <3>4. (RotatorWaits /\ OnTime)'
      BY <3>2 DEF RotatorWaits, OnTime, RotationsKeepTime
    <3>5. ConditionWaits'
      <4>1. condition.pc = "off" /\ condition'.pc \in {"leave", "off"}
        BY <3>1 DEF Inv, TypeOK, Lifetime
      <4>2. from'.condition = now
        BY <3>1 DEF Inv, TypeOK
      <4> QED
        BY <3>1, <4>1, <4>2 DEF Inv, TypeOK, ConditionWaits
    <3>6. Lifetime'
      BY <3>1 DEF Inv, Lifetime
    <3> QED
      BY <3>3, <3>4, <3>5, <3>6 DEF Inv
  <2> QED
    BY <1>2, <2>1, <2>2 DEF StartThreads
<1>3. CASE StartReplay
  BY <1>3 DEF StartReplay, Inv, TypeOK, RotatorWaits, ConditionWaits, OnTime, Waits,
     RotationsKeepTime, Lifetime
<1>4. CASE JoinRotator
  BY <1>4 DEF JoinRotator, Inv, TypeOK, RotatorWaits, ConditionWaits, OnTime, Waits,
     RotationsKeepTime, Lifetime
<1> QED
  BY <1>1, <1>2, <1>3, <1>4 DEF MainStep

LEMMA UpdatorKeeps ==
  ASSUME Inv, OpenFIFO \/ ReadFails
  PROVE  Inv'
<1>1. /\ updator \in {"opening", "reading"} /\ updator' \in {"reading", "ended"}
      /\ UNCHANGED <<now, setting, main, until, rotator, condition, destroyed, from,
                     schedule>>
  BY DEF OpenFIFO, ReadFails
<1>2. TypeOK'
  BY <1>1 DEF Inv, TypeOK
<1>3. (RotatorWaits /\ ConditionWaits /\ OnTime)'
  BY <1>1 DEF Inv, RotatorWaits, ConditionWaits, OnTime, Waits, RotationsKeepTime
<1>4. Lifetime'
  BY <1>1 DEF Inv, Lifetime
<1> QED
  BY <1>2, <1>3, <1>4 DEF Inv

(* A step of the condition sender changes only its own state. *)
LEMMA ConditionKeeps ==
  ASSUME Inv, ConditionStep
  PROVE  Inv'
<1> USE TimeAssumption
<1>1. /\ UNCHANGED <<now, setting, main, until, updator, rotator, destroyed, schedule>>
      /\ from'.rotator = from.rotator
      /\ condition.pc # "off"
  BY DEF ConditionStep, ConditionLeaves, BeginRound, RoundLocksSend,
     RoundLocksWarehouse, EndRound, RoundFails, Inv, TypeOK
<1>2. (RotatorWaits /\ OnTime)'
  BY <1>1 DEF Inv, RotatorWaits, OnTime, Waits, RotationsKeepTime
<1>3. Lifetime'
  BY <1>1 DEF Inv, Lifetime
<1>4. now \in Nat /\ from.condition \in Nat /\ condition.tag \in Nat
  BY DEF Inv, TypeOK
<1>5. CASE ConditionLeaves
  <2>1. now \div Freq \in Nat /\ Waits(now \div Freq, from.condition, Freq)
    BY <1>4, <1>5, FirstLoop DEF ConditionLeaves, Inv, ConditionWaits
  <2>2. /\ condition' = [condition EXCEPT !.pc = "wait", !.tag = now \div Freq]
        /\ UNCHANGED <<now, from>> /\ condition.pc = "leave"
    BY <1>5 DEF ConditionLeaves
  <2>3. condition'.pc = "wait" /\ condition'.tag = now \div Freq
    BY <2>2 DEF Inv, TypeOK
  <2>4. ConditionWaits'
    BY <2>1, <2>2, <2>3 DEF Inv, ConditionWaits, Waits
  <2>5. ConditionType'
    BY <2>1, <2>2 DEF Inv, TypeOK, ConditionType
  <2>6. TypeOK'
    BY <1>1, <2>2, <2>5 DEF Inv, TypeOK, ConditionType
  <2> QED
    BY <1>2, <1>3, <2>4, <2>6 DEF Inv
<1>6. CASE BeginRound
  <2>1. now \div Freq > from.condition \div Freq
    BY <1>4, <1>6, SecondLoop DEF BeginRound, Inv, ConditionWaits
  <2>2. /\ condition' = [condition EXCEPT !.pc = "postpone", !.cur = now, !.tag = 0]
        /\ UNCHANGED <<now, from>>
    BY <1>6 DEF BeginRound
  <2>3. condition'.pc = "postpone" /\ condition'.cur = now
    BY <2>2 DEF Inv, TypeOK
  <2>4. ConditionWaits'
    BY <2>1, <2>2, <2>3 DEF ConditionWaits
  <2>5. ConditionType'
    BY <1>4, <2>2 DEF Inv, TypeOK, ConditionType
  <2>6. TypeOK'
    BY <1>1, <2>2, <2>5 DEF Inv, TypeOK, ConditionType
  <2> QED
    BY <1>2, <1>3, <2>4, <2>6 DEF Inv
<1>7. CASE EndRound
  <2>1. /\ condition' = [condition EXCEPT !.pc = "leave", !.cur = 0]
        /\ from' = [from EXCEPT !.condition = now]
    BY <1>7 DEF EndRound
  <2>2. condition'.pc = "leave" /\ from'.condition = now
    BY <2>1 DEF Inv, TypeOK
  <2>3. ConditionWaits'
    BY <1>1, <1>4, <2>2 DEF ConditionWaits
  <2>4. ConditionType'
    BY <2>1 DEF Inv, TypeOK, ConditionType
  <2>5. from' \in [rotator : Nat, condition : Nat]
    BY <1>4, <2>1 DEF Inv, TypeOK
  <2>6. TypeOK'
    BY <1>1, <2>4, <2>5 DEF Inv, TypeOK, ConditionType
  <2> QED
    BY <1>2, <1>3, <2>3, <2>6 DEF Inv
<1>8. CASE RoundLocksSend \/ RoundLocksWarehouse \/ RoundFails
  <2>1. /\ condition' \in {[condition EXCEPT !.pc = "lock"],
                           [condition EXCEPT !.pc = "round"],
                           [condition EXCEPT !.pc = "ended", !.cur = 0]}
        /\ UNCHANGED from
    BY <1>8 DEF RoundLocksSend, RoundLocksWarehouse, RoundFails
  <2>2. condition'.pc \in {"lock", "round", "ended"}
    BY <2>1 DEF Inv, TypeOK
  <2>3. ConditionWaits'
    BY <2>2 DEF ConditionWaits
  <2>4. ConditionType'
    <3>1. CASE condition' = [condition EXCEPT !.pc = "lock"]
      BY <3>1 DEF Inv, TypeOK, ConditionType
    <3>2. CASE condition' = [condition EXCEPT !.pc = "round"]
      BY <3>2 DEF Inv, TypeOK, ConditionType
    <3>3. CASE condition' = [condition EXCEPT !.pc = "ended", !.cur = 0]
      BY <3>3 DEF Inv, TypeOK, ConditionType
    <3> QED
      BY <2>1, <3>1, <3>2, <3>3
  <2>5. TypeOK'
    BY <1>1, <2>1, <2>4 DEF Inv, TypeOK, ConditionType
  <2> QED
    BY <1>2, <1>3, <2>3, <2>5 DEF Inv
<1> QED
  BY <1>5, <1>6, <1>7, <1>8 DEF ConditionStep

(* A step of the rotator that leaves a well-typed rotator keeps the types. *)
LEMMA RotatorTyped ==
  ASSUME Inv, RotatorType', from' \in [rotator : Nat, condition : Nat],
         schedule' \in [prev : Nat, overran : BOOLEAN],
         UNCHANGED <<now, setting, main, until, updator, condition, destroyed>>
  PROVE  TypeOK'
  BY DEF Inv, TypeOK, RotatorType

LEMMA RotatorKeeps ==
  ASSUME Inv, RotatorStep
  PROVE  Inv'
<1> USE TimeAssumption
<1>1. /\ UNCHANGED <<now, setting, main, until, updator, condition, destroyed>>
      /\ from'.condition = from.condition
      /\ rotator.pc \notin {"off", "ended"}
  BY DEF RotatorStep, OpenTargetFile, RotatorLeaves, FirstRotation, RotatorLocks,
     EndRotation, NextRotation, Inv, TypeOK
<1>2. ConditionWaits'
  BY <1>1 DEF Inv, ConditionWaits, Waits
<1>3. Lifetime'
  BY <1>1 DEF Inv, Lifetime
<1>4. /\ now \in Nat /\ from.rotator \in Nat /\ rotator.tag \in Nat
      /\ rotator.cur \in Nat /\ rotator.until \in Nat
      /\ schedule.prev \in Nat /\ schedule.overran \in BOOLEAN
  BY DEF Inv, TypeOK
<1>5. RotatorType /\ from \in [rotator : Nat, condition : Nat]
      /\ schedule \in [prev : Nat, overran : BOOLEAN]
  BY DEF Inv, TypeOK, RotatorType
<1>6. CASE OpenTargetFile
  <2>0. PICK pc \in {"ended", "leave"} :
          rotator' = [rotator EXCEPT !.pc = pc, !.until = 0]
    BY <1>6 DEF OpenTargetFile
  <2>1. from' = [from EXCEPT !.rotator = now] /\ UNCHANGED schedule
    BY <1>6 DEF OpenTargetFile
  <2>2. rotator'.pc \in {"ended", "leave"} /\ from'.rotator = now /\ RotatorType'
    BY <1>5, <2>0, <2>1 DEF RotatorType
  <2>3. (RotatorWaits /\ OnTime)'
    BY <1>1, <1>4, <2>2 DEF RotatorWaits, OnTime, RotationsKeepTime
  <2>4. from' \in [rotator : Nat, condition : Nat]
    BY <1>4, <1>5, <2>1
  <2>5. TypeOK'
    BY <1>1, <1>5, <2>1, <2>2, <2>4, RotatorTyped
  <2> QED
    BY <1>2, <1>3, <2>3, <2>5 DEF Inv
<1>7. CASE RotatorLeaves
  <2>1. now \div Whole \in Nat /\ Waits(now \div Whole, from.rotator, Whole)
    BY <1>4, <1>7, FirstLoop DEF RotatorLeaves, Inv, RotatorWaits
  <2>2. /\ rotator' = [rotator EXCEPT !.pc = "wait", !.tag = now \div Whole]
        /\ UNCHANGED <<now, from, schedule>> /\ rotator.pc = "leave"
    BY <1>7 DEF RotatorLeaves
  <2>3. rotator'.pc = "wait" /\ rotator'.tag = now \div Whole /\ RotatorType'
    BY <1>5, <2>1, <2>2 DEF RotatorType
  <2>4. RotatorWaits'
    BY <2>1, <2>2, <2>3 DEF Inv, RotatorWaits, Waits
  <2>5. OnTime'
    BY <2>3 DEF OnTime, RotationsKeepTime
  <2>6. TypeOK'
    BY <1>1, <1>5, <2>2, <2>3, RotatorTyped
  <2> QED
    BY <1>2, <1>3, <2>4, <2>5, <2>6 DEF Inv
<1>8. CASE FirstRotation
  <2>1. now \div Whole > from.rotator \div Whole
    BY <1>4, <1>8, SecondLoop DEF FirstRotation, Inv, RotatorWaits
  <2>2. /\ rotator' = [rotator EXCEPT !.pc = "first", !.cur = now, !.tag = 0]
        /\ UNCHANGED <<now, from, schedule>>
    BY <1>8 DEF FirstRotation
  <2>3. rotator'.pc = "first" /\ rotator'.cur = now /\ RotatorType'
    BY <1>4, <1>5, <2>2 DEF RotatorType
  <2>4. RotatorWaits'
    BY <2>1, <2>2, <2>3 DEF RotatorWaits
  <2>5. OnTime'
    BY <1>4, <2>2, <2>3 DEF OnTime, RotationsKeepTime
  <2>6. TypeOK'
    BY <1>1, <1>5, <2>2, <2>3, RotatorTyped
  <2> QED
    BY <1>2, <1>3, <2>4, <2>5, <2>6 DEF Inv
<1>9. CASE RotatorLocks
  <2>1. /\ rotator' = [rotator EXCEPT !.pc = "rotate"]
        /\ rotator.pc \in {"first", "next"} /\ UNCHANGED <<now, from, schedule>>
    BY <1>9 DEF RotatorLocks
  <2>2. rotator'.pc = "rotate" /\ rotator'.cur = rotator.cur /\ RotatorType'
    BY <1>5, <2>1 DEF RotatorType
  <2>3. (RotatorWaits /\ OnTime)'
    BY <2>1, <2>2 DEF Inv, RotatorWaits, OnTime, RotationsKeepTime
  <2>4. TypeOK'
    BY <1>1, <1>5, <2>1, <2>2, RotatorTyped
  <2> QED
    BY <1>2, <1>3, <2>3, <2>4 DEF Inv
<1>10. CASE EndRotation
  <2> DEFINE d == now - rotator.cur
             s == ToSleep(d)
  <2>1. rotator.cur <= now
    BY <1>10 DEF EndRotation, Inv, OnTime
  <2>2. d \in Nat
    BY <1>4, <2>1
  <2>3. /\ s \in 0 .. SleepMod - 1 /\ (d <= Interval => s = Interval - d)
        /\ d > Interval => d + s >= Interval + SleepMod
    BY <2>2, SleepLength
  <2>4. /\ rotator' = [rotator EXCEPT !.pc = "sleep", !.until = now + s]
        /\ schedule' = [schedule EXCEPT !.overran = d > Interval]
        /\ UNCHANGED <<now, from>>
    BY <1>10 DEF EndRotation
  <2>5. d = now - rotator.cur
    OBVIOUS
  <2> HIDE DEF d, s
  <2>6. rotator'.pc = "sleep" /\ rotator'.until = now + s /\ rotator'.cur = rotator.cur
    BY <1>5, <2>4 DEF RotatorType
  <2>7. now + s \in Nat /\ now + s < now + SleepMod
    BY <1>4, <2>3
  <2>8. RotatorType'
    BY <1>5, <2>4, <2>6, <2>7 DEF RotatorType
  <2>9. /\ schedule'.overran <=> d > Interval
        /\ schedule' \in [prev : Nat, overran : BOOLEAN]
    <3>1. CASE d > Interval
      <4>1. (d > Interval) = TRUE
        BY <3>1
      <4>2. schedule' = [schedule EXCEPT !.overran = TRUE]
        BY <2>4, <4>1
      <4> QED
        BY <1>5, <3>1, <4>2
    <3>2. CASE ~ (d > Interval)
      <4>1. (d > Interval) = FALSE
        BY <3>2
      <4>2. schedule' = [schedule EXCEPT !.overran = FALSE]
        BY <2>4, <4>1
      <4> QED
        BY <1>5, <3>2, <4>2
    <3> QED
      BY <3>1, <3>2
  <2>10. OnTime'
    <3>1. now <= now + s + WakeLate
      BY <1>4, <2>3
    <3>2. d <= Interval => now + s = rotator.cur + Interval
      BY <1>4, <2>2, <2>3, <2>5
    <3>3. d > Interval => rotator.cur + Interval + SleepMod <= now + s
      BY <1>4, <2>2, <2>3, <2>5
    <3>4. ~ (d > Interval) => d <= Interval
      BY <2>2
    <3> QED
      BY <2>4, <2>6, <2>9, <3>1, <3>2, <3>3, <3>4 DEF OnTime, RotationsKeepTime
  <2>11. RotatorWaits'
    BY <2>6 DEF RotatorWaits
  <2>12. TypeOK'
    BY <1>1, <1>5, <2>4, <2>8, <2>9, RotatorTyped
  <2> QED
    BY <1>2, <1>3, <2>10, <2>11, <2>12 DEF Inv
<1>11. CASE NextRotation
  <2>1. /\ rotator' = [rotator EXCEPT !.pc = "next", !.cur = now, !.until = 0]
        /\ schedule' = [schedule EXCEPT !.prev = rotator.cur]
        /\ UNCHANGED <<now, from>> /\ now >= rotator.until /\ rotator.pc = "sleep"
    BY <1>11 DEF NextRotation
  <2>2. rotator'.pc = "next" /\ rotator'.cur = now /\ RotatorType'
    BY <1>4, <1>5, <2>1 DEF RotatorType
  <2>3. /\ schedule'.prev = rotator.cur /\ schedule'.overran = schedule.overran
        /\ schedule' \in [prev : Nat, overran : BOOLEAN]
    BY <1>4, <1>5, <2>1
  <2>4. OnTime'
    <3>1. /\ rotator.cur + Interval <= now
          /\ ~ schedule.overran => now <= rotator.cur + Interval + WakeLate
          /\ schedule.overran => rotator.cur + Interval + SleepMod <= now
      BY <1>4, <2>1 DEF Inv, OnTime
    <3> QED
      BY <1>4, <2>1, <2>2, <2>3, <3>1 DEF OnTime, RotationsKeepTime
  <2>5. RotatorWaits'
    BY <2>2 DEF RotatorWaits
  <2>6. TypeOK'
    BY <1>1, <1>5, <2>1, <2>2, <2>3, RotatorTyped
  <2> QED
    BY <1>2, <1>3, <2>4, <2>5, <2>6 DEF Inv
<1> QED
  BY <1>6, <1>7, <1>8, <1>9, <1>10, <1>11 DEF RotatorStep

LEMMA TickKeeps ==
  ASSUME Inv, Tick
  PROVE  Inv'
<1> USE TimeAssumption
<1>1. /\ now' = now + 1 /\ now \in Nat
      /\ UNCHANGED <<setting, main, until, updator, rotator, condition, destroyed,
                     from, schedule>>
  BY DEF Tick, Inv, TypeOK
<1>2. /\ rotator.cur \in Nat /\ rotator.until \in Nat /\ rotator.tag \in Nat
      /\ condition.tag \in Nat /\ from.rotator \in Nat /\ from.condition \in Nat
  BY DEF Inv, TypeOK
<1>3. TypeOK'
  BY <1>1, <1>2 DEF Inv, TypeOK
<1>4. ASSUME NEW tag \in Nat, NEW start \in Nat, NEW p \in Nat, Waits(tag, start, p)
      PROVE  tag >= start \div p /\ now + 1 > tag * p
  <2>1. tag * p \in Nat
    OBVIOUS
  <2> QED
    BY <1>1, <1>4, <2>1 DEF Waits
<1>5. RotatorWaits'
  <2>1. rotator.pc = "wait" => rotator.tag >= from.rotator \div Whole
                               /\ now + 1 > rotator.tag * Whole
    BY <1>2, <1>4 DEF Inv, RotatorWaits
  <2> QED
    BY <1>1, <1>2, <2>1 DEF Inv, RotatorWaits, Waits
<1>6. ConditionWaits'
  <2>1. condition.pc = "wait" => condition.tag >= from.condition \div Freq
                                 /\ now + 1 > condition.tag * Freq
    BY <1>2, <1>4 DEF Inv, ConditionWaits
  <2> QED
    BY <1>1, <1>2, <2>1 DEF Inv, ConditionWaits, Waits
<1>7. OnTime'
  BY <1>1, <1>2 DEF Inv, OnTime, RotationsKeepTime, Tick
<1>8. Lifetime'
  BY <1>1 DEF Inv, Lifetime
<1> QED
  BY <1>3, <1>5, <1>6, <1>7, <1>8 DEF Inv

LEMMA InvStep == Inv /\ [Next]_vars => Inv'
<1> SUFFICES ASSUME Inv, [Next]_vars PROVE Inv'
  OBVIOUS
<1>1. CASE MainStep
  BY <1>1, MainKeeps
<1>2. CASE OpenFIFO \/ ReadFails
  BY <1>2, UpdatorKeeps
<1>3. CASE RotatorStep
  BY <1>3, RotatorKeeps
<1>4. CASE ConditionStep
  BY <1>4, ConditionKeeps
<1>5. CASE Tick
  BY <1>5, TickKeeps
<1>6. CASE UNCHANGED vars
  BY <1>6 DEF vars, Inv, TypeOK, RotatorWaits, ConditionWaits, OnTime, Waits, RotationsKeepTime,
     Lifetime
<1> QED
  BY <1>1, <1>2, <1>3, <1>4, <1>5, <1>6 DEF Next

LEMMA InvHolds == Spec => []Inv
  BY InvInit, InvStep, PTL DEF Spec
-----------------------------------------------------------------------------
(* The state of a sender is well formed, and the rotator never asks for a  *)
(* sleep of 2^32 milliseconds or more.                                     *)
THEOREM TypeCorrect == Spec => []TypeOK
  BY InvHolds, PTL DEF Inv

(* get_next_interval_start() returns in a later interval than it was       *)
(* called in, for every period and however the threads are scheduled.      *)
THEOREM StartsLater == Spec => []StartsInLaterInterval
<1>1. Inv => StartsInLaterInterval
  BY DEF Inv, RotatorWaits, ConditionWaits, StartsInLaterInterval
<1> QED
  BY <1>1, InvHolds, PTL

(* Consecutive rotations begin an interval apart, late by at most what     *)
(* nanosleep() adds, or after a rotation longer than an interval at least  *)
(* the range of to_sleep_msec later.                                       *)
THEOREM RotatorKeepsTime == Spec => []RotationsKeepTime
<1>1. Inv => RotationsKeepTime
  BY DEF Inv, OnTime, RotationsKeepTime
<1> QED
  BY <1>1, InvHolds, PTL

(* The data warehouse outlives the updator and the rotator. *)
THEOREM WarehouseOutlives == Spec => []DestroyedAfterUsers
<1>1. Inv => DestroyedAfterUsers
  BY DEF Inv, Lifetime, DestroyedAfterUsers
<1> QED
  BY <1>1, InvHolds, PTL
=============================================================================
