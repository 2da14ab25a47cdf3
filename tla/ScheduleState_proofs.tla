------------------------ MODULE ScheduleState_proofs ------------------------
(***************************************************************************)
(* Theorems about ScheduleState, for every day length, every set of        *)
(* durations and every combination of write faults.                        *)
(***************************************************************************)
EXTENDS ScheduleState, HNS24HTime_proofs, TLAPS

LEMMA ParsedIsUInt ==
  ASSUME NEW text \in Durations, NEW d \in ParseTime(text)
  PROVE  d \in UInt /\ d \in Nat
BY ScheduleStateAssumption, TimeAssumption DEF ParseTime, UInt

LEMMA NextSecond ==
  ASSUME NEW t \in ClockTime
  PROVE  /\ (t + 1) % DaySecs \in ClockTime
         /\ t + 1 < DaySecs => (t + 1) % DaySecs = t + 1
         /\ t + 1 = DaySecs => (t + 1) % DaySecs = 0
BY TimeAssumption DEF ClockTime

LEMMA WriteType ==
  ASSUME TypeOK, NEW value \in {"enabled", "disabled"}, UpdateStateFile(value)
  PROVE  /\ saved' \in BOOLEAN
         /\ stateFile' \in FileContent
         /\ saved' => stateFile' = value
<1>1. PICK outcome \in WriteOutcome :
        /\ saved' = (outcome = "done")
        /\ stateFile' = CASE outcome = "done" -> value
                          [] outcome = "short" -> "torn"
                          [] outcome = "refused" -> stateFile
  BY DEF UpdateStateFile
<1>2. outcome \in {"done", "refused", "short"}
  BY ScheduleStateAssumption DEF WriteOutcome
<1> QED BY <1>1, <1>2 DEF TypeOK, FileContent

THEOREM StateTypeOK == Spec => []TypeOK
<1>1. Init => TypeOK
  <2> SUFFICES ASSUME Init PROVE TypeOK
    OBVIOUS
  <2>1. up \in BOOLEAN /\ saved \in BOOLEAN
    <3>1. (stateFile \in {"enabled", "disabled"}) \in BOOLEAN
      OBVIOUS
    <3>2. saved \in BOOLEAN
      BY <3>1 DEF Init
    <3> QED BY <3>2 DEF Init
  <2>2. 0 \in UInt /\ 0 \in TimeOfDay /\ 0 \in 0 .. MaxLag /\ 0 \in 0 .. MaxClockSets
    BY TimeAssumption, ScheduleStateAssumption DEF UInt, TimeOfDay
  <2> QED BY <2>1, <2>2 DEF Init, TypeOK, State, FileContent, StateRead
<1>2. TypeOK /\ [Next]_vars => TypeOK'
  <2> SUFFICES ASSUME TypeOK, [Next]_vars PROVE TypeOK'
    OBVIOUS
  <2>0. MaxLag \in Nat \ {0} /\ MaxClockSets \in Nat /\ 0 \in UInt
    BY ScheduleStateAssumption, TimeAssumption DEF UInt
  <2>1. CASE SetStateDisabled
    BY <2>1, WriteType DEF SetStateDisabled, Commanded, clock, TypeOK, State
  <2>2. CASE RequestEnable
    BY <2>2, WriteType DEF RequestEnable, SetStateEnabled, Commanded, clock, TypeOK, State
  <2>3. ASSUME NEW text \in Durations, SetStateInhibited(text) PROVE TypeOK'
    <3>1. PICK d \in ParseTime(text) :
            /\ inhibitUntil' = AddDuration(now, d)
            /\ promise' = IF text = Malformed THEN 0 ELSE d
      BY <2>3 DEF SetStateInhibited
    <3>2. inhibitUntil' \in TimeOfDay
      BY <3>1, AddSecondsType, ParsedIsUInt DEF AddDuration, TypeOK, ClockTime
    <3>3. promise' \in UInt
      BY <2>0, <3>1, ParsedIsUInt
    <3> QED BY <2>3, <3>2, <3>3 DEF SetStateInhibited, clock, command, TypeOK, State
  <2>4. CASE Poll
    <3>1. lag' \in 0 .. MaxLag
      BY <2>0, <2>4 DEF Poll
    <3>2. owed' \in {"enabled", "disabled"} /\ lived' \in BOOLEAN
      <4>1. lived' = TRUE \/ lived' = lived
        BY <2>4 DEF Poll, InhibitEnded, command
      <4>2. lived' \in BOOLEAN
        BY <4>1, Zenon DEF TypeOK
      <4> QED BY <2>4, <4>2 DEF Poll, InhibitEnded, command, TypeOK
    <3>3. CASE InhibitOver
      BY <2>4, <3>1, <3>2, <3>3, WriteType DEF Poll, SetStateEnabled, TypeOK, State
    <3>4. CASE ~InhibitOver
      <4>1. UNCHANGED <<up, schState, inhibitUntil, stateFile, readResult,
                        saved, promise, now, clockSets>>
        BY <2>4, <3>4 DEF Poll, code
      <4>2. up' \in BOOLEAN /\ saved' \in BOOLEAN
        BY <4>1, Zenon DEF TypeOK
      <4> QED BY <3>1, <3>2, <4>1, <4>2 DEF TypeOK
    <3> QED BY <3>3, <3>4
  <2>5. CASE Boot
    BY <2>0, <2>5, TimeAssumption DEF Boot, command, TypeOK, StateRead, State, TimeOfDay
  <2>6. CASE Crash
    BY <2>0, <2>6 DEF Crash, clock, TypeOK
  <2>7. ASSUME NEW value \in {"enabled", "disabled"}, CrashInWrite(value) PROVE TypeOK'
    BY <2>0, <2>7 DEF CrashInWrite, DiesInWrite, Commanded, clock, TypeOK, FileContent
  <2>11. CASE CrashInExpiry
    BY <2>0, <2>11 DEF CrashInExpiry, DiesInWrite, InhibitEnded, clock, TypeOK, FileContent
  <2>8. CASE Tick
    <3>1. now' \in ClockTime
      BY <2>8, NextSecond DEF Tick, TypeOK
    <3>2. lag' \in 0 .. MaxLag
      BY <2>0, <2>8 DEF Tick, TypeOK
    <3>3. promise' \in UInt
      BY <2>0, <2>8, TimeAssumption DEF Tick, TypeOK, UInt
    <3> QED BY <2>8, <3>1, <3>2, <3>3 DEF Tick, code, command, TypeOK
  <2>9. CASE SetClock
    BY <2>0, <2>9, ScheduleStateAssumption DEF SetClock, code, command, TypeOK
  <2>10. CASE UNCHANGED vars
    BY <2>10 DEF vars, code, command, clock, TypeOK
  <2> QED BY <2>1, <2>2, <2>3, <2>4, <2>5, <2>6, <2>7, <2>8, <2>9, <2>10, <2>11
         DEF Next
<1> QED BY <1>1, <1>2, PTL DEF Spec

\* For any number of inhibits, deaths, restarts and failed writes.  A daemon
\* that is down has not lived on, which a start needs.
THEOREM StateCommandSurvives == Spec => []CommandSurvives
<1> DEFINE IInv == CommandSurvives /\ (lived => up)
<1>1. Init => IInv
  <2> SUFFICES ASSUME Init PROVE IInv
    OBVIOUS
  <2>1. saved => stateFile \in {"enabled", "disabled"}
    BY Zenon DEF Init
  <2> QED BY <2>1 DEF Init, CommandSurvives, StateRead
<1>2. TypeOK /\ IInv /\ [Next]_vars => IInv'
  <2> SUFFICES ASSUME TypeOK, IInv, [Next]_vars PROVE IInv'
    OBVIOUS
  <2> USE DEF CommandSurvives
  <2>1. CASE SetStateDisabled
    BY <2>1, WriteType DEF SetStateDisabled, Commanded
  <2>2. CASE RequestEnable
    BY <2>2, WriteType DEF RequestEnable, SetStateEnabled, Commanded
  <2>3. ASSUME NEW text \in Durations, SetStateInhibited(text) PROVE IInv'
    BY <2>3 DEF SetStateInhibited, command
  <2>4. CASE Poll
    <3>1. CASE InhibitOver
      <4>1. schState' = "enabled" /\ (saved' => stateFile' = "enabled") /\ up'
        BY <2>4, <3>1, WriteType DEF Poll, SetStateEnabled
      <4>2. owed' = "enabled"
        BY <2>4, <3>1, <4>1 DEF Poll, InhibitOver, InhibitEnded
      <4> QED BY <4>1, <4>2
    <3>2. CASE ~InhibitOver
      BY <2>4, <3>2 DEF Poll, code, command
    <3> QED BY <3>1, <3>2
  <2>5. CASE Boot
    BY <2>5 DEF Boot, command, StateRead, TypeOK
  <2>6. CASE Crash
    BY <2>6 DEF Crash
  <2>7. ASSUME NEW value \in {"enabled", "disabled"}, CrashInWrite(value)
        PROVE  IInv'
    BY <2>7 DEF CrashInWrite, DiesInWrite, Commanded
  <2>8. CASE CrashInExpiry
    BY <2>8 DEF CrashInExpiry, DiesInWrite, InhibitEnded
  <2>9. CASE Tick \/ SetClock \/ UNCHANGED vars
    BY <2>9 DEF Tick, SetClock, vars, code, command, clock
  <2> QED BY <2>1, <2>2, <2>3, <2>4, <2>5, <2>6, <2>7, <2>8, <2>9 DEF Next
<1> QED BY <1>1, <1>2, StateTypeOK, PTL DEF Spec

(***************************************************************************)
(* InhibitHolds.  What is left of the promised duration ends no later than *)
(* inhibitUntil; a promise that reaches midnight has inhibitUntil at       *)
(* 24:00:00, which no clock shows.                                         *)
(***************************************************************************)
PromiseKept ==
  schState = "inhibit" =>
    \/ promise = 0
    \/ inhibitUntil = DaySecs
    \/ now + promise <= inhibitUntil

LEMMA TickKeepsPromise ==
  ASSUME TypeOK, PromiseKept, Tick
  PROVE  PromiseKept'
<1> SUFFICES ASSUME schState = "inhibit" PROVE PromiseKept'
  BY DEF Tick, code, PromiseKept
<1>1. /\ now \in Nat /\ now < DaySecs /\ DaySecs \in Nat /\ promise \in Nat
      /\ inhibitUntil \in Nat /\ inhibitUntil <= DaySecs
  BY TimeAssumption DEF TypeOK, ClockTime, UInt, TimeOfDay
<1>2. inhibitUntil' = inhibitUntil
  BY DEF Tick, code
<1>3. CASE promise = 0
  BY <1>3 DEF Tick, PromiseKept
<1>4. CASE inhibitUntil = DaySecs
  BY <1>2, <1>4 DEF PromiseKept
<1>5. CASE promise > 0 /\ now + promise <= inhibitUntil
  <2>1. promise' = promise - 1
    BY <1>5 DEF Tick
  <2>2. CASE now + 1 < DaySecs
    <3>1. now' = now + 1
      BY <1>1, <2>2, NextSecond DEF Tick, TypeOK
    <3> QED BY <1>1, <1>2, <1>5, <2>1, <3>1 DEF PromiseKept
  <2>3. CASE now + 1 = DaySecs
    BY <1>1, <1>2, <1>5, <2>3 DEF PromiseKept
  <2> QED BY <1>1, <2>2, <2>3
<1> QED BY <1>1, <1>3, <1>4, <1>5 DEF PromiseKept

\* With durations that do not overflow, no turn of the loop ends an inhibit
\* before its duration is over.
THEOREM StateInhibitHolds == ASSUME WellFormedDurations PROVE Spec => InhibitHolds
<1> DEFINE Holds == schState = "inhibit" /\ schState' = "enabled" => promise = 0
<1>1. Init => PromiseKept
  BY DEF Init, PromiseKept
<1>2. TypeOK /\ PromiseKept /\ [Next]_vars => PromiseKept'
  <2> SUFFICES ASSUME TypeOK, PromiseKept, [Next]_vars PROVE PromiseKept'
    OBVIOUS
  <2>1. CASE SetStateDisabled
    BY <2>1 DEF SetStateDisabled, PromiseKept
  <2>2. CASE RequestEnable
    BY <2>2 DEF RequestEnable, SetStateEnabled, PromiseKept
  <2>3. ASSUME NEW text \in Durations, SetStateInhibited(text) PROVE PromiseKept'
    <3>1. PICK d \in ParseTime(text) :
            /\ inhibitUntil' = AddDuration(now, d)
            /\ promise' = IF text = Malformed THEN 0 ELSE d
      BY <2>3 DEF SetStateInhibited
    <3>2. CASE text = Malformed
      BY <3>1, <3>2 DEF PromiseKept
    <3>3. CASE text # Malformed
      <4>1. d = text /\ d \in Nat /\ DaySecs + d < UIntMod
        BY <3>3, ParsedIsUInt DEF WellFormedDurations, ParseTime
      <4>2. AddDuration(now, d) = DaySecs \/ AddDuration(now, d) = now + d
        BY <4>1, AddDurationExact DEF TypeOK
      <4>3. now' = now
        BY <2>3 DEF SetStateInhibited, clock
      <4>4. now + d <= now + d
        BY <4>1 DEF TypeOK, ClockTime
      <4> QED BY <3>1, <3>3, <4>2, <4>3, <4>4 DEF PromiseKept
    <3> QED BY <3>2, <3>3
  <2>4. CASE Poll
    <3>1. CASE InhibitOver
      BY <2>4, <3>1 DEF Poll, SetStateEnabled, PromiseKept
    <3>2. CASE ~InhibitOver
      BY <2>4, <3>2 DEF Poll, code, PromiseKept
    <3> QED BY <3>1, <3>2
  <2>5. CASE Boot \/ Crash \/ SetClock
    BY <2>5 DEF Boot, Crash, SetClock, PromiseKept
  <2>6. ASSUME NEW value \in {"enabled", "disabled"}, CrashInWrite(value)
        PROVE  PromiseKept'
    BY <2>6 DEF CrashInWrite, DiesInWrite, PromiseKept
  <2>9. CASE CrashInExpiry
    BY <2>9 DEF CrashInExpiry, DiesInWrite, PromiseKept
  <2>7. CASE Tick
    BY <2>7, TickKeepsPromise
  <2>8. CASE UNCHANGED vars
    BY <2>8 DEF vars, code, clock, PromiseKept
  <2> QED BY <2>1, <2>2, <2>3, <2>4, <2>5, <2>6, <2>7, <2>8, <2>9 DEF Next
<1>3. ASSUME TypeOK, PromiseKept, Poll, schState = "inhibit", schState' = "enabled"
      PROVE  promise = 0
  <2>1. inhibitUntil <= now
    BY <1>3 DEF Poll, InhibitOver, CheckInhibitExpire, code
  <2> QED BY <1>3, <2>1, TimeAssumption
          DEF PromiseKept, TypeOK, ClockTime, TimeOfDay, UInt
<1>4. TypeOK /\ PromiseKept /\ [Next]_vars
        => [Poll /\ schState = "inhibit" /\ schState' = "enabled" => promise = 0]_vars
  BY <1>3
<1> QED BY <1>1, <1>2, <1>4, StateTypeOK, PTL DEF Spec, InhibitHolds

(***************************************************************************)
(* What inhibit_ends shows of one inhibit, for every inhibit whose time    *)
(* reaches midnight.                                                       *)
(***************************************************************************)
ReachesMidnight == schState = "inhibit" /\ inhibitUntil = DaySecs

\* What ends an inhibit other than its time.
EndedFromOutside ==
  \/ SetStateDisabled \/ RequestEnable \/ Boot
  \/ \E text \in Durations : SetStateInhibited(text)

\* An inhibit asked for until midnight or beyond is one until 24:00:00, and the
\* loop never ends that one, on no day: a client must, or a restart.
THEOREM StateMidnightInhibitStays ==
  ASSUME WellFormedDurations
  PROVE  /\ Spec => [][\A text \in Durations \ {Malformed} :
                         SetStateInhibited(text) /\ DaySecs <= now + text
                           => ReachesMidnight']_vars
         /\ Spec /\ [][~EndedFromOutside]_vars
              => [](ReachesMidnight => []ReachesMidnight)
<1>1. ASSUME TypeOK, NEW text \in Durations \ {Malformed}, SetStateInhibited(text),
             DaySecs <= now + text
      PROVE  ReachesMidnight'
  <2>1. inhibitUntil' = AddDuration(now, text) /\ schState' = "inhibit"
    BY <1>1 DEF SetStateInhibited, ParseTime
  <2>2. text \in Nat /\ DaySecs + text < UIntMod /\ now \in ClockTime /\ now \in Nat
    BY <1>1, ScheduleStateAssumption, TimeAssumption
       DEF WellFormedDurations, UInt, TypeOK, ClockTime
  <2>3. (now + text) % UIntMod = now + text
    <3>1. now + text \in 0 .. UIntMod - 1
      BY <2>2, TimeAssumption DEF ClockTime
    <3> QED BY <3>1, TimeAssumption
  <2>4. AddDuration(now, text) = DaySecs
    BY <1>1, <2>2, <2>3, TimeAssumption DEF AddDuration, AddSeconds, Cap
  <2> QED BY <2>1, <2>4 DEF ReachesMidnight
<1>2. TypeOK /\ [Next]_vars =>
        [\A text \in Durations \ {Malformed} :
           SetStateInhibited(text) /\ DaySecs <= now + text => ReachesMidnight']_vars
  BY <1>1
<1>3. TypeOK /\ ReachesMidnight /\ [Next]_vars /\ [~EndedFromOutside]_vars
        => ReachesMidnight'
  <2> SUFFICES ASSUME TypeOK, ReachesMidnight, [Next]_vars, [~EndedFromOutside]_vars
               PROVE  ReachesMidnight'
    OBVIOUS
  <2>1. CASE Poll
    <3>1. ~CheckInhibitExpire
      BY TimeAssumption DEF ReachesMidnight, CheckInhibitExpire, TypeOK, ClockTime
    <3> QED BY <2>1, <3>1 DEF Poll, InhibitOver, code, ReachesMidnight
  <2>2. CASE Crash \/ Tick \/ SetClock
    BY <2>2 DEF Crash, Tick, SetClock, code, ReachesMidnight
  <2>3. ASSUME NEW value \in {"enabled", "disabled"}, CrashInWrite(value)
        PROVE  ReachesMidnight'
    BY <2>3 DEF CrashInWrite, DiesInWrite, ReachesMidnight
  <2>6. CASE CrashInExpiry
    BY <2>6 DEF CrashInExpiry, DiesInWrite, ReachesMidnight
  <2>4. CASE UNCHANGED vars
    BY <2>4 DEF vars, code, ReachesMidnight
  <2>5. CASE Next /\ ~EndedFromOutside
    BY <2>1, <2>2, <2>3, <2>5, <2>6 DEF Next, EndedFromOutside
  <2> QED BY <2>4, <2>5
<1>4. Spec => [][\A text \in Durations \ {Malformed} :
                   SetStateInhibited(text) /\ DaySecs <= now + text
                     => ReachesMidnight']_vars
  BY <1>2, StateTypeOK, PTL DEF Spec
<1>5. Spec /\ [][~EndedFromOutside]_vars => [](ReachesMidnight => []ReachesMidnight)
  BY <1>3, StateTypeOK, PTL DEF Spec
<1> QED BY <1>4, <1>5
=============================================================================
