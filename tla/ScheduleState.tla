--------------------------- MODULE ScheduleState ---------------------------
(***************************************************************************)
(* Whether the schedule is enabled, disabled or inhibited: m_state of      *)
(* HNScheduleMatrix, its scheduleState.json, the client's SCH_STATE        *)
(* requests and the event loop's check of the inhibit time.                *)
(*                                                                         *)
(* The daemon may die at any point (SIGTERM is not caught, the service is  *)
(* restarted by systemd), also between the truncation of the state file    *)
(* and the end of the write.  A write may also be refused (no directory,   *)
(* no permission) or come out short (disk full); the code notices neither. *)
(***************************************************************************)
EXTENDS HNS24HTime

CONSTANTS Durations,     \* values of "inhibitDuration" clients send
          WriteFaults,   \* what may go wrong with a write
          MaxLag,        \* longest time between two turns of the loop
          ClockTargets,  \* times of day the local clock may be set to
          MaxClockSets   \* how often it is set

ASSUME ScheduleStateAssumption ==
  /\ Durations \subseteq UInt \cup {Malformed}
  /\ WriteFaults \subseteq {"refused", "short"}
  /\ MaxLag \in Nat \ {0}
  /\ ClockTargets \subseteq ClockTime
  /\ MaxClockSets \in Nat

VARIABLES up,            \* the daemon runs
          schState,      \* m_state
          inhibitUntil,  \* m_inhibitUntil
          stateFile,     \* scheduleState.json
          readResult,    \* what readStateFile returned at the last start
          now, lag,      \* local time of day, seconds since the last turn
          clockSets,     \* how often the clock was set
          owed,          \* history: what a client's last command comes to
          lived,         \* history: the daemon has not died since then
          saved,         \* history: the last write reached the file in full
          promise        \* history: seconds the client may still count on

code == <<up, schState, inhibitUntil, stateFile, readResult>>
clock == <<now, lag, clockSets>>
command == <<owed, lived>>
vars == <<code, clock, command, saved, promise>>

State == {"enabled", "disabled", "inhibit"}

\* "torn": truncated, or written in part; no JSON parser takes it.
FileContent == {"absent", "torn", "enabled", "disabled"}
-----------------------------------------------------------------------------
(* updateStateFile: anything but DISABLED is written as "enabled".  Its    *)
(* result is ignored by every caller.                                      *)

WriteOutcome == {"done"} \cup WriteFaults

\* Variant: an inhibit that expires restores the state but not the file.
UpdateStateFileSkipEnabled(value) ==
  /\ saved' = TRUE
  /\ stateFile' = IF value = "disabled" THEN "disabled" ELSE stateFile

UpdateStateFile(value) ==
  \E outcome \in WriteOutcome :
    /\ saved' = (outcome = "done")
    /\ stateFile' = CASE outcome = "done" -> value
                      [] outcome = "short" -> "torn"
                      [] outcome = "refused" -> stateFile

\* A client's ENABLE or DISABLE, which the daemon lives to carry out or not.
Commanded(value, alive) == owed' = value /\ lived' = alive

\* An inhibit that ends by itself enables the schedule, whatever the client's
\* last ENABLE or DISABLE was.
InhibitEnded(alive) == owed' = "enabled" /\ lived' = alive

SetStateDisabled ==
  /\ up
  /\ schState' = "disabled"
  /\ UpdateStateFile("disabled")
  /\ Commanded("disabled", TRUE)
  /\ UNCHANGED <<up, inhibitUntil, readResult, clock, promise>>

SetStateEnabled ==
  /\ schState' = "enabled"
  /\ UpdateStateFile("enabled")
  /\ UNCHANGED <<up, inhibitUntil, readResult, promise>>

RequestEnable ==
  up /\ SetStateEnabled /\ Commanded("enabled", TRUE) /\ UNCHANGED clock

\* Variant: the duration added to whatever m_inhibitUntil held before.
SetStateInhibitedNoReset(text) ==
  /\ up
  /\ schState' = "inhibit"
  /\ \E d \in ParseTime(text) :
       /\ inhibitUntil' = AddDuration(inhibitUntil, d)
       /\ promise' = IF text = Malformed THEN 0 ELSE d
  /\ UNCHANGED <<up, stateFile, readResult, clock, command, saved>>

\* The inhibit is not written to the file.
SetStateInhibited(text) ==
  /\ up
  /\ schState' = "inhibit"
  /\ \E d \in ParseTime(text) :
       /\ inhibitUntil' = AddDuration(now, d)
       /\ promise' = IF text = Malformed THEN 0 ELSE d
  /\ UNCHANGED <<up, stateFile, readResult, clock, command, saved>>

\* Variant: expired only after the second it runs until.
CheckInhibitExpireLate == inhibitUntil < now

CheckInhibitExpire == inhibitUntil <= now

InhibitOver == schState = "inhibit" /\ CheckInhibitExpire

\* The part of a turn of the event loop that is about the inhibit.
Poll ==
  /\ up
  /\ IF InhibitOver THEN SetStateEnabled
                     ELSE UNCHANGED <<code, saved, promise>>
  /\ IF schState = "inhibit" /\ schState' # "inhibit"
       THEN InhibitEnded(TRUE)
       ELSE UNCHANGED command
  /\ lag' = 0
  /\ UNCHANGED <<now, clockSets>>
-----------------------------------------------------------------------------
(* readStateFile, initState *)

StateRead(content) == IF content = "disabled" THEN "disabled" ELSE "enabled"

\* m_inhibitUntil starts at 00:00:00.  The file may also fail to open.
Boot ==
  /\ ~up
  /\ up' = TRUE
  /\ \/ /\ stateFile \in {"enabled", "disabled"}
        /\ readResult' = "success"
        /\ schState' = StateRead(stateFile)
     \/ /\ readResult' = "failure"
        /\ schState' = "enabled"
  /\ inhibitUntil' = 0
  /\ promise' = 0
  /\ lag' = 0
  /\ UNCHANGED <<stateFile, now, clockSets, command, saved>>

Crash ==
  /\ up
  /\ up' = FALSE
  /\ lived' = FALSE
  /\ promise' = 0
  /\ UNCHANGED <<schState, inhibitUntil, stateFile, readResult, clock,
                 owed, saved>>

\* The file was opened to write value: it is truncated, or just written.
DiesInWrite(value) ==
  /\ up
  /\ up' = FALSE
  /\ stateFile' \in {"torn", value}
  /\ saved' = (stateFile' = value)
  /\ promise' = 0
  /\ UNCHANGED <<schState, inhibitUntil, readResult, clock>>

\* In the write of a client's command, or in that of a turn of the loop.
CrashInWrite(value) == DiesInWrite(value) /\ Commanded(value, FALSE)

CrashInExpiry ==
  /\ InhibitOver
  /\ DiesInWrite("enabled")
  /\ InhibitEnded(FALSE)
-----------------------------------------------------------------------------
(* The clock.  A daemon that is down polls nothing. *)

Tick ==
  /\ up => lag < MaxLag
  /\ now' = (now + 1) % DaySecs
  /\ lag' = IF up THEN lag + 1 ELSE 0
  /\ promise' = IF promise > 0 THEN promise - 1 ELSE 0
  /\ UNCHANGED <<code, clockSets, command, saved>>

\* A client cannot count on a duration once the clock is set.
SetClock ==
  /\ clockSets < MaxClockSets
  /\ clockSets' = clockSets + 1
  /\ now' \in ClockTargets
  /\ promise' = 0
  /\ UNCHANGED <<code, lag, command, saved>>
-----------------------------------------------------------------------------
Init ==
  /\ up = FALSE
  /\ schState = "enabled"
  /\ inhibitUntil = 0
  /\ stateFile \in FileContent
  /\ readResult = "failure"
  /\ now \in ClockTime
  /\ lag = 0
  /\ clockSets = 0
  /\ owed = StateRead(stateFile)
  /\ lived = FALSE
  /\ saved = (stateFile \in {"enabled", "disabled"})
  /\ promise = 0

Next ==
  \/ SetStateDisabled
  \/ RequestEnable
  \/ \E text \in Durations : SetStateInhibited(text)
  \/ Poll
  \/ Boot
  \/ Crash
  \/ \E value \in {"enabled", "disabled"} : CrashInWrite(value)
  \/ CrashInExpiry
  \/ Tick
  \/ SetClock

Spec == Init /\ [][Next]_vars

\* Time passes, epoll_wait returns at least once a second, and systemd
\* restarts the daemon (Restart=always).
FairSpec == Spec /\ WF_vars(Tick) /\ WF_vars(Poll) /\ WF_vars(Boot)
-----------------------------------------------------------------------------
\* The durations that parse do not overflow a uint.
WellFormedDurations ==
  \A d \in Durations \ {Malformed} : DaySecs + d < UIntMod

(* Safety *)

TypeOK ==
  /\ up \in BOOLEAN
  /\ schState \in State
  /\ inhibitUntil \in TimeOfDay
  /\ stateFile \in FileContent
  /\ readResult \in {"success", "failure"}
  /\ now \in ClockTime
  /\ lag \in 0 .. MaxLag
  /\ clockSets \in 0 .. MaxClockSets
  /\ owed \in {"enabled", "disabled"}
  /\ lived \in BOOLEAN
  /\ saved \in BOOLEAN
  /\ promise \in UInt

\* A client's ENABLE or DISABLE holds, outside an inhibit, until an inhibit ends
\* by itself, which enables the schedule: while the daemon lives, whatever
\* became of the write of the file; and through deaths and restarts, if that
\* write was not refused, short or interrupted and the file opens for reading.
\* No turn of the loop enables a disabled schedule otherwise.
CommandSurvives ==
  /\ saved => stateFile = owed
  /\ up /\ schState # "inhibit" /\ (lived \/ (saved /\ readResult = "success"))
       => schState = owed

\* The loop does not end an inhibit before its duration is over.
InhibitHolds ==
  [][Poll /\ schState = "inhibit" /\ schState' = "enabled" => promise = 0]_vars

(* Liveness *)

InhibitedUntil(u) == up /\ schState = "inhibit" /\ inhibitUntil = u

\* An inhibit whose end leaves the loop a turn before midnight ends.
InhibitExpires ==
  \A u \in TimeOfDay :
    u + MaxLag <= DaySecs => (InhibitedUntil(u) ~> ~InhibitedUntil(u))

(* What HNScheduleMatrix.h says of HNSM_SCHSTATE_INHIBIT and the code does *)
(* not do.                                                                 *)

\* "Scheduling is inhibited for a duration": once the duration is over, and
\* unless the client asks again, the inhibit ends.
InhibitEnds ==
  \A u \in TimeOfDay :
    InhibitedUntil(u) /\ promise = 0 ~> ~InhibitedUntil(u) \/ promise > 0
=============================================================================
