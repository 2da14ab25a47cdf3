---------------------------- MODULE SwitchDaemon ----------------------------
(***************************************************************************)
(* The event loop of HNSwitchDaemon::main, which decides each turn whether *)
(* a client's sequence or the schedule says what is on, and when to send   *)
(* the clients a status.  It composes                                      *)
(*                                                                         *)
(*   - SequenceQueue, the sequences of clients;                            *)
(*   - ScheduleState, whether the schedule is enabled, and the clock;      *)
(*   - HNSDay, the query of the schedule.  Loading it is ScheduleMatrix's  *)
(*     part: here an update replaces the day by another loaded day, and    *)
(*     all weekdays are alike.                                             *)
(*                                                                         *)
(* The list a turn ends with goes to SwitchManager.                        *)
(***************************************************************************)
EXTENDS HNSDay

CONSTANTS RequestID, DefaultID, NoID, OnTexts, OffTexts, SwidLists,
          Durations, WriteFaults, MaxLag, ClockTargets, MaxClockSets,
          Days,          \* the days a schedule may be loaded as
          MinuteSecs,    \* seconds in a minute, 60
          StatusSecs     \* seconds between statuses, "roughly" 10

\* Those of the queue and the state, and what loading a day gives.
ASSUME DaemonAssumption ==
  /\ SwidLists \subseteq Seq(Switch)
  /\ NoID \notin RequestID \cup {DefaultID}
  /\ OnTexts \subseteq UInt \cup {Malformed, Missing}
  /\ OffTexts \subseteq UInt \cup {Malformed, Missing}
  /\ Durations \subseteq UInt \cup {Malformed}
  /\ WriteFaults \subseteq {"refused", "short"}
  /\ MaxLag \in Nat \ {0}
  /\ ClockTargets \subseteq ClockTime
  /\ MaxClockSets \in Nat
  /\ Days \subseteq Seq(DayAction)
  /\ \A arr \in Days : Sorted(arr)
  /\ MinuteSecs \in Nat \ {0}
  /\ StatusSecs \in Nat

VARIABLES requestID, actionList, reply,                 \* the sequence queue
          up, schState, inhibitUntil, stateFile, readResult,
          owed, lived, saved, promise,                  \* the schedule's state
          now, lag, clockSets,                          \* the clock
          day,                                          \* m_dayArr, one day
          swOn,                                         \* swidOnList
          logged,        \* the list lastCRC is of, none at first
          prevSec,       \* prevSec
          statusEvent,   \* the counter of m_sendStatusFD is not zero
          sendDue,       \* an event of this turn, still to come, is of it
          unsent         \* history: what changed since the last status

Queue == INSTANCE SequenceQueue
State == INSTANCE ScheduleState

queueVars == <<requestID, actionList, reply>>
stateVars == <<up, schState, inhibitUntil, stateFile, readResult, owed, lived,
               saved, promise>>
clockVars == <<now, lag, clockSets>>
statusVars == <<logged, prevSec, statusEvent, sendDue>>
vars == <<queueVars, stateVars, clockVars, day, swOn, statusVars, unsent>>

(* What a status packet says; in the code it also has the time and the     *)
(* overall health, SwitchManager's part.  Its list is the one at the top   *)
(* of the turn, the rest is as the requests of the turn have left it.      *)
Report == [list |-> swOn, others |-> <<schState, inhibitUntil, requestID, day>>]

NoteChanges ==
  unsent' = unsent \cup {part \in DOMAIN Report : Report[part]' # Report[part]}
-----------------------------------------------------------------------------
(* processClientRequest *)

\* A sequence that is accepted, and a cancel, has a status sent.
SequenceRequest ==
  /\ up
  /\ Queue!Request
  /\ statusEvent' = (statusEvent \/ reply' = "success")
  /\ UNCHANGED <<stateVars, day, logged, prevSec, sendDue>>

StateRequest ==
  /\ \/ State!SetStateDisabled
     \/ State!RequestEnable
     \/ \E text \in Durations : State!SetStateInhibited(text)
  /\ UNCHANGED <<queueVars, day, swOn, statusVars>>

ScheduleUpdate ==
  /\ up
  /\ day' \in Days
  /\ UNCHANGED <<queueVars, stateVars, clockVars, swOn, statusVars>>

\* A status request, or a reset, which is no more than that.
StatusRequest ==
  /\ up
  /\ statusEvent' = TRUE
  /\ UNCHANGED <<queueVars, stateVars, clockVars, day, swOn, logged, prevSec, sendDue>>

Request ==
  /\ SequenceRequest \/ StateRequest \/ ScheduleUpdate \/ StatusRequest
  /\ NoteChanges
-----------------------------------------------------------------------------
(***************************************************************************)
(* A turn of the loop: end an inhibit that is over, ask the queue or else  *)
(* the schedule, and hand the list over.                                   *)
(***************************************************************************)
\* Variant: an inhibited schedule is asked like an enabled one.
AskScheduleInhibited ==
  /\ swOn' = IF schState' # "disabled" THEN Walk(day, now) ELSE {}
  /\ UNCHANGED <<requestID, actionList>>

\* Variant: without a schedule to ask, the list is that of the last turn.
AskScheduleStale ==
  /\ swOn' = IF schState' = "enabled" THEN Walk(day, now) ELSE swOn
  /\ UNCHANGED <<requestID, actionList>>

AskSchedule ==
  /\ swOn' = IF schState' = "enabled" THEN Walk(day, now) ELSE {}
  /\ UNCHANGED <<requestID, actionList>>

\* Variant: the schedule joins in while a sequence runs.
AskBoth ==
  /\ schState' = "enabled"
  /\ swOn' = Walk(day, now) \cup {Head(actionList).swid}
  /\ UNCHANGED <<requestID, actionList>>

\* Variant: a schedule that is not enabled silences the sequences, too.
AskQueueIfEnabled ==
  IF schState' = "enabled" THEN Queue!GetSwitchOnList(now)
                           ELSE swOn' = {} /\ UNCHANGED <<requestID, actionList>>

AskQueue == Queue!GetSwitchOnList(now)

\* Variant: a list with nothing on is not a change.
ListChangedOn == swOn' \notin logged \cup {{}}

\* logSwitchChanges: the list is not that of the last turn.
ListChanged == swOn' \notin logged

\* Variant: the start of a new minute not seen.
StatusTimeSameMinute == StatusSecs <= (now % MinuteSecs) - prevSec

StatusTime ==
  LET sec == now % MinuteSecs IN sec < prevSec \/ StatusSecs <= sec - prevSec

\* The events of the turn are those from before it.
Turn ==
  /\ ~sendDue
  /\ State!Poll
  /\ IF actionList # <<>> THEN AskQueue ELSE AskSchedule
  /\ logged' = {swOn'}
  /\ prevSec' = IF StatusTime THEN now % MinuteSecs ELSE prevSec
  /\ statusEvent' = (statusEvent \/ ListChanged \/ StatusTime)
  /\ sendDue' = statusEvent
  /\ UNCHANGED <<reply, day>>
  /\ NoteChanges

\* The event of m_sendStatusFD.  The read resets it.
SendStatus ==
  /\ sendDue
  /\ sendDue' = FALSE /\ statusEvent' = FALSE
  /\ unsent' = {}
  /\ UNCHANGED <<queueVars, stateVars, clockVars, day, swOn, logged, prevSec>>

\* The process and its memory are gone.
Crash ==
  /\ \/ State!Crash
     \/ \E value \in {"enabled", "disabled"} : State!CrashInWrite(value)
     \/ State!CrashInExpiry
  /\ requestID' = NoID /\ actionList' = <<>> /\ reply' = "none" /\ swOn' = {}
  /\ logged' = {} /\ prevSec' = 0 /\ statusEvent' = FALSE /\ sendDue' = FALSE
  /\ unsent' = DOMAIN Report
  /\ UNCHANGED day

\* initState, then loadSchedule.
Boot ==
  /\ State!Boot
  /\ day' \in Days
  /\ UNCHANGED <<queueVars, swOn, statusVars, unsent>>

Time ==
  /\ State!Tick \/ State!SetClock
  /\ UNCHANGED <<queueVars, day, swOn, statusVars, unsent>>
-----------------------------------------------------------------------------
Init ==
  /\ State!Init
  /\ requestID = NoID /\ actionList = <<>> /\ reply = "none"
  /\ day \in Days
  /\ swOn = {}
  /\ logged = {} /\ prevSec = 0 /\ statusEvent = FALSE /\ sendDue = FALSE
  /\ unsent = DOMAIN Report

Next == Request \/ Turn \/ SendStatus \/ Crash \/ Boot \/ Time

Spec == Init /\ [][Next]_vars

\* Time passes, epoll_wait returns at least once a second, and systemd
\* restarts the daemon (Restart=always).
FairSpec ==
  Spec /\ WF_vars(Time) /\ WF_vars(Turn) /\ WF_vars(SendStatus) /\ WF_vars(Boot)
-----------------------------------------------------------------------------
(* The abstract specification *)

Driver ==
  CASE actionList # <<>> -> "sequence"
    [] actionList = <<>> /\ schState = "enabled" -> "schedule"
    [] OTHER -> "nobody"

Policy == INSTANCE SwitchPolicy
            WITH driver <- Driver,
                 ScheduledSets <- {Due(arr, t) : arr \in Days, t \in ClockTime}

\* Between them the queue, the inhibit, the two files' faults and the order of
\* the loop's questions keep what SwitchPolicy promises: one driver at a time,
\* nothing on that the driver in charge did not ask for, one switch at a time
\* of a sequence, and a turn with everything off between a sequence that ran
\* out and the schedule.
PolicyKept == Policy!Spec

(* Safety *)

\* Clients see each change of the list at once: from the turn that finds it
\* until a status with it goes out, the event that has one sent is pending.
ListAnnounced == logged # {} /\ "list" \in unsent => statusEvent

(* Action properties *)

\* While a client may count on the inhibit it asked for, no turn of the loop
\* turns anything on but a switch of a sequence.
InhibitSilencesSchedule ==
  [][Turn /\ schState = "inhibit" /\ promise > 0 /\ actionList = <<>> => swOn' = {}]_vars

\* A sequence runs as it was laid out, whatever else happens: while it lasts
\* every turn turns on exactly its actions due now, inhibited or not, scheduled
\* or not, and until somebody sets the clock none that lasts longer than the
\* loop may sleep is dropped before a turn has had its switch on.
SequenceRunsInFull ==
  [][Turn /\ actionList # <<>> =>
       /\ swOn' = {actionList[i].swid :
                     i \in {j \in DOMAIN actionList : Active(actionList[j], now)}}
       /\ clockSets = 0 => \A i \in 1 .. Len(actionList) - Len(actionList') :
            actionList[i].end - actionList[i].start > MaxLag
              => i = 1 /\ swOn = {actionList[i].swid}]_vars

(* Liveness *)

Idle == up /\ actionList = <<>> /\ schState # "enabled"

\* A schedule that is disabled or inhibited, or a sequence that is cancelled,
\* while its switches are on does not leave them on: a turn of the loop comes
\* that turns them off, unless a request changes its mind.
SilenceReachesSwitches == Idle ~> swOn = {} \/ ~Idle

\* What changes without an event (a schedule that is disabled, inhibited or
\* replaced, a sequence that ends) and what a request changes before a status
\* that has the list from before it, is still shown to the clients: a status
\* comes after it, unless the daemon dies.
StatusCatchesUp == up /\ unsent # {} ~> unsent = {} \/ ~up
=============================================================================
