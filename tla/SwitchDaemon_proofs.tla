------------------------ MODULE SwitchDaemon_proofs ------------------------
(***************************************************************************)
(* Theorems about SwitchDaemon: with the queue, the state and the day put  *)
(* together as the event loop does, the daemon implements SwitchPolicy and *)
(* an inhibit silences the schedule, for every schedule that can be        *)
(* loaded, every set of requests and every fault.                          *)
(***************************************************************************)
EXTENDS SwitchDaemon, HNSDay_proofs, TLAPS

\* The state's theorems hold of the composition, which implements its
\* specification.
StateProofs == INSTANCE ScheduleState_proofs

StateStep == [StateProofs!Next]_StateProofs!vars

LEMMA RequestLeavesState ==
  ASSUME SequenceRequest
  PROVE  UNCHANGED StateProofs!vars
<1>1. UNCHANGED <<now, lag, clockSets>>
  BY DEF SequenceRequest, Queue!Request, Queue!AddBusy, Queue!AddUnparsable,
         Queue!AddIncomplete, Queue!AddAccepted, Queue!Cancel
<1> QED BY <1>1 DEF SequenceRequest, stateVars, StateProofs!vars, StateProofs!code,
                    StateProofs!clock, StateProofs!command

LEMMA PollIsStatePoll == State!Poll => StateProofs!Poll
BY DEF State!Poll, State!CheckInhibitExpire, State!SetStateEnabled,
   State!UpdateStateFile, State!WriteOutcome, State!InhibitOver,
   State!InhibitEnded, State!command, State!code,
   StateProofs!Poll, StateProofs!CheckInhibitExpire, StateProofs!SetStateEnabled,
   StateProofs!UpdateStateFile, StateProofs!WriteOutcome, StateProofs!InhibitOver,
   StateProofs!InhibitEnded, StateProofs!command, StateProofs!code

LEMMA StepIsStateStep == [Next]_vars => StateStep
<1> SUFFICES ASSUME [Next]_vars PROVE StateStep
  OBVIOUS
<1> USE DEF StateStep, StateProofs!Next
<1>1. CASE SequenceRequest
  BY <1>1, RequestLeavesState
<1>2. CASE StateRequest
  <2>1. CASE State!SetStateDisabled
    BY <2>1 DEF State!SetStateDisabled, State!UpdateStateFile, State!WriteOutcome,
       State!Commanded, State!clock, StateProofs!SetStateDisabled,
       StateProofs!UpdateStateFile, StateProofs!WriteOutcome, StateProofs!Commanded,
       StateProofs!clock
  <2>2. CASE State!RequestEnable
    BY <2>2 DEF State!RequestEnable, State!SetStateEnabled, State!UpdateStateFile,
       State!WriteOutcome, State!Commanded, State!clock, StateProofs!RequestEnable,
       StateProofs!SetStateEnabled, StateProofs!UpdateStateFile,
       StateProofs!WriteOutcome, StateProofs!Commanded, StateProofs!clock
  <2>3. ASSUME NEW text \in Durations, State!SetStateInhibited(text) PROVE StateStep
    <3>1. \A d : State!AddDuration(now, d) = StateProofs!AddDuration(now, d)
      BY DEF State!AddDuration, State!AddSeconds, State!Cap,
         StateProofs!AddDuration, StateProofs!AddSeconds, StateProofs!Cap
    <3>2. State!ParseTime(text) = StateProofs!ParseTime(text)
      BY DEF State!ParseTime, State!UInt, StateProofs!ParseTime, StateProofs!UInt
    <3> QED BY <2>3, <3>1, <3>2 DEF State!SetStateInhibited, State!clock,
               State!command, StateProofs!SetStateInhibited, StateProofs!clock,
               StateProofs!command
  <2> QED BY <1>2, <2>1, <2>2, <2>3 DEF StateRequest
<1>3. CASE ScheduleUpdate
  BY <1>3 DEF ScheduleUpdate, stateVars, clockVars, StateProofs!vars,
     StateProofs!code, StateProofs!clock, StateProofs!command
<1>4. CASE Turn
  BY <1>4, PollIsStatePoll DEF Turn
<1>5. CASE Crash
  <2>1. CASE State!Crash
    BY <2>1 DEF State!Crash, State!clock, StateProofs!Crash, StateProofs!clock
  <2>2. ASSUME NEW value \in {"enabled", "disabled"}, State!CrashInWrite(value)
        PROVE  StateStep
    BY <2>2 DEF State!CrashInWrite, State!DiesInWrite, State!Commanded, State!clock,
       StateProofs!CrashInWrite, StateProofs!DiesInWrite, StateProofs!Commanded,
       StateProofs!clock
  <2>3. CASE State!CrashInExpiry
    BY <2>3 DEF State!CrashInExpiry, State!InhibitOver, State!CheckInhibitExpire,
       State!DiesInWrite, State!InhibitEnded, State!clock,
       StateProofs!CrashInExpiry, StateProofs!InhibitOver,
       StateProofs!CheckInhibitExpire, StateProofs!DiesInWrite,
       StateProofs!InhibitEnded, StateProofs!clock
  <2> QED BY <1>5, <2>1, <2>2, <2>3 DEF Crash
<1>6. CASE Boot
  BY <1>6 DEF Boot, State!Boot, State!StateRead, State!command, StateProofs!Boot,
     StateProofs!StateRead, StateProofs!command
<1>7. CASE Time
  BY <1>7 DEF Time, State!Tick, State!SetClock, State!code, State!command,
     StateProofs!Tick, StateProofs!SetClock, StateProofs!code, StateProofs!command
<1>8. CASE StatusRequest \/ SendStatus \/ UNCHANGED vars
  BY <1>8 DEF StatusRequest, SendStatus, vars, stateVars, clockVars, StateProofs!vars,
     StateProofs!code, StateProofs!clock, StateProofs!command
<1> QED BY <1>1, <1>2, <1>3, <1>4, <1>5, <1>6, <1>7, <1>8 DEF Next, Request

\* Queue, schedule and devices do not interfere with the schedule's state.
THEOREM DaemonImplementsState == Spec => StateProofs!Spec
<1>1. Init => StateProofs!Init
  BY DEF Init, State!Init, State!FileContent, State!StateRead,
     State!ClockTime, StateProofs!Init, StateProofs!FileContent,
     StateProofs!StateRead, StateProofs!ClockTime
<1>2. [Next]_vars => [StateProofs!Next]_StateProofs!vars
  BY StepIsStateStep DEF StateStep
<1> QED BY <1>1, <1>2, PTL DEF Spec, StateProofs!Spec

\* While a client may count on the inhibit it asked for, and no duration
\* overflows, no turn of the loop turns anything on but a sequence's switch.
THEOREM DaemonInhibitSilencesSchedule ==
  ASSUME StateProofs!WellFormedDurations
  PROVE  Spec => InhibitSilencesSchedule
<1>0. StateProofs!TimeAssumption /\ StateProofs!MalformedAssumption
      /\ StateProofs!ScheduleStateAssumption
  BY TimeAssumption, MalformedAssumption, DaemonAssumption DEF UInt, ClockTime,
     StateProofs!UInt, StateProofs!ClockTime
<1> DEFINE Held == StateProofs!Poll /\ schState = "inhibit" /\ schState' = "enabled"
                     => promise = 0
           Silent == Turn /\ schState = "inhibit" /\ promise > 0 /\ actionList = <<>>
                       => swOn' = {}
<1>1. Spec => [][Held]_StateProofs!vars
  <2>1. Spec => StateProofs!InhibitHolds
    BY <1>0, DaemonImplementsState, StateProofs!StateInhibitHolds
  <2> QED BY <2>1 DEF StateProofs!InhibitHolds
<1>2. [Held]_StateProofs!vars => [Silent]_vars
  <2> SUFFICES ASSUME [Held]_StateProofs!vars, Turn, schState = "inhibit",
                      promise > 0, actionList = <<>>
               PROVE  swOn' = {}
    OBVIOUS
  <2>1. StateProofs!Poll
    BY PollIsStatePoll DEF Turn
  <2>2. schState' # "enabled"
    BY <2>1 DEF StateProofs!vars, StateProofs!code
  <2> QED BY <2>2 DEF Turn, AskSchedule
<1> QED BY <1>1, <1>2, PTL DEF InhibitSilencesSchedule

(***************************************************************************)
(* PolicyKept.  The refinement needs to know that what is queued has a     *)
(* switch, that what is loaded is sorted, and that a daemon that is down   *)
(* has nothing queued and nothing on.                                      *)
(***************************************************************************)
DaemonInv ==
  /\ actionList \in Seq(Queue!Action)
  /\ day \in Days
  /\ ~up => actionList = <<>> /\ swOn = {}

LEMMA AddedActions ==
  ASSUME NEW req \in Queue!AddRequest, Queue!AddAccepted(req)
  PROVE  actionList' \in Seq(Queue!Action)
<1>1. PICK on \in Queue!ParseTime(req.on), off \in Queue!ParseTime(req.off),
           starts \in [1 .. Len(req.swids) -> Queue!TimeOfDay] :
        actionList' = Queue!UniformActions(starts, on, req.swids)
  BY DEF Queue!AddAccepted
<1>2. on \in Nat
  BY DaemonAssumption, TimeAssumption
     DEF Queue!AddAccepted, Queue!Complete, Queue!AddRequest, Queue!ParseTime,
         Queue!UInt, UInt
<1>3. req.swids \in Seq(Switch) /\ Len(req.swids) \in Nat
  BY DaemonAssumption DEF Queue!AddRequest
<1>4. ASSUME NEW i \in 1 .. Len(req.swids)
      PROVE  /\ req.swids[i] \in Switch
             /\ starts[i] \in Queue!TimeOfDay
             /\ Queue!AddDuration(starts[i], on) \in Queue!TimeOfDay
  <2>1. req.swids[i] \in Switch
    BY <1>3
  <2>2. starts[i] \in Nat
    BY TimeAssumption DEF Queue!TimeOfDay
  <2>3. AddSeconds(starts[i], on) \in TimeOfDay
    BY <1>2, <2>2, AddSecondsType
  <2>4. Queue!AddDuration(starts[i], on) = AddSeconds(starts[i], on)
    BY DEF Queue!AddDuration, Queue!AddSeconds, Queue!Cap, AddSeconds, Cap
  <2> QED BY <2>1, <2>3, <2>4 DEF Queue!TimeOfDay, TimeOfDay
<1> DEFINE acts == Queue!UniformActions(starts, on, req.swids)
<1>5. acts \in [1 .. Len(req.swids) -> Queue!Action]
  BY <1>4 DEF Queue!UniformActions, Queue!Action
<1> QED BY <1>1, <1>3, <1>5, SeqDef

\* What is left of the queue after a poll, and what the poll found.
LEMMA PolledQueue ==
  ASSUME actionList \in Seq(Queue!Action), AskQueue
  PROVE  /\ actionList' \in Seq(Queue!Action)
         /\ swOn' = {} \/ \E sw \in Switch : swOn' = {sw}
         /\ actionList' = <<>> => swOn' = {}
<1>1. PICK n \in 0 .. Len(actionList) :
        /\ actionList' = SubSeq(actionList, n + 1, Len(actionList))
        /\ swOn' = {actionList[i].swid :
                      i \in {j \in {n + 1} \cap DOMAIN actionList :
                               Queue!Active(actionList[j], now)}}
  BY DEF AskQueue, Queue!GetSwitchOnList
<1> DEFINE rest == SubSeq(actionList, n + 1, Len(actionList))
<1>2. Len(actionList) \in Nat /\ n \in Nat
  OBVIOUS
<1>3. DOMAIN actionList = 1 .. Len(actionList)
  OBVIOUS
<1>4. \A i \in 1 .. Len(actionList) : actionList[i] \in Queue!Action
  OBVIOUS
<1>5. rest \in Seq(Queue!Action)
  <2>1. \A i \in n + 1 .. Len(actionList) : actionList[i] \in Queue!Action
    BY <1>2, <1>4
  <2> QED BY <1>2, <2>1, SubSeqProperties
<1>6. CASE n = Len(actionList)
  <2>1. swOn' = {}
    BY <1>1, <1>2, <1>3, <1>6
  <2> QED BY <1>1, <1>5, <2>1
<1>7. CASE n < Len(actionList)
  <2>1. n + 1 \in 1 .. Len(actionList)
    BY <1>2, <1>7
  <2>2. rest # <<>>
    <3>1. \A i \in n + 1 .. Len(actionList) : actionList[i] \in Queue!Action
      BY <1>2, <1>4
    <3>2. Len(rest) = IF n + 1 <= Len(actionList)
                        THEN Len(actionList) - (n + 1) + 1 ELSE 0
      BY <1>2, <3>1, SubSeqProperties
    <3>3. n + 1 <= Len(actionList)
      BY <1>2, <1>7
    <3> HIDE DEF rest
    <3>4. Len(rest) # 0
      BY <1>2, <3>2, <3>3
    <3> QED BY <3>4
  <2>3. actionList[n + 1].swid \in Switch
    BY <1>4, <2>1 DEF Queue!Action
  <2>4. swOn' = {} \/ swOn' = {actionList[n + 1].swid}
    BY <1>1
  <2> QED BY <1>1, <1>5, <2>2, <2>3, <2>4
<1> QED BY <1>2, <1>6, <1>7

LEMMA DaemonInvKept == DaemonInv /\ [Next]_vars => DaemonInv'
<1> SUFFICES ASSUME DaemonInv, [Next]_vars PROVE DaemonInv'
  OBVIOUS
<1>1. CASE SequenceRequest
  <2>1. up /\ UNCHANGED <<up, day>>
    BY <1>1 DEF SequenceRequest, stateVars
  <2>2. actionList' \in Seq(Queue!Action)
    <3>1. CASE \E req \in Queue!AddRequest : Queue!AddAccepted(req)
      BY <3>1, AddedActions
    <3>2. CASE ~\E req \in Queue!AddRequest : Queue!AddAccepted(req)
      <4>1. actionList' = actionList \/ actionList' = <<>>
        BY <1>1, <3>2 DEF SequenceRequest, Queue!Request, Queue!AddBusy,
           Queue!AddUnparsable, Queue!AddIncomplete, Queue!Cancel
      <4>2. actionList \in Seq(Queue!Action)
        BY DEF DaemonInv
      <4>3. <<>> \in Seq(Queue!Action)
        OBVIOUS
      <4> QED BY <4>1, <4>2, <4>3
    <3> QED BY <3>1, <3>2
  <2> QED BY <2>1, <2>2 DEF DaemonInv
<1>2. CASE StateRequest
  BY <1>2 DEF StateRequest, State!SetStateDisabled, State!RequestEnable,
     State!SetStateEnabled, State!SetStateInhibited, queueVars, DaemonInv
<1>3. CASE ScheduleUpdate
  BY <1>3 DEF ScheduleUpdate, queueVars, stateVars, DaemonInv
<1>4. CASE Turn
  <2>1. up /\ up' = up /\ day' = day
    BY <1>4 DEF Turn, State!Poll, State!SetStateEnabled, State!code
  <2>2. actionList' \in Seq(Queue!Action)
    BY <1>4, PolledQueue DEF Turn, AskSchedule, DaemonInv
  <2> QED BY <2>1, <2>2 DEF DaemonInv
<1>5. CASE Crash
  BY <1>5 DEF Crash, DaemonInv
<1>6. CASE Boot
  BY <1>6 DEF Boot, State!Boot, queueVars, DaemonInv
<1>7. CASE Time
  BY <1>7 DEF Time, State!Tick, State!SetClock, State!code, queueVars, DaemonInv
<1>8. CASE StatusRequest \/ SendStatus \/ UNCHANGED vars
  BY <1>8 DEF StatusRequest, SendStatus, vars, queueVars, stateVars, DaemonInv
<1> QED BY <1>1, <1>2, <1>3, <1>4, <1>5, <1>6, <1>7, <1>8 DEF Next, Request

LEMMA DriverType == Driver \in Policy!Driver
BY DEF Driver, Policy!Driver

\* What the query of a loaded day returns is what the day has due.
LEMMA ScheduleMayTurnOn ==
  ASSUME DaemonInv, now \in ClockTime
  PROVE  Walk(day, now) \in Policy!MayTurnOn("schedule")
<1>1. day \in Seq(DayAction) /\ Sorted(day) /\ now \in Nat
  BY DaemonAssumption, TimeAssumption DEF DaemonInv, ClockTime
<1>2. Walk(day, now) = Due(day, now)
  BY <1>1, WalkIsDue
<1> QED BY <1>2 DEF DaemonInv, Policy!MayTurnOn

LEMMA TurnKeepsPolicy ==
  ASSUME DaemonInv, now \in ClockTime, schState \in {"enabled", "disabled", "inhibit"},
         Turn
  PROVE  Policy!Next
<1>1. CASE actionList # <<>>
  <2>0. AskQueue /\ Driver = "sequence"
    BY <1>1 DEF Turn, Driver
  <2>1. CASE actionList' = <<>>
    <3>1. Driver' \in {"schedule", "nobody"}
      BY <2>1 DEF Driver
    <3>2. swOn' = {}
      BY <2>0, <2>1, PolledQueue DEF DaemonInv
    <3> QED BY <2>0, <3>1, <3>2 DEF Policy!Next, Policy!SequenceEnds
  <2>2. CASE actionList' # <<>>
    <3>1. Driver' = "sequence"
      BY <2>2 DEF Driver
    <3>2. swOn' \in Policy!MayTurnOn("sequence")
      BY <2>0, PolledQueue DEF DaemonInv, Policy!MayTurnOn
    <3> QED BY <2>0, <3>1, <3>2 DEF Policy!Next, Policy!Turn
  <2> QED BY <2>1, <2>2
<1>2. CASE actionList = <<>>
  <2>0. AskSchedule /\ actionList' = <<>>
    BY <1>2 DEF Turn, AskSchedule
  <2>1. schState' = schState \/ (schState = "inhibit" /\ schState' = "enabled")
    BY DEF Turn, State!Poll, State!InhibitOver, State!SetStateEnabled, State!code
  <2>2. CASE schState' = "enabled"
    <3>1. Driver' = "schedule" /\ Driver \in {"schedule", "nobody"}
      BY <1>2, <2>0, <2>2 DEF Driver
    <3>2. swOn' \in Policy!MayTurnOn("schedule")
      BY <2>0, <2>2, ScheduleMayTurnOn DEF AskSchedule
    <3> QED BY <3>1, <3>2 DEF Policy!Next, Policy!Turn, Policy!InhibitEnds
  <2>3. CASE schState' # "enabled"
    <3>1. Driver' = "nobody" /\ Driver = "nobody"
      BY <1>2, <2>0, <2>1, <2>3 DEF Driver
    <3>2. swOn' \in Policy!MayTurnOn("nobody")
      BY <2>0, <2>3 DEF AskSchedule, Policy!MayTurnOn
    <3> QED BY <3>1, <3>2 DEF Policy!Next, Policy!Turn
  <2> QED BY <2>2, <2>3
<1> QED BY <1>1, <1>2

LEMMA StepKeepsPolicy ==
  ASSUME DaemonInv, now \in ClockTime, schState \in {"enabled", "disabled", "inhibit"},
         [Next]_vars
  PROVE  [Policy!Next]_<<Driver, swOn>>
<1>1. Driver' \in Policy!Driver
  BY DEF Driver, Policy!Driver
<1>2. CASE Request
  <2>1. swOn' = swOn
    BY <1>2 DEF Request, SequenceRequest, StateRequest, ScheduleUpdate, StatusRequest,
       Queue!Request, Queue!AddBusy, Queue!AddUnparsable, Queue!AddIncomplete,
       Queue!AddAccepted, Queue!Cancel
  <2> QED BY <1>1, <2>1 DEF Policy!Next, Policy!Request
<1>3. CASE Turn
  BY <1>3, TurnKeepsPolicy
<1>4. CASE Crash
  <2>1. Driver' \in {"schedule", "nobody"} /\ swOn' = {}
    BY <1>4 DEF Crash, Driver
  <2> QED BY <2>1 DEF Policy!Next, Policy!Restart
<1>5. CASE Boot
  <2>1. Driver' \in {"schedule", "nobody"} /\ swOn' = {}
    BY <1>5 DEF Boot, State!Boot, queueVars, DaemonInv, Driver
  <2> QED BY <2>1 DEF Policy!Next, Policy!Restart
<1>6. CASE SendStatus \/ Time \/ UNCHANGED vars
  <2>1. UNCHANGED <<actionList, schState, swOn>>
    BY <1>6 DEF SendStatus, Time, State!Tick, State!SetClock, State!code, vars, queueVars,
       stateVars
  <2> QED BY <2>1 DEF Driver
<1> QED BY <1>2, <1>3, <1>4, <1>5, <1>6 DEF Next

\* The event loop over the queue, the state and the schedule implements the
\* abstract policy, for every schedule, every set of requests and every fault.
THEOREM DaemonPolicyKept == Spec => PolicyKept
<1>0. StateProofs!TimeAssumption /\ StateProofs!MalformedAssumption
      /\ StateProofs!ScheduleStateAssumption
  BY TimeAssumption, MalformedAssumption, DaemonAssumption DEF UInt, ClockTime,
     StateProofs!UInt, StateProofs!ClockTime
<1>1. Spec => []StateProofs!TypeOK
  BY <1>0, DaemonImplementsState, StateProofs!StateTypeOK
<1>2. Init => DaemonInv
  BY DEF Init, DaemonInv
<1>3. Init => Policy!Init
  BY DriverType DEF Init, Policy!Init
<1>4. StateProofs!TypeOK =>
        now \in ClockTime /\ schState \in {"enabled", "disabled", "inhibit"}
  BY DEF StateProofs!TypeOK, StateProofs!State, StateProofs!ClockTime, ClockTime
<1>5. DaemonInv /\ StateProofs!TypeOK /\ [Next]_vars => [Policy!Next]_<<Driver, swOn>>
  BY <1>4, StepKeepsPolicy
<1> QED BY <1>1, <1>2, <1>3, <1>5, DaemonInvKept, PTL DEF Spec, PolicyKept, Policy!Spec

(***************************************************************************)
(* What clients are told.                                                  *)
(***************************************************************************)
AnnounceInv == logged \subseteq {swOn} /\ ListAnnounced

LEMMA AnnounceKept == AnnounceInv /\ [Next]_vars => AnnounceInv'
<1> SUFFICES ASSUME AnnounceInv, [Next]_vars PROVE AnnounceInv'
  OBVIOUS
<1>1. CASE Request
  <2>1. UNCHANGED <<swOn, logged>>
    BY <1>1 DEF Request, SequenceRequest, StateRequest, ScheduleUpdate, StatusRequest,
       statusVars, Queue!Request, Queue!AddBusy, Queue!AddUnparsable, Queue!AddIncomplete,
       Queue!AddAccepted, Queue!Cancel
  <2>2. statusEvent => statusEvent'
    <3>1. ASSUME SequenceRequest, statusEvent PROVE statusEvent'
      BY <3>1 DEF SequenceRequest
    <3>2. CASE ~SequenceRequest
      BY <1>1, <3>2 DEF Request, StateRequest, ScheduleUpdate, StatusRequest, statusVars
    <3> QED BY <3>1, <3>2
  <2>3. "list" \in unsent' => "list" \in unsent
    BY <1>1, <2>1 DEF Request, NoteChanges, Report
  <2> QED BY <2>1, <2>2, <2>3 DEF AnnounceInv, ListAnnounced
<1>2. CASE Turn
  <2>1. logged' = {swOn'} /\ (statusEvent \/ swOn' \notin logged => statusEvent')
    BY <1>2 DEF Turn, ListChanged
  <2>2. "list" \in unsent' => "list" \in unsent \/ swOn' # swOn
    BY <1>2 DEF Turn, NoteChanges, Report
  <2>3. ListAnnounced'
    <3>1. CASE swOn' \notin logged
      BY <2>1, <3>1 DEF ListAnnounced
    <3>2. CASE swOn' \in logged
      <4>1. swOn' = swOn /\ logged # {}
        BY <3>2 DEF AnnounceInv
      <4> QED BY <2>1, <2>2, <4>1 DEF AnnounceInv, ListAnnounced
    <3> QED BY <3>1, <3>2
  <2> QED BY <2>1, <2>3 DEF AnnounceInv
<1>3. CASE SendStatus
  BY <1>3 DEF SendStatus, AnnounceInv, ListAnnounced
<1>4. CASE Crash
  BY <1>4 DEF Crash, AnnounceInv, ListAnnounced
<1>5. CASE Boot \/ Time \/ UNCHANGED vars
  BY <1>5 DEF Boot, Time, vars, statusVars, AnnounceInv, ListAnnounced
<1> QED BY <1>1, <1>2, <1>3, <1>4, <1>5 DEF Next

\* Whatever the schedule, the requests and their order within a turn: no change
\* of the list goes by without an event that has a status with it sent.
THEOREM DaemonListAnnounced == Spec => []ListAnnounced
<1>1. Init => AnnounceInv
  BY DEF Init, AnnounceInv, ListAnnounced
<1>2. AnnounceInv => ListAnnounced
  BY DEF AnnounceInv
<1> QED BY <1>1, <1>2, AnnounceKept, PTL DEF Spec

(***************************************************************************)
(* The sequences.  With the ID of a default action among the switches the  *)
(* list of any turn is one that the queue may have returned, so each step  *)
(* of the daemon is a step of SequenceQueue, or leaves the queue empty: a  *)
(* turn that asks the schedule, a death, and whatever happens while the    *)
(* daemon is down.                                                         *)
(***************************************************************************)
SeqProofs == INSTANCE SequenceQueue_proofs WITH Switch <- Switch \cup {NoSwid}

LEMMA SeqAssumptions ==
  SeqProofs!TimeAssumption /\ SeqProofs!MalformedAssumption /\ SeqProofs!SequenceAssumption
<1>1. ASSUME NEW list \in SwidLists PROVE list \in Seq(Switch \cup {NoSwid})
  BY DaemonAssumption
<1> QED BY <1>1, TimeAssumption, MalformedAssumption, DaemonAssumption, DayAssumption
        DEF UInt, ClockTime, SeqProofs!TimeAssumption, SeqProofs!MalformedAssumption,
            SeqProofs!SequenceAssumption, SeqProofs!UInt, SeqProofs!ClockTime

\* What SequenceQueue calls by the same names.
LEMMA SameOperators ==
  /\ Queue!AddRequest = SeqProofs!AddRequest
  /\ \A text : Queue!ParseTime(text) = SeqProofs!ParseTime(text)
  /\ Queue!TimeOfDay = SeqProofs!TimeOfDay
  /\ \A starts, t, on, off :
       Queue!UniformStarts(starts, t, on, off) = SeqProofs!UniformStarts(starts, t, on, off)
  /\ \A starts, on, swids :
       Queue!UniformActions(starts, on, swids) = SeqProofs!UniformActions(starts, on, swids)
<1>1. \A t, d : Queue!AddDuration(t, d) = SeqProofs!AddDuration(t, d)
  BY DEF Queue!AddDuration, Queue!AddSeconds, Queue!Cap,
         SeqProofs!AddDuration, SeqProofs!AddSeconds, SeqProofs!Cap
<1>2. \A e, off : Queue!NextStart(e, off) = SeqProofs!NextStart(e, off)
  BY <1>1 DEF Queue!NextStart, Queue!SetFromSeconds, Queue!AddSeconds, Queue!Cap,
              SeqProofs!NextStart, SeqProofs!SetFromSeconds, SeqProofs!AddSeconds, SeqProofs!Cap
<1>3. ASSUME NEW starts, NEW t, NEW on, NEW off
      PROVE  Queue!UniformStarts(starts, t, on, off) = SeqProofs!UniformStarts(starts, t, on, off)
  BY <1>1, <1>2 DEF Queue!UniformStarts, SeqProofs!UniformStarts
<1>4. ASSUME NEW starts, NEW on, NEW swids
      PROVE  Queue!UniformActions(starts, on, swids) = SeqProofs!UniformActions(starts, on, swids)
  BY <1>1 DEF Queue!UniformActions, SeqProofs!UniformActions
<1>5. Queue!AddRequest = SeqProofs!AddRequest
  BY DEF Queue!AddRequest, SeqProofs!AddRequest
<1>6. \A text : Queue!ParseTime(text) = SeqProofs!ParseTime(text)
  BY DEF Queue!ParseTime, Queue!UInt, SeqProofs!ParseTime, SeqProofs!UInt
<1>7. Queue!TimeOfDay = SeqProofs!TimeOfDay
  BY DEF Queue!TimeOfDay, SeqProofs!TimeOfDay
<1> QED BY <1>3, <1>4, <1>5, <1>6, <1>7

LEMMA RequestIsQueueRequest == Queue!Request => SeqProofs!Request
<1> SUFFICES ASSUME Queue!Request PROVE SeqProofs!Request
  OBVIOUS
<1> USE DEF SeqProofs!Request
<1>1. CASE Queue!AddBusy \/ Queue!AddUnparsable \/ Queue!Cancel
  BY <1>1 DEF Queue!AddBusy, Queue!AddUnparsable, Queue!Cancel,
              SeqProofs!AddBusy, SeqProofs!AddUnparsable, SeqProofs!Cancel
<1>2. ASSUME NEW req \in Queue!AddRequest, Queue!AddIncomplete(req) PROVE SeqProofs!Request
  <2>1. SeqProofs!AddIncomplete(req)
    BY <1>2 DEF Queue!AddIncomplete, Queue!Complete, Queue!AssignedID,
                SeqProofs!AddIncomplete, SeqProofs!Complete, SeqProofs!AssignedID
  <2> QED BY <2>1, SameOperators
<1>3. ASSUME NEW req \in Queue!AddRequest, Queue!AddAccepted(req) PROVE SeqProofs!Request
  <2>1. PICK on \in Queue!ParseTime(req.on), off \in Queue!ParseTime(req.off),
             starts \in [1 .. Len(req.swids) -> Queue!TimeOfDay] :
          /\ Queue!UniformStarts(starts, now, on, off)
          /\ actionList' = Queue!UniformActions(starts, on, req.swids)
    BY <1>3 DEF Queue!AddAccepted
  <2>2. /\ on \in SeqProofs!ParseTime(req.on) /\ off \in SeqProofs!ParseTime(req.off)
        /\ starts \in [1 .. Len(req.swids) -> SeqProofs!TimeOfDay]
        /\ SeqProofs!UniformStarts(starts, now, on, off)
        /\ actionList' = SeqProofs!UniformActions(starts, on, req.swids)
    BY <2>1, SameOperators
  <2>3. SeqProofs!AddAccepted(req)
    BY <1>3, <2>2 DEF Queue!AddAccepted, Queue!Complete, Queue!AssignedID,
                      SeqProofs!AddAccepted, SeqProofs!Complete, SeqProofs!AssignedID
  <2> QED BY <2>3, SameOperators
<1> QED BY <1>1, <1>2, <1>3 DEF Queue!Request

\* A turn that asks the queue is a poll of it.
LEMMA TurnIsQueuePoll ==
  ASSUME Turn, actionList # <<>>
  PROVE  SeqProofs!Poll
<1>1. lag' = 0 /\ UNCHANGED <<reply, now, clockSets>>
  BY DEF Turn, State!Poll
<1>2. SeqProofs!GetSwitchOnList(now)
  BY DEF Turn, AskQueue, Queue!GetSwitchOnList, Queue!Expired, Queue!Active,
         Queue!StartIsBefore, Queue!EndIsAfter,
         SeqProofs!GetSwitchOnList, SeqProofs!Expired, SeqProofs!Active,
         SeqProofs!StartIsBefore, SeqProofs!EndIsAfter
<1> QED BY <1>1, <1>2 DEF SeqProofs!Poll

LEMMA StepIsQueueStep ==
  ASSUME DaemonInv, [Next]_vars
  PROVE  \/ [SeqProofs!Next]_SeqProofs!vars
         \/ /\ actionList' = <<>>
            /\ requestID' \in {requestID, NoID} /\ reply' \in {reply, "none"}
            /\ swOn' \in {swOn, {}, Walk(day, now)}
<1> USE DEF SeqProofs!Next
<1>1. CASE SequenceRequest
  BY <1>1, RequestIsQueueRequest DEF SequenceRequest
<1>2. CASE StateRequest \/ ScheduleUpdate \/ StatusRequest \/ SendStatus \/ UNCHANGED vars
  <2>1. UNCHANGED SeqProofs!vars
    BY <1>2 DEF StateRequest, State!SetStateDisabled, State!RequestEnable, State!SetStateInhibited,
       State!clock, ScheduleUpdate, StatusRequest, SendStatus, vars, queueVars, clockVars,
       SeqProofs!vars
  <2> QED BY <2>1
<1>3. CASE Turn /\ actionList # <<>>
  BY <1>3, TurnIsQueuePoll
<1>4. CASE Turn /\ actionList = <<>>
  BY <1>4 DEF Turn, AskSchedule
<1>5. CASE Crash
  BY <1>5 DEF Crash
<1>6. CASE Boot
  BY <1>6 DEF Boot, State!Boot, DaemonInv, queueVars
<1>7. CASE Time /\ up
  <2>1. SeqProofs!Tick \/ SeqProofs!SetClock
    BY <1>7 DEF Time, State!Tick, State!SetClock, queueVars, SeqProofs!Tick, SeqProofs!SetClock
  <2> QED BY <2>1
<1>8. CASE Time /\ ~up
  BY <1>8 DEF Time, DaemonInv, queueVars
<1> QED BY <1>1, <1>2, <1>3, <1>4, <1>5, <1>6, <1>7, <1>8 DEF Next, Request

LEMMA WalkType ==
  ASSUME DaemonInv
  PROVE  Walk(day, now) \in SUBSET (Switch \cup {NoSwid})
<1>1. day \in Seq(DayAction)
  BY DaemonAssumption DEF DaemonInv
<1>2. \A i \in DOMAIN day : day[i].swid \in Switch \cup {NoSwid}
  BY <1>1, ActionFields DEF DayAction
<1> QED BY <1>2 DEF Walk

LEMMA SequenceInvKept ==
  ASSUME SeqProofs!WellFormedTexts, DaemonInv, StateProofs!TypeOK', SeqProofs!SequenceInv,
         [Next]_vars
  PROVE  SeqProofs!SequenceInv'
<1>1. CASE [SeqProofs!Next]_SeqProofs!vars
  BY <1>1, SeqAssumptions, SeqProofs!SequenceInvStep
<1>2. CASE /\ actionList' = <<>>
           /\ requestID' \in {requestID, NoID} /\ reply' \in {reply, "none"}
           /\ swOn' \in {swOn, {}, Walk(day, now)}
  <2>1. SeqProofs!TypeOK
    BY DEF SeqProofs!SequenceInv, SeqProofs!OrderInv
  <2>2. /\ requestID' \in RequestID \cup {DefaultID, NoID}
        /\ reply' \in SeqProofs!Reply
        /\ swOn' \in SUBSET (Switch \cup {NoSwid})
    BY <1>2, <2>1, WalkType DEF SeqProofs!TypeOK, SeqProofs!Reply
  <2>3. now' \in SeqProofs!ClockTime /\ lag' \in 0 .. MaxLag /\ clockSets' \in 0 .. MaxClockSets
    BY DEF StateProofs!TypeOK, StateProofs!ClockTime, SeqProofs!ClockTime
  <2>4. SeqProofs!TypeOK'
    BY <1>2, <2>2, <2>3 DEF SeqProofs!TypeOK
  <2> QED BY <1>2, <2>4, SeqAssumptions, SeqProofs!SequenceInvEmptied
<1> QED BY <1>1, <1>2, StepIsQueueStep

LEMMA DaemonSequenceInv ==
  ASSUME SeqProofs!WellFormedTexts
  PROVE  Spec => []SeqProofs!SequenceInv
<1>0. StateProofs!TimeAssumption /\ StateProofs!MalformedAssumption
      /\ StateProofs!ScheduleStateAssumption
  BY TimeAssumption, MalformedAssumption, DaemonAssumption DEF UInt, ClockTime,
     StateProofs!UInt, StateProofs!ClockTime
<1>1. Spec => []StateProofs!TypeOK
  BY <1>0, DaemonImplementsState, StateProofs!StateTypeOK
<1>2. Init => DaemonInv
  BY DEF Init, DaemonInv
<1>3. Init => SeqProofs!SequenceInv
  <2>1. Init => SeqProofs!Init
    BY DEF Init, State!Init, State!ClockTime, SeqProofs!Init, SeqProofs!ClockTime
  <2> QED BY <2>1, SeqAssumptions, SeqProofs!SequenceInvInit
<1>4. DaemonInv /\ StateProofs!TypeOK' /\ SeqProofs!SequenceInv /\ [Next]_vars
        => SeqProofs!SequenceInv'
  BY SequenceInvKept
<1> QED BY <1>1, <1>2, <1>3, <1>4, DaemonInvKept, PTL DEF Spec

\* The safety of the queue is that of the daemon, its deaths included: at no
\* time of day are two queued actions due together, the gap is kept, and what
\* is queued has an ID.
THEOREM DaemonSequencesSafe ==
  ASSUME SeqProofs!WellFormedTexts
  PROVE  Spec => [](SeqProofs!OneAtATime /\ SeqProofs!GapKept /\ SeqProofs!ActiveHasID)
<1>1. SeqProofs!SequenceInv
        => SeqProofs!OneAtATime /\ SeqProofs!GapKept /\ SeqProofs!ActiveHasID
  BY SeqAssumptions, SeqProofs!OrderedOneAtATime DEF SeqProofs!SequenceInv, SeqProofs!OrderInv
<1> QED BY <1>1, DaemonSequenceInv, PTL

\* Neither the schedule nor the state, neither a status to be sent nor a
\* request gets in the way of a sequence that runs.
THEOREM DaemonSequenceRunsInFull ==
  ASSUME SeqProofs!WellFormedTexts
  PROVE  Spec => SequenceRunsInFull
<1> DEFINE InFull ==
      Turn /\ actionList # <<>> =>
        /\ swOn' = {actionList[i].swid :
                      i \in {j \in DOMAIN actionList : Active(actionList[j], now)}}
        /\ clockSets = 0 => \A i \in 1 .. Len(actionList) - Len(actionList') :
             actionList[i].end - actionList[i].start > MaxLag
               => i = 1 /\ swOn = {actionList[i].swid}
<1>1. SeqProofs!SequenceInv /\ [Next]_vars => [InFull]_vars
  <2> SUFFICES ASSUME SeqProofs!SequenceInv, Turn, actionList # <<>> PROVE InFull
    OBVIOUS
  <2>1. SeqProofs!Poll
    BY TurnIsQueuePoll
  <2>2. SeqProofs!OrderInv /\ SeqProofs!LongFirst /\ SeqProofs!UnsetSeen
    BY DEF SeqProofs!SequenceInv
  <2>3. swOn' = {actionList[i].swid :
                   i \in {j \in DOMAIN actionList : SeqProofs!Active(actionList[j], now)}}
    BY <2>1, <2>2, SeqAssumptions, SeqProofs!PollFindsDue
  <2>4. \A act, t : SeqProofs!Active(act, t) = Active(act, t)
    BY DEF Active, StartIsBefore, EndIsAfter,
           SeqProofs!Active, SeqProofs!StartIsBefore, SeqProofs!EndIsAfter
  <2>5. ASSUME clockSets = 0, NEW i \in 1 .. Len(actionList) - Len(actionList'),
               actionList[i].end - actionList[i].start > MaxLag
        PROVE  i = 1 /\ swOn = {actionList[i].swid}
    BY <2>1, <2>2, <2>5, SeqAssumptions, SeqProofs!NoneSkipped
       DEF SeqProofs!UnsetSeen, SeqProofs!Long
  <2> QED BY <2>3, <2>4, <2>5
<1> QED BY <1>1, DaemonSequenceInv, PTL DEF Spec, SequenceRunsInFull
=============================================================================
