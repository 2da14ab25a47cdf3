--------------------------- MODULE SequenceQueue ---------------------------
(***************************************************************************)
(* HNSequenceQueue (HNScheduleMatrix.cpp) as the daemon's event loop uses  *)
(* it: clients add a "uniform sequence" (each switch of a list on for      *)
(* onDuration, one after the other, offDuration apart) or cancel           *)
(* everything; the loop polls the queue with the local time of day and     *)
(* gets the switches to be on.                                             *)
(*                                                                         *)
(* The clock is part of the model.  A second passes at a time, and the     *)
(* loop polls at least once every MaxLag seconds (epoll_wait gives up      *)
(* after 1000 ms).  The host may also set its local time (ClockTargets:    *)
(* daylight saving, an NTP step).                                          *)
(***************************************************************************)
EXTENDS HNSAction, Sequences

CONSTANTS RequestID,     \* IDs clients give their requests
          DefaultID,     \* "seqid_default"
          NoID,          \* the empty string
          Missing,       \* an absent (or empty) JSON field
          OnTexts,       \* values of "onDuration" clients send
          OffTexts,      \* values of "offDuration" clients send
          SwidLists,     \* values of "swidList" clients send, <<>> if absent
          MaxLag,        \* longest time between two polls
          ClockTargets,  \* times of day the local clock may be set to
          MaxClockSets   \* how often it is set

ASSUME SequenceAssumption ==
  /\ SwidLists \subseteq Seq(Switch)
  /\ NoID \notin RequestID \cup {DefaultID}
  /\ Missing \notin UInt \cup {Malformed}
  /\ OnTexts \subseteq UInt \cup {Malformed, Missing}
  /\ OffTexts \subseteq UInt \cup {Malformed, Missing}
  /\ MaxLag \in Nat \ {0}
  /\ ClockTargets \subseteq ClockTime
  /\ MaxClockSets \in Nat

VARIABLES requestID,    \* m_requestID
          actionList,   \* actionList, front first
          swOn,         \* what the last poll returned
          reply,        \* the outcome of the last client request
          now,          \* the local time of day
          lag,          \* seconds since the loop last polled
          clockSets     \* how often the clock was set

vars == <<requestID, actionList, swOn, reply, now, lag, clockSets>>

\* HNSAction: the times of a queued action are capped.
Action == [swid : Switch, start : TimeOfDay, end : TimeOfDay]

\* What a client puts in a USEQ_ADD request.
AddRequest == [id : RequestID \cup {NoID}, on : OnTexts, off : OffTexts,
               swids : SwidLists]

Reply == {"none", "success", "failure", "busy"}
-----------------------------------------------------------------------------
(* Actions that are over.  Operators called "Variant" are slips this code  *)
(* could have had; nothing below uses them, the properties tell them from  *)
(* the code.                                                               *)

\* Variant: an action is over a second early.
ExpiredEarly(act, t) == StartIsBefore(act, t) /\ act.end <= t + 1

\* Variant: an action is over a second late.
ExpiredLate(act, t) == StartIsBefore(act, t) /\ act.end < t

Expired(act, t) == StartIsBefore(act, t) /\ ~EndIsAfter(act, t)
-----------------------------------------------------------------------------
(* addUniformSequence *)

Complete(req) == req.on # Missing /\ req.off # Missing /\ req.swids # <<>>

\* m_requestID is assigned before the other fields are looked at.
AssignedID(req) == IF req.id = NoID THEN DefaultID ELSE req.id

\* Variant: without the second of delay.
NextStartNoDelay(lastEnd, off) == AddDuration(SetFromSeconds(lastEnd), off)

\* "Delay offPeriod seconds between switches, but ensure at least one second".
NextStart(lastEnd, off) ==
  IF off = 0 THEN AddSeconds(SetFromSeconds(lastEnd), 1)
             ELSE AddDuration(SetFromSeconds(lastEnd), off)

\* Variant: based on the start of the preceding action, not on its end.
UniformStartsOverlapping(starts, t, on, off) ==
  \A i \in DOMAIN starts :
    starts[i] = IF i = 1 THEN t ELSE NextStart(starts[i - 1], off)

\* starts[i] is when the i-th switch of the sequence goes on.
UniformStarts(starts, t, on, off) ==
  \A i \in DOMAIN starts :
    starts[i] = IF i = 1 THEN t ELSE NextStart(AddDuration(starts[i - 1], on), off)

UniformActions(starts, on, swids) ==
  [i \in 1 .. Len(swids) |->
    [swid |-> swids[i], start |-> starts[i], end |-> AddDuration(starts[i], on)]]

AddBusy ==
  /\ requestID # NoID
  /\ reply' = "busy"
  /\ UNCHANGED <<requestID, actionList, swOn, now, lag, clockSets>>

\* The request is no JSON object.
AddUnparsable ==
  /\ requestID = NoID
  /\ reply' = "failure"
  /\ UNCHANGED <<requestID, actionList, swOn, now, lag, clockSets>>

AddIncomplete(req) ==
  /\ requestID = NoID
  /\ ~Complete(req)
  /\ requestID' = AssignedID(req)
  /\ reply' = "failure"
  /\ UNCHANGED <<actionList, swOn, now, lag, clockSets>>

\* Variant: without the check of m_requestID.
AddAcceptedWhileBusy(req) ==
  /\ Complete(req)
  /\ requestID' = AssignedID(req)
  /\ Len(actionList) < 2
  /\ actionList' = Append(actionList,
       [swid |-> req.swids[1], start |-> now, end |-> now])
  /\ reply' = "success"
  /\ UNCHANGED <<swOn, now, lag, clockSets>>

AddAccepted(req) ==
  /\ requestID = NoID
  /\ Complete(req)
  /\ requestID' = AssignedID(req)
  /\ \E on \in ParseTime(req.on), off \in ParseTime(req.off),
        starts \in [1 .. Len(req.swids) -> TimeOfDay] :
       /\ UniformStarts(starts, now, on, off)
       /\ actionList' = UniformActions(starts, on, req.swids)
  /\ reply' = "success"
  /\ UNCHANGED <<swOn, now, lag, clockSets>>

\* cancelSequences
Cancel ==
  /\ requestID' = NoID
  /\ actionList' = <<>>
  /\ reply' = "success"
  /\ UNCHANGED <<swOn, now, lag, clockSets>>
-----------------------------------------------------------------------------
(* getSwitchOnList: drop the n expired actions at the front, then look at  *)
(* the first of the rest only.                                             *)

\* Variant: the ID released with the first action dropped.
GetSwitchOnListEarlyRelease(t) ==
  \E n \in 0 .. Len(actionList) :
    /\ \A i \in 1 .. n : Expired(actionList[i], t)
    /\ n < Len(actionList) => ~Expired(actionList[n + 1], t)
    /\ actionList' = SubSeq(actionList, n + 1, Len(actionList))
    /\ requestID' = IF 0 < n THEN NoID ELSE requestID
    /\ swOn' = {}

\* Variant: the ID never released.
GetSwitchOnListNoRelease(t) ==
  /\ actionList' = SelectSeq(actionList, LAMBDA act : ~Expired(act, t))
  /\ swOn' = {}
  /\ UNCHANGED requestID

\* Variant: a poll that drops an action returns without looking further.
GetSwitchOnListNoContinue(t) ==
  IF Expired(Head(actionList), t)
    THEN /\ actionList' = Tail(actionList)
         /\ requestID' = IF Len(actionList) = 1 THEN NoID ELSE requestID
         /\ swOn' = {}
    ELSE /\ swOn' = IF Active(Head(actionList), t) THEN {Head(actionList).swid} ELSE {}
         /\ UNCHANGED <<requestID, actionList>>

GetSwitchOnList(t) ==
  \E n \in 0 .. Len(actionList) :
    /\ \A i \in 1 .. n : Expired(actionList[i], t)
    /\ n < Len(actionList) => ~Expired(actionList[n + 1], t)
    /\ actionList' = SubSeq(actionList, n + 1, Len(actionList))
    /\ requestID' = IF 0 < n /\ n = Len(actionList) THEN NoID ELSE requestID
    /\ swOn' = {actionList[i].swid :
                  i \in {j \in {n + 1} \cap DOMAIN actionList :
                           Active(actionList[j], t)}}

\* One turn of the event loop, hasActions() first.
Poll ==
  /\ IF actionList # <<>> THEN GetSwitchOnList(now)
                          ELSE swOn' = {} /\ UNCHANGED <<requestID, actionList>>
  /\ lag' = 0
  /\ UNCHANGED <<reply, now, clockSets>>

Tick ==
  /\ lag < MaxLag
  /\ now' = (now + 1) % DaySecs
  /\ lag' = lag + 1
  /\ UNCHANGED <<requestID, actionList, swOn, reply, clockSets>>

SetClock ==
  /\ clockSets < MaxClockSets
  /\ clockSets' = clockSets + 1
  /\ now' \in ClockTargets
  /\ UNCHANGED <<requestID, actionList, swOn, reply, lag>>
-----------------------------------------------------------------------------
Init ==
  /\ requestID = NoID
  /\ actionList = <<>>
  /\ swOn = {}
  /\ reply = "none"
  /\ now \in ClockTime
  /\ lag = 0
  /\ clockSets = 0

Request ==
  \/ AddBusy
  \/ AddUnparsable
  \/ \E req \in AddRequest : AddIncomplete(req) \/ AddAccepted(req)
  \/ Cancel

Next == Request \/ Poll \/ Tick \/ SetClock

Spec == Init /\ [][Next]_vars

\* Time passes, and epoll_wait returns at least once a second.
FairSpec == Spec /\ WF_vars(Tick) /\ WF_vars(Poll)
-----------------------------------------------------------------------------
\* Clients send durations that parse and that do not overflow a uint.
WellFormedTexts ==
  /\ Malformed \notin OnTexts \cup OffTexts
  /\ \A d \in (OnTexts \cup OffTexts) \ {Missing} : DaySecs + d < UIntMod

(* Safety *)

TypeOK ==
  /\ requestID \in RequestID \cup {DefaultID, NoID}
  /\ actionList \in Seq(Action)
  /\ swOn \in SUBSET Switch
  /\ reply \in Reply
  /\ now \in ClockTime
  /\ lag \in 0 .. MaxLag
  /\ clockSets \in 0 .. MaxClockSets

\* While actions are queued the queue has an ID, so that a second sequence is
\* turned away instead of being appended to the running one.
ActiveHasID == actionList # <<>> => requestID # NoID

\* Whatever the clock does, at no time of day are two queued actions due
\* together: a uniform sequence never opens two valves.
OneAtATime ==
  \A i, j \in DOMAIN actionList : \A t \in ClockTime :
    Active(actionList[i], t) /\ Active(actionList[j], t) => i = j

\* A switch goes on at least one second after the one before it went off,
\* unless midnight cut the sequence.
GapKept ==
  \A i \in DOMAIN actionList : i > 1 =>
    \/ actionList[i - 1].end < actionList[i].start
    \/ actionList[i].start = DaySecs

\* The last action ends early enough for a poll to see it ended before the
\* clock is back at 00:00:00.
EndsBeforeMidnight ==
  actionList # <<>> /\ actionList[Len(actionList)].end + MaxLag <= DaySecs

(* Action properties *)

\* The queue is only consumed from its front: nobody reorders it, and no
\* request adds to a sequence that still has actions.
ConsumedInOrder ==
  [][\/ actionList = <<>>
     \/ \E n \in 0 .. Len(actionList) :
          actionList' = SubSeq(actionList, n + 1, Len(actionList))]_vars

\* Looking at the front action only is enough: a poll turns on exactly the
\* queued actions due now.
PollReportsDue ==
  [][Poll => swOn' = {actionList[i].swid :
                        i \in {j \in DOMAIN actionList : Active(actionList[j], now)}}]_vars

\* While nobody sets the clock, an action that lasts longer than the loop may
\* sleep is not dropped before a poll has turned its switch on.
NoSwitchSkipped ==
  [][Poll /\ clockSets = 0 => \A i \in 1 .. Len(actionList) - Len(actionList') :
       actionList[i].end - actionList[i].start > MaxLag
         => i = 1 /\ swOn = {actionList[i].swid}]_vars

\* While nobody sets the clock, a sequence that ends before midnight is not
\* queued any more MaxLag seconds after its last action ended: no second
\* passes beyond that point, and none turns the day, with the sequence and the
\* ID that turns others away still there.
SequenceEndsOnTime ==
  [][LET last == actionList[Len(actionList)]
     IN  Tick /\ clockSets = 0 /\ EndsBeforeMidnight /\ last.start < last.end
           => now' = now + 1 /\ now' < last.end + MaxLag]_vars

(* Liveness *)

\* A sequence that ends before midnight is over some day, though the clock be
\* set meanwhile, and with it the ID that turns other sequences away.
SequenceCompletes == EndsBeforeMidnight ~> (actionList = <<>> /\ requestID = NoID)

(* What the comments say of the queue and the code does not do. *)

\* "If a sequence is already active then reject this request".
RejectsOnlyWhenActive == requestID # NoID => actionList # <<>>
=============================================================================
