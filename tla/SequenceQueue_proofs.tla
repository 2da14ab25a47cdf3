------------------------ MODULE SequenceQueue_proofs ------------------------
(***************************************************************************)
(* Theorems about SequenceQueue, for every day length, every width of the  *)
(* C++ uint and every set of requests.                                     *)
(***************************************************************************)
EXTENDS SequenceQueue, HNS24HTime_proofs, SequenceTheorems, TLAPS

LEMMA ParseTimeType ==
  ASSUME NEW text \in UInt \cup {Malformed}, NEW d \in ParseTime(text)
  PROVE  d \in Nat
BY TimeAssumption DEF ParseTime, UInt

(***************************************************************************)
(* Type correctness.                                                       *)
(***************************************************************************)
LEMMA TypeStep == TypeOK /\ [Next]_vars => TypeOK'
<1> SUFFICES ASSUME TypeOK, [Next]_vars PROVE TypeOK'
  OBVIOUS
<1> USE DEF TypeOK
<1>1. CASE AddBusy \/ AddUnparsable
  BY <1>1 DEF AddBusy, AddUnparsable, Reply
<1>2. ASSUME NEW req \in AddRequest, AddIncomplete(req) PROVE TypeOK'
  BY <1>2 DEF AddRequest, AddIncomplete, AssignedID, Reply
<1>3. ASSUME NEW req \in AddRequest, AddAccepted(req) PROVE TypeOK'
  <2>1. requestID' \in RequestID \cup {DefaultID, NoID}
    BY <1>3 DEF AddRequest, AddAccepted, AssignedID
  <2>2. PICK on \in ParseTime(req.on), off \in ParseTime(req.off),
              starts \in [1 .. Len(req.swids) -> TimeOfDay] :
          actionList' = UniformActions(starts, on, req.swids)
    BY <1>3 DEF AddAccepted
  <2>3. on \in Nat
    BY <1>3, ParseTimeType, SequenceAssumption DEF AddAccepted, Complete, AddRequest
  <2>4. req.swids \in Seq(Switch)
    BY SequenceAssumption DEF AddRequest
  <2>5. ASSUME NEW i \in 1 .. Len(req.swids)
        PROVE  [swid |-> req.swids[i], start |-> starts[i],
                end |-> AddDuration(starts[i], on)] \in Action
    <3>1. starts[i] \in TimeOfDay /\ starts[i] \in Nat
      BY DEF TimeOfDay
    <3>2. AddDuration(starts[i], on) \in TimeOfDay
      BY <2>3, <3>1, AddSecondsType DEF AddDuration
    <3>3. req.swids[i] \in Switch
      BY <2>4
    <3> QED BY <3>1, <3>2, <3>3 DEF Action
  <2>6. actionList' \in Seq(Action)
    <3>1. Len(req.swids) \in Nat
      BY <2>4
    <3>2. UniformActions(starts, on, req.swids) \in [1 .. Len(req.swids) -> Action]
      BY <2>5 DEF UniformActions
    <3> QED BY <2>2, <3>1, <3>2, SeqDef
  <2> QED BY <1>3, <2>1, <2>6 DEF AddAccepted, Reply
<1>4. CASE Cancel
  BY <1>4 DEF Cancel, Reply
<1>5. CASE Poll
  <2>1. CASE actionList = <<>>
    BY <1>5, <2>1, SequenceAssumption DEF Poll
  <2>2. CASE actionList # <<>>
    <3>1. PICK n \in 0 .. Len(actionList) :
            /\ actionList' = SubSeq(actionList, n + 1, Len(actionList))
            /\ requestID' = IF 0 < n /\ n = Len(actionList) THEN NoID ELSE requestID
            /\ swOn' = {actionList[i].swid :
                          i \in {j \in {n + 1} \cap DOMAIN actionList :
                                   Active(actionList[j], now)}}
      BY <1>5, <2>2 DEF Poll, GetSwitchOnList
    <3>2. actionList' \in Seq(Action)
      BY <3>1, SubSeqProperties
    <3>3. ASSUME NEW i \in DOMAIN actionList PROVE actionList[i].swid \in Switch
      <4>1. actionList[i] \in Action
        OBVIOUS
      <4> QED BY <4>1 DEF Action
    <3>4. swOn' \in SUBSET Switch
      BY <3>1, <3>3
    <3> QED BY <1>5, <3>1, <3>2, <3>4, SequenceAssumption DEF Poll
  <2> QED BY <2>1, <2>2
<1>6. CASE Tick
  <2>1. (now + 1) % DaySecs \in ClockTime
    BY TimeAssumption DEF ClockTime
  <2> QED BY <1>6, <2>1, SequenceAssumption DEF Tick
<1>7. CASE SetClock
  BY <1>7, SequenceAssumption DEF SetClock
<1>8. CASE UNCHANGED vars
  BY <1>8 DEF vars
<1> QED BY <1>1, <1>2, <1>3, <1>4, <1>5, <1>6, <1>7, <1>8 DEF Next, Request

THEOREM SequenceTypeOK == Spec => []TypeOK
<1>1. Init => TypeOK
  BY SequenceAssumption, TimeAssumption DEF Init, TypeOK, Reply, ClockTime
<1> QED BY <1>1, TypeStep, PTL DEF Spec

(***************************************************************************)
(* The queue and its ID.                                                   *)
(***************************************************************************)

LEMMA ActiveStep == TypeOK /\ ActiveHasID /\ [Next]_vars => ActiveHasID'
<1> SUFFICES ASSUME TypeOK, ActiveHasID, [Next]_vars PROVE ActiveHasID'
  OBVIOUS
<1> USE DEF ActiveHasID
<1>1. CASE AddBusy \/ AddUnparsable
  BY <1>1 DEF AddBusy, AddUnparsable
<1>2. ASSUME NEW req \in AddRequest, AddIncomplete(req) \/ AddAccepted(req)
      PROVE ActiveHasID'
  BY <1>2, SequenceAssumption
     DEF AddRequest, AddIncomplete, AddAccepted, AssignedID
<1>3. CASE Cancel
  BY <1>3 DEF Cancel
<1>4. CASE Poll
  <2>1. CASE actionList = <<>>
    BY <1>4, <2>1 DEF Poll
  <2>2. CASE actionList # <<>>
    <3>1. PICK n \in 0 .. Len(actionList) :
            /\ actionList' = SubSeq(actionList, n + 1, Len(actionList))
            /\ requestID' = IF 0 < n /\ n = Len(actionList) THEN NoID ELSE requestID
      BY <1>4, <2>2 DEF Poll, GetSwitchOnList
    <3>2. CASE 0 < n /\ n = Len(actionList)
      BY <3>1, <3>2, SubSeqProperties DEF TypeOK
    <3>3. CASE ~(0 < n /\ n = Len(actionList))
      BY <2>2, <3>1, <3>3
    <3> QED BY <3>2, <3>3
  <2> QED BY <2>1, <2>2
<1>5. CASE Tick \/ SetClock \/ UNCHANGED vars
  BY <1>5 DEF Tick, SetClock, vars
<1> QED BY <1>1, <1>2, <1>3, <1>4, <1>5 DEF Next, Request

\* A poll that drops the last action, and only that poll, releases the ID.
THEOREM SequenceActiveHasID == Spec => []ActiveHasID
<1>1. Init => ActiveHasID
  BY DEF Init, ActiveHasID
<1> QED BY <1>1, ActiveStep, SequenceTypeOK, PTL DEF Spec

\* Requests never add to, and polls never reorder, a sequence in progress.
THEOREM SequenceConsumedInOrder == Spec => ConsumedInOrder
<1> DEFINE InOrder ==
      \/ actionList = <<>>
      \/ \E n \in 0 .. Len(actionList) :
           actionList' = SubSeq(actionList, n + 1, Len(actionList))
<1>1. TypeOK /\ ActiveHasID /\ [Next]_vars => [InOrder]_vars
  <2> SUFFICES ASSUME TypeOK, ActiveHasID, Next, actionList # <<>>
               PROVE  \E n \in 0 .. Len(actionList) :
                        actionList' = SubSeq(actionList, n + 1, Len(actionList))
    OBVIOUS
  <2>1. Len(actionList) \in Nat
    BY DEF TypeOK
  <2>2. CASE actionList' = actionList
    <3>1. actionList' = SubSeq(actionList, 0 + 1, Len(actionList))
      BY <2>2, SubSeqProperties DEF TypeOK
    <3> QED BY <2>1, <3>1
  <2>3. CASE Cancel
    <3>1. actionList' = SubSeq(actionList, Len(actionList) + 1, Len(actionList))
      BY <2>1, <2>3, SubSeqProperties DEF Cancel, TypeOK
    <3> QED BY <2>1, <3>1
  <2>4. CASE Poll
    BY <2>4 DEF Poll, GetSwitchOnList
  <2>5. CASE AddBusy \/ AddUnparsable \/ Tick \/ SetClock
    BY <2>2, <2>5 DEF AddBusy, AddUnparsable, Tick, SetClock
  <2>6. ASSUME NEW req \in AddRequest, AddIncomplete(req) \/ AddAccepted(req)
        PROVE  actionList' = actionList
    BY <2>6 DEF ActiveHasID, AddIncomplete, AddAccepted
  <2> QED BY <2>2, <2>3, <2>4, <2>5, <2>6 DEF Next, Request
<1> QED BY <1>1, SequenceTypeOK, SequenceActiveHasID, PTL DEF Spec, ConsumedInOrder

(***************************************************************************)
(* What addUniformSequence lays out.                                       *)
(***************************************************************************)

\* An action starts at or after the end of the one before it, and a second
\* after it unless the day is over.
LEMMA NextStartAfterEnd ==
  ASSUME NEW e \in TimeOfDay, NEW off \in Nat, DaySecs + off < UIntMod
  PROVE  /\ NextStart(e, off) \in TimeOfDay
         /\ e <= NextStart(e, off)
         /\ e < NextStart(e, off) \/ NextStart(e, off) = DaySecs
<1>1. SetFromSeconds(e) = e /\ e \in Nat
  BY TimeAssumption DEF SetFromSeconds, Cap, TimeOfDay
<1>2. CASE off = 0
  <2>1. NextStart(e, off) = AddSeconds(e, 1)
    BY <1>1, <1>2 DEF NextStart
  <2>2. DaySecs + 1 < UIntMod
    BY TimeAssumption
  <2> QED BY <1>1, <2>1, <2>2, AddSecondsGrows, AddSecondsType
<1>3. CASE off # 0
  <2>1. NextStart(e, off) = AddSeconds(e, off)
    BY <1>1, <1>3 DEF NextStart, AddDuration
  <2> QED BY <1>1, <1>3, <2>1, AddSecondsGrows, AddSecondsType
<1> QED BY <1>2, <1>3

LEMMA UniformOrdered ==
  ASSUME NEW t \in ClockTime, NEW n \in Nat,
         NEW on \in Nat, DaySecs + on < UIntMod,
         NEW off \in Nat, DaySecs + off < UIntMod,
         NEW starts \in [1 .. n -> TimeOfDay],
         UniformStarts(starts, t, on, off)
  PROVE  /\ \A i \in 1 .. n : starts[i] <= AddDuration(starts[i], on)
         /\ \A i \in 2 .. n : \/ AddDuration(starts[i - 1], on) < starts[i]
                             \/ starts[i] = DaySecs
         /\ \A i, j \in 1 .. n : i < j => AddDuration(starts[i], on) <= starts[j]
<1> DEFINE end(i) == AddDuration(starts[i], on)
<1>1. ASSUME NEW i \in 1 .. n
      PROVE  starts[i] \in TimeOfDay /\ end(i) \in TimeOfDay /\ starts[i] <= end(i)
  <2>1. starts[i] \in TimeOfDay /\ starts[i] \in Nat
    BY DEF TimeOfDay
  <2> QED BY <2>1, AddSecondsGrows, AddSecondsType DEF AddDuration
<1>2. ASSUME NEW i \in 2 .. n
      PROVE  /\ end(i - 1) <= starts[i]
             /\ end(i - 1) < starts[i] \/ starts[i] = DaySecs
  <2>1. i \in 1 .. n /\ i - 1 \in 1 .. n /\ i # 1
    OBVIOUS
  <2>2. starts[i] = NextStart(end(i - 1), off)
    BY <2>1 DEF UniformStarts
  <2>3. end(i - 1) \in TimeOfDay
    BY <1>1, <2>1
  <2> HIDE DEF end
  <2> QED BY <2>2, <2>3, NextStartAfterEnd
<1>3. ASSUME NEW i \in 1 .. n, NEW j \in 1 .. n, i < j
      PROVE  end(i) <= starts[j]
  <2> DEFINE Bad == {k \in (i + 1) .. n : ~ (end(i) <= starts[k])}
  <2>1. SUFFICES ASSUME Bad # {} PROVE FALSE
    BY <1>3
  <2>2. PICK k \in Bad : \A m \in Bad : k <= m
    <3>1. Bad \subseteq Nat
      OBVIOUS
    <3> HIDE DEF Bad
    <3> QED BY <2>1, <3>1, LeastNumber
  <2>3. k \in 2 .. n /\ k - 1 \in i .. n /\ k - 1 \notin Bad
    BY <2>2
  <2>4. end(k - 1) <= starts[k]
    BY <1>2, <2>3
  <2>5. end(i) <= end(k - 1)
    <3>1. CASE k - 1 = i
      BY <1>1, <3>1 DEF TimeOfDay
    <3>2. CASE k - 1 # i
      <4>1. k - 1 \in (i + 1) .. n
        BY <2>3, <3>2
      <4>2. end(i) <= starts[k - 1]
        BY <2>3, <4>1
      <4>3. k - 1 \in 1 .. n
        BY <2>3
      <4> HIDE DEF end
      <4> QED BY <1>1, <4>2, <4>3 DEF TimeOfDay
    <3> QED BY <3>1, <3>2
  <2>6. k \in 1 .. n /\ k - 1 \in 1 .. n
    BY <2>3
  <2>7. end(i) <= starts[k]
    <3> HIDE DEF end
    <3> QED BY <1>1, <2>4, <2>5, <2>6 DEF TimeOfDay
  <2> QED BY <2>2, <2>7
<1> QED BY <1>1, <1>2, <1>3

\* The recursion of addUniformSequence has one outcome for any number of
\* switches and any durations: UniformStarts neither blocks a request that is
\* complete nor leaves a choice.
THEOREM UniformStartsDefined ==
  ASSUME NEW t \in ClockTime, NEW on \in Nat, NEW off \in Nat, NEW n \in Nat
  PROVE  \E starts \in [1 .. n -> TimeOfDay] :
           /\ UniformStarts(starts, t, on, off)
           /\ \A others \in [1 .. n -> TimeOfDay] :
                UniformStarts(others, t, on, off) => others = starts
<1> DEFINE next(x) == NextStart(AddDuration(x, on), off)
           Bad == {k \in Nat : ~ \E starts \in [1 .. k -> TimeOfDay] :
                                   UniformStarts(starts, t, on, off)}
<1>1. t \in TimeOfDay
  BY TimeAssumption DEF ClockTime, TimeOfDay
<1>2. ASSUME NEW x \in TimeOfDay PROVE next(x) \in TimeOfDay
  <2>1. x \in Nat
    BY DEF TimeOfDay
  <2>2. AddDuration(x, on) \in TimeOfDay
    BY <2>1, AddSecondsType DEF AddDuration
  <2>3. SetFromSeconds(AddDuration(x, on)) \in Nat
    BY <2>2, TimeAssumption DEF SetFromSeconds, Cap, TimeOfDay
  <2> QED BY <2>3, AddSecondsType DEF NextStart, AddDuration
<1>3. ASSUME NEW k \in Nat \ {0}, NEW starts \in [1 .. k - 1 -> TimeOfDay],
             UniformStarts(starts, t, on, off)
      PROVE  k \notin Bad
  <2> DEFINE more == [i \in 1 .. k |-> IF i < k THEN starts[i]
                                       ELSE IF k = 1 THEN t ELSE next(starts[k - 1])]
  <2>1. ASSUME NEW i \in 1 .. k
        PROVE  /\ more[i] \in TimeOfDay
               /\ more[i] = IF i = 1 THEN t ELSE next(more[i - 1])
    <3>1. CASE i < k
      <4>1. i \in 1 .. k - 1 /\ more[i] = starts[i]
        BY <3>1
      <4>2. i # 1 => i - 1 \in 1 .. k - 1 /\ more[i - 1] = starts[i - 1]
        BY <3>1
      <4>3. starts[i] = IF i = 1 THEN t ELSE next(starts[i - 1])
        BY <1>3, <4>1 DEF UniformStarts
      <4> HIDE DEF more, next
      <4> QED BY <4>1, <4>2, <4>3
    <3>2. CASE i = k /\ k = 1
      <4>1. more[i] = t
        BY <3>2
      <4> HIDE DEF more
      <4> QED BY <1>1, <3>2, <4>1
    <3>3. CASE i = k /\ k # 1
      <4>1. /\ k - 1 \in 1 .. k - 1 /\ more[i] = next(starts[k - 1])
            /\ more[i - 1] = starts[k - 1]
        BY <3>3
      <4> HIDE DEF more
      <4> QED BY <1>2, <3>3, <4>1
    <3> QED BY <3>1, <3>2, <3>3
  <2>2. more \in [1 .. k -> TimeOfDay]
    <3>1. more = [i \in 1 .. k |-> more[i]]
      OBVIOUS
    <3> HIDE DEF more
    <3> QED BY <2>1, <3>1
  <2>3. UniformStarts(more, t, on, off)
    <3>1. DOMAIN more = 1 .. k
      OBVIOUS
    <3> HIDE DEF more
    <3> QED BY <2>1, <3>1 DEF UniformStarts
  <2> HIDE DEF more
  <2> QED BY <2>2, <2>3
<1>4. Bad = {}
  <2> SUFFICES ASSUME Bad # {} PROVE FALSE
    OBVIOUS
  <2>1. PICK k \in Bad : \A m \in Bad : k <= m
    <3>1. Bad \subseteq Nat
      OBVIOUS
    <3> HIDE DEF Bad
    <3> QED BY <3>1, LeastNumber
  <2>2. CASE k = 0
    <3>1. [i \in 1 .. 0 |-> t] \in [1 .. 0 -> TimeOfDay]
      OBVIOUS
    <3>2. UniformStarts([i \in 1 .. 0 |-> t], t, on, off)
      BY DEF UniformStarts
    <3> QED BY <2>1, <2>2, <3>1, <3>2
  <2>3. CASE k # 0
    <3>1. k \in Nat \ {0} /\ k - 1 \in Nat /\ k - 1 \notin Bad
      BY <2>1, <2>3
    <3>2. PICK starts \in [1 .. k - 1 -> TimeOfDay] : UniformStarts(starts, t, on, off)
      BY <3>1
    <3> HIDE DEF Bad
    <3> QED BY <1>3, <2>1, <3>1, <3>2
  <2> QED BY <2>2, <2>3
<1>5. PICK starts \in [1 .. n -> TimeOfDay] : UniformStarts(starts, t, on, off)
  BY <1>4
<1>6. ASSUME NEW others \in [1 .. n -> TimeOfDay], UniformStarts(others, t, on, off)
      PROVE  others = starts
  <2> DEFINE Differ == {i \in 1 .. n : others[i] # starts[i]}
  <2>1. Differ = {}
    <3> SUFFICES ASSUME Differ # {} PROVE FALSE
      OBVIOUS
    <3>1. PICK i \in Differ : \A m \in Differ : i <= m
      <4>1. Differ \subseteq Nat
        OBVIOUS
      <4> HIDE DEF Differ
      <4> QED BY <4>1, LeastNumber
    <3>2. /\ others[i] = IF i = 1 THEN t ELSE next(others[i - 1])
          /\ starts[i] = IF i = 1 THEN t ELSE next(starts[i - 1])
      BY <1>5, <1>6 DEF UniformStarts
    <3>3. i # 1 => i - 1 \in 1 .. n /\ i - 1 \notin Differ
      BY <3>1
    <3> HIDE DEF next
    <3> QED BY <3>1, <3>2, <3>3
  <2> QED BY <2>1
<1> QED BY <1>5, <1>6

(***************************************************************************)
(* The inductive invariant behind OneAtATime, GapKept and PollReportsDue:  *)
(* queued actions end after they start and do not overlap, pairwise, not   *)
(* only neighbour by neighbour.                                            *)
(***************************************************************************)
Ordered ==
  /\ \A i \in DOMAIN actionList : actionList[i].start <= actionList[i].end
  /\ \A i, j \in DOMAIN actionList :
       i < j => actionList[i].end <= actionList[j].start

OrderInv == TypeOK /\ Ordered /\ GapKept

\* Times of queued actions are numbers.
LEMMA ActionTimes ==
  ASSUME TypeOK, NEW i \in DOMAIN actionList
  PROVE  /\ actionList[i] \in Action
         /\ actionList[i].start \in TimeOfDay
         /\ actionList[i].end \in TimeOfDay
<1>1. actionList[i] \in Action
  BY DEF TypeOK
<1> QED BY <1>1 DEF Action

\* Dropping actions from the front keeps the others in order.
LEMMA SuffixOrdered ==
  ASSUME TypeOK, Ordered, GapKept, NEW n \in 0 .. Len(actionList),
         actionList' = SubSeq(actionList, n + 1, Len(actionList))
  PROVE  Ordered' /\ GapKept'
<1>1. Len(actionList) \in Nat /\ DOMAIN actionList = 1 .. Len(actionList)
  BY DEF TypeOK
<1>2. /\ DOMAIN actionList' = 1 .. (Len(actionList) - n)
      /\ \A i \in DOMAIN actionList' : actionList'[i] = actionList[n + i]
  BY <1>1, SubSeqProperties DEF TypeOK
<1>3. ASSUME NEW i \in DOMAIN actionList'
      PROVE  /\ n + i \in DOMAIN actionList
             /\ i > 1 => i - 1 \in DOMAIN actionList' /\ n + (i - 1) = (n + i) - 1
  BY <1>1, <1>2
<1>4. ASSUME NEW i \in DOMAIN actionList', NEW j \in DOMAIN actionList', i < j
      PROVE  n + i < n + j
  BY <1>1, <1>2, <1>4
<1>5. Ordered'
  BY <1>2, <1>3, <1>4 DEF Ordered
<1>6. ASSUME NEW i \in DOMAIN actionList', i > 1
      PROVE  \/ actionList'[i - 1].end < actionList'[i].start
             \/ actionList'[i].start = DaySecs
  <2>1. n + i \in DOMAIN actionList /\ n + i > 1
    BY <1>1, <1>2, <1>3, <1>6
  <2>2. \/ actionList[(n + i) - 1].end < actionList[n + i].start
        \/ actionList[n + i].start = DaySecs
    BY <2>1 DEF GapKept
  <2>3. actionList'[i] = actionList[n + i] /\ actionList'[i - 1] = actionList[(n + i) - 1]
    BY <1>2, <1>3, <1>6
  <2> QED BY <2>2, <2>3
<1>7. GapKept'
  BY <1>6 DEF GapKept
<1> QED BY <1>5, <1>7

\* An accepted sequence is laid out in order.
LEMMA AcceptedOrdered ==
  ASSUME TypeOK, WellFormedTexts, NEW req \in AddRequest, AddAccepted(req)
  PROVE  Ordered' /\ GapKept'
<1> DEFINE n == Len(req.swids)
<1>1. n \in Nat /\ now \in ClockTime
  BY SequenceAssumption DEF AddRequest, TypeOK
<1>2. PICK on \in ParseTime(req.on), off \in ParseTime(req.off),
            starts \in [1 .. n -> TimeOfDay] :
        /\ UniformStarts(starts, now, on, off)
        /\ actionList' = UniformActions(starts, on, req.swids)
  BY DEF AddAccepted
<1>3. on = req.on /\ off = req.off
  BY <1>2 DEF WellFormedTexts, AddRequest, ParseTime
<1>4. /\ on \in Nat /\ DaySecs + on < UIntMod
      /\ off \in Nat /\ DaySecs + off < UIntMod
  BY <1>3, SequenceAssumption, TimeAssumption
     DEF WellFormedTexts, AddRequest, AddAccepted, Complete, UInt
<1> HIDE DEF n
<1>5. /\ \A i \in 1 .. n : starts[i] <= AddDuration(starts[i], on)
      /\ \A i \in 2 .. n : \/ AddDuration(starts[i - 1], on) < starts[i]
                          \/ starts[i] = DaySecs
      /\ \A i, j \in 1 .. n : i < j => AddDuration(starts[i], on) <= starts[j]
  BY <1>1, <1>2, <1>4, UniformOrdered
<1>6. /\ DOMAIN actionList' = 1 .. n
      /\ \A i \in 1 .. n : /\ actionList'[i].start = starts[i]
                          /\ actionList'[i].end = AddDuration(starts[i], on)
  BY <1>2 DEF UniformActions, n
<1>7. Ordered'
  BY <1>5, <1>6 DEF Ordered
<1>8. ASSUME NEW i \in DOMAIN actionList', i > 1
      PROVE  \/ actionList'[i - 1].end < actionList'[i].start
             \/ actionList'[i].start = DaySecs
  <2>1. i \in 2 .. n /\ i \in 1 .. n /\ i - 1 \in 1 .. n
    BY <1>1, <1>6, <1>8
  <2> QED BY <1>5, <1>6, <2>1
<1>9. GapKept'
  BY <1>8 DEF GapKept
<1> QED BY <1>7, <1>9

LEMMA OrderStep ==
  ASSUME WellFormedTexts
  PROVE  TypeOK /\ Ordered /\ GapKept /\ [Next]_vars => Ordered' /\ GapKept'
<1> SUFFICES ASSUME TypeOK, Ordered, GapKept, [Next]_vars PROVE Ordered' /\ GapKept'
  OBVIOUS
<1>1. CASE actionList' = actionList
  BY <1>1 DEF Ordered, GapKept
<1>2. CASE AddBusy \/ AddUnparsable \/ Tick \/ SetClock \/ UNCHANGED vars
  BY <1>1, <1>2 DEF AddBusy, AddUnparsable, Tick, SetClock, vars
<1>3. ASSUME NEW req \in AddRequest, AddIncomplete(req) PROVE Ordered' /\ GapKept'
  BY <1>1, <1>3 DEF AddIncomplete
<1>4. ASSUME NEW req \in AddRequest, AddAccepted(req) PROVE Ordered' /\ GapKept'
  BY <1>4, AcceptedOrdered
<1>5. CASE Cancel
  BY <1>5 DEF Cancel, Ordered, GapKept
<1>6. CASE Poll
  <2>1. CASE actionList = <<>>
    BY <1>1, <1>6, <2>1 DEF Poll
  <2>2. CASE actionList # <<>>
    <3>1. PICK n \in 0 .. Len(actionList) :
            actionList' = SubSeq(actionList, n + 1, Len(actionList))
      BY <1>6, <2>2 DEF Poll, GetSwitchOnList
    <3> QED BY <3>1, SuffixOrdered
  <2> QED BY <2>1, <2>2
<1> QED BY <1>2, <1>3, <1>4, <1>5, <1>6 DEF Next, Request

THEOREM SequenceOrderInv == ASSUME WellFormedTexts PROVE Spec => []OrderInv
<1>1. Init => Ordered /\ GapKept
  BY DEF Init, Ordered, GapKept
<1> QED BY <1>1, OrderStep, SequenceTypeOK, PTL DEF Spec, OrderInv

LEMMA OrderedOneAtATime == OrderInv => OneAtATime
<1> SUFFICES ASSUME OrderInv,
                    NEW i \in DOMAIN actionList, NEW j \in DOMAIN actionList,
                    NEW t \in ClockTime,
                    Active(actionList[i], t), Active(actionList[j], t), i # j
             PROVE  FALSE
  BY DEF OneAtATime
<1>1. /\ actionList[i].start <= t /\ t < actionList[i].end
      /\ actionList[j].start <= t /\ t < actionList[j].end
  BY DEF Active, StartIsBefore, EndIsAfter
<1>2. /\ actionList[i].start \in Nat /\ actionList[i].end \in Nat
      /\ actionList[j].start \in Nat /\ actionList[j].end \in Nat /\ t \in Nat
  BY ActionTimes DEF OrderInv, TimeOfDay, ClockTime
<1>3. i < j \/ j < i
  BY DEF OrderInv, TypeOK
<1>4. CASE i < j
  BY <1>1, <1>2, <1>4 DEF OrderInv, Ordered
<1>5. CASE j < i
  BY <1>1, <1>2, <1>5 DEF OrderInv, Ordered
<1> QED BY <1>3, <1>4, <1>5

\* With well-formed durations no two queued actions are ever due together.
THEOREM SequenceOneAtATime == ASSUME WellFormedTexts PROVE Spec => []OneAtATime
BY OrderedOneAtATime, SequenceOrderInv, PTL

\* With well-formed durations "at least one second" separates two switches.
THEOREM SequenceGapKept == ASSUME WellFormedTexts PROVE Spec => []GapKept
<1>1. OrderInv => GapKept
  BY DEF OrderInv
<1> QED BY <1>1, SequenceOrderInv, PTL

\* The walk from the front that stops at the first action not yet over finds
\* every action that is due.
LEMMA WalkFindsDue ==
  ASSUME OrderInv, NEW n \in 0 .. Len(actionList),
         \A i \in 1 .. n : Expired(actionList[i], now),
         n < Len(actionList) => ~Expired(actionList[n + 1], now)
  PROVE  {j \in {n + 1} \cap DOMAIN actionList : Active(actionList[j], now)}
           = {j \in DOMAIN actionList : Active(actionList[j], now)}
<1> SUFFICES ASSUME NEW j \in DOMAIN actionList, Active(actionList[j], now)
             PROVE  j = n + 1
  OBVIOUS
<1>1. Len(actionList) \in Nat /\ DOMAIN actionList = 1 .. Len(actionList) /\ now \in Nat
  BY DEF OrderInv, TypeOK, ClockTime
<1>2. actionList[j].start <= now /\ now < actionList[j].end
  BY DEF Active, StartIsBefore, EndIsAfter
<1>3. j \notin 1 .. n
  <2> SUFFICES ASSUME j \in 1 .. n PROVE FALSE
    OBVIOUS
  <2>1. ~ (now < actionList[j].end)
    BY DEF Expired, EndIsAfter
  <2> QED BY <1>2, <2>1
<1>4. CASE j > n + 1
  <2>1. n + 1 \in DOMAIN actionList /\ n < Len(actionList) /\ n + 1 < j
    BY <1>1, <1>4
  <2>2. /\ actionList[n + 1].start \in Nat /\ actionList[n + 1].end \in Nat
        /\ actionList[j].start \in Nat
    BY <2>1, ActionTimes DEF OrderInv, TimeOfDay
  <2>3. /\ actionList[n + 1].start <= actionList[n + 1].end
        /\ actionList[n + 1].end <= actionList[j].start
    BY <2>1 DEF OrderInv, Ordered
  <2>4. actionList[n + 1].start <= now /\ ~ (now < actionList[n + 1].end)
    BY <1>1, <1>2, <2>2, <2>3
  <2>5. Expired(actionList[n + 1], now)
    BY <2>4 DEF Expired, StartIsBefore, EndIsAfter
  <2> QED BY <2>1, <2>5
<1> QED BY <1>1, <1>3, <1>4

LEMMA PollFindsDue ==
  ASSUME OrderInv, Poll
  PROVE  swOn' = {actionList[i].swid :
                    i \in {j \in DOMAIN actionList : Active(actionList[j], now)}}
<1>1. CASE actionList = <<>>
  BY <1>1 DEF Poll
<1>2. CASE actionList # <<>>
  <2>1. PICK n \in 0 .. Len(actionList) :
          /\ \A i \in 1 .. n : Expired(actionList[i], now)
          /\ n < Len(actionList) => ~Expired(actionList[n + 1], now)
          /\ swOn' = {actionList[i].swid :
                        i \in {j \in {n + 1} \cap DOMAIN actionList :
                                 Active(actionList[j], now)}}
    BY <1>2 DEF Poll, GetSwitchOnList
  <2>2. {j \in {n + 1} \cap DOMAIN actionList : Active(actionList[j], now)}
          = {j \in DOMAIN actionList : Active(actionList[j], now)}
    BY <2>1, WalkFindsDue
  <2> QED BY <2>1, <2>2
<1> QED BY <1>1, <1>2

\* With well-formed durations a poll turns on exactly the actions due.
THEOREM SequencePollReportsDue == ASSUME WellFormedTexts PROVE Spec => PollReportsDue
<1>1. OrderInv /\ [Next]_vars =>
        [Poll => swOn' = {actionList[i].swid :
                            i \in {j \in DOMAIN actionList : Active(actionList[j], now)}}]_vars
  BY PollFindsDue
<1> QED BY <1>1, SequenceOrderInv, PTL DEF Spec, PollReportsDue

(***************************************************************************)
(* NoSwitchSkipped, while nobody sets the clock.  The strengthening says   *)
(* what the loop can know of the front action: it has been polled on, or   *)
(* it is not due yet, or it became due since the last poll; and at that    *)
(* poll it was not over.                                                   *)
(***************************************************************************)
Long(act) == act.end - act.start > MaxLag

FrontSeen ==
  actionList # <<>> /\ Long(actionList[1]) =>
    /\ \/ swOn = {actionList[1].swid}
       \/ now < actionList[1].start
       \/ now - actionList[1].start <= lag
    /\ now - lag < actionList[1].end

\* Midnight shortens the last actions, never the first.
LongFirst ==
  \A i, j \in DOMAIN actionList :
    i < j /\ Long(actionList[j]) => Long(actionList[i])

UnsetSeen == clockSets = 0 => FrontSeen

LEMMA AcceptedLongFirst ==
  ASSUME TypeOK, WellFormedTexts, NEW req \in AddRequest, AddAccepted(req)
  PROVE  LongFirst' /\ FrontSeen'
<1> DEFINE n == Len(req.swids)
<1>1. n \in Nat /\ now \in ClockTime /\ now \in Nat /\ lag \in Nat /\ MaxLag \in Nat
  BY SequenceAssumption DEF AddRequest, TypeOK, ClockTime
<1>2. PICK on \in ParseTime(req.on), off \in ParseTime(req.off),
            starts \in [1 .. n -> TimeOfDay] :
        /\ UniformStarts(starts, now, on, off)
        /\ actionList' = UniformActions(starts, on, req.swids)
  BY DEF AddAccepted
<1>3. on = req.on /\ off = req.off
  BY <1>2 DEF WellFormedTexts, AddRequest, ParseTime
<1>4. /\ on \in Nat /\ DaySecs + on < UIntMod
      /\ off \in Nat /\ DaySecs + off < UIntMod
  BY <1>3, SequenceAssumption, TimeAssumption
     DEF WellFormedTexts, AddRequest, AddAccepted, Complete, UInt
<1> HIDE DEF n
<1>5. ASSUME NEW i \in 1 .. n
      PROVE  /\ starts[i] \in Nat /\ starts[i] <= DaySecs
             /\ AddDuration(starts[i], on) = Cap(starts[i] + on)
  <2>1. starts[i] \in Nat /\ starts[i] <= DaySecs
    BY TimeAssumption DEF TimeOfDay
  <2>2. starts[i] + on \in 0 .. UIntMod - 1
    BY <1>4, <2>1, TimeAssumption
  <2>3. (starts[i] + on) % UIntMod = starts[i] + on
    BY <2>2, TimeAssumption
  <2> QED BY <2>1, <2>3 DEF AddDuration, AddSeconds
<1>6. ASSUME NEW i \in 1 .. n, NEW j \in 1 .. n, i < j
      PROVE  Cap(starts[i] + on) <= starts[j]
  <2>1. AddDuration(starts[i], on) <= starts[j]
    BY <1>1, <1>2, <1>4, <1>6, UniformOrdered
  <2> QED BY <1>5, <2>1
<1>7. /\ DOMAIN actionList' = 1 .. n
      /\ \A i \in 1 .. n : /\ actionList'[i].start = starts[i]
                          /\ actionList'[i].end = Cap(starts[i] + on)
  BY <1>2, <1>5 DEF UniformActions, n
<1>8. ASSUME NEW i \in 1 .. n, NEW j \in 1 .. n, i < j,
             Cap(starts[j] + on) - starts[j] > MaxLag
      PROVE  Cap(starts[i] + on) - starts[i] > MaxLag
  <2>1. Cap(starts[i] + on) <= starts[j]
    BY <1>6, <1>8
  <2>2. /\ starts[i] \in Nat /\ starts[i] <= DaySecs
        /\ starts[j] \in Nat /\ starts[j] <= DaySecs
        /\ DaySecs \in Nat /\ MaxLag \in Nat /\ on \in Nat
    BY <1>1, <1>4, <1>5, TimeAssumption
  <2> QED BY <1>8, <2>1, <2>2 DEF Cap
<1>9. LongFirst'
  BY <1>7, <1>8 DEF LongFirst, Long
<1>10. ASSUME actionList' # <<>>, Long(actionList'[1]) PROVE FrontSeen'
  <2>1. 1 \in 1 .. n
    BY <1>1, <1>2, <1>10 DEF UniformActions, n
  <2>2. actionList'[1].start = now /\ actionList'[1].end = Cap(now + on)
    BY <1>2, <1>7, <2>1 DEF UniformStarts
  <2>3. now' = now /\ lag' = lag /\ swOn' = swOn
    BY DEF AddAccepted
  <2>4. Cap(now + on) - now > MaxLag
    BY <1>10, <2>2 DEF Long
  <2>5. Cap(now + on) \in Nat
    BY <1>1, <1>4, TimeAssumption DEF Cap
  <2> QED BY <1>1, <2>2, <2>3, <2>4, <2>5 DEF FrontSeen
<1> QED BY <1>9, <1>10 DEF FrontSeen

LEMMA PollFrontSeen ==
  ASSUME OrderInv, LongFirst, Poll
  PROVE  LongFirst' /\ FrontSeen'
<1>1. CASE actionList = <<>>
  BY <1>1 DEF Poll, LongFirst, FrontSeen
<1>2. CASE actionList # <<>>
  <2>1. PICK n \in 0 .. Len(actionList) :
          /\ n < Len(actionList) => ~Expired(actionList[n + 1], now)
          /\ actionList' = SubSeq(actionList, n + 1, Len(actionList))
          /\ swOn' = {actionList[i].swid :
                        i \in {j \in {n + 1} \cap DOMAIN actionList :
                                 Active(actionList[j], now)}}
    BY <1>2 DEF Poll, GetSwitchOnList
  <2>2. /\ Len(actionList) \in Nat /\ DOMAIN actionList = 1 .. Len(actionList)
        /\ now \in Nat /\ now' = now /\ lag' = 0
    BY DEF OrderInv, TypeOK, Poll, ClockTime
  <2>3. /\ DOMAIN actionList' = 1 .. (Len(actionList) - n)
        /\ \A i \in DOMAIN actionList' : actionList'[i] = actionList[n + i]
    BY <2>1, <2>2, SubSeqProperties DEF OrderInv, TypeOK
  <2>4. LongFirst'
    BY <2>2, <2>3 DEF LongFirst
  <2>5. ASSUME actionList' # <<>> PROVE FrontSeen'
    <3>1. n < Len(actionList) /\ n + 1 \in DOMAIN actionList
      BY <2>1, <2>2, <2>3, <2>5
    <3>2. actionList'[1] = actionList[n + 1]
      BY <2>2, <2>3, <3>1
    <3>3. /\ actionList[n + 1].start \in Nat /\ actionList[n + 1].end \in Nat
          /\ actionList[n + 1].start <= actionList[n + 1].end
      BY <3>1, ActionTimes DEF OrderInv, Ordered, TimeOfDay
    <3>4. CASE Active(actionList[n + 1], now)
      <4>1. swOn' = {actionList[n + 1].swid}
        BY <2>1, <3>1, <3>4
      <4> QED BY <2>2, <3>2, <3>3, <3>4, <4>1
              DEF FrontSeen, Active, EndIsAfter
    <3>5. CASE ~Active(actionList[n + 1], now)
      <4>1. now < actionList[n + 1].start
        BY <2>1, <2>2, <3>1, <3>3, <3>5
           DEF Active, Expired, StartIsBefore, EndIsAfter
      <4> QED BY <2>2, <3>2, <3>3, <4>1 DEF FrontSeen
    <3> QED BY <3>4, <3>5
  <2> QED BY <2>4, <2>5 DEF FrontSeen
<1> QED BY <1>1, <1>2

LEMMA TickFrontSeen ==
  ASSUME TypeOK, FrontSeen, Tick
  PROVE  FrontSeen'
<1> SUFFICES ASSUME actionList # <<>>, Long(actionList[1]) PROVE FrontSeen'
  BY DEF Tick, FrontSeen, Long
<1>1. /\ lag \in Nat /\ now \in Nat /\ now < DaySecs /\ DaySecs \in Nat
      /\ MaxLag \in Nat /\ lag' = lag + 1
  BY SequenceAssumption, TimeAssumption DEF TypeOK, ClockTime, Tick
<1>2. 1 \in DOMAIN actionList
  BY DEF TypeOK
<1>3. /\ actionList[1].start \in Nat /\ actionList[1].end \in Nat
      /\ actionList[1].end - actionList[1].start > MaxLag
  BY <1>2, ActionTimes DEF TimeOfDay, Long
<1>4. now' = now + 1 \/ now' = 0
  <2>1. CASE now + 1 < DaySecs
    BY <1>1, <2>1 DEF Tick
  <2>2. CASE now + 1 = DaySecs
    BY <1>1, <2>2 DEF Tick
  <2> QED BY <1>1, <2>1, <2>2
<1>5. actionList' = actionList /\ swOn' = swOn
  BY DEF Tick
<1>6. /\ \/ swOn = {actionList[1].swid}
         \/ now < actionList[1].start
         \/ now - actionList[1].start <= lag
      /\ now - lag < actionList[1].end
  BY DEF FrontSeen
<1>7. CASE now' = now + 1
  <2>1. now' - actionList[1].start <= lag' <=> now - actionList[1].start <= lag
    BY <1>1, <1>3, <1>7
  <2>2. now < actionList[1].start => now' < actionList[1].start \/ now' - actionList[1].start <= lag'
    BY <1>1, <1>3, <1>7
  <2>3. now' - lag' = now - lag
    BY <1>1, <1>7
  <2> QED BY <1>5, <1>6, <2>1, <2>2, <2>3 DEF FrontSeen
<1>8. CASE now' = 0
  <2>1. now' - actionList[1].start <= lag' /\ now' - lag' < actionList[1].end
    BY <1>1, <1>3, <1>8
  <2> QED BY <1>5, <2>1 DEF FrontSeen
<1> QED BY <1>4, <1>7, <1>8

LEMMA SeenStep ==
  ASSUME WellFormedTexts
  PROVE  OrderInv /\ LongFirst /\ UnsetSeen /\ [Next]_vars => LongFirst' /\ UnsetSeen'
<1> SUFFICES ASSUME OrderInv, LongFirst, UnsetSeen, [Next]_vars
             PROVE  LongFirst' /\ UnsetSeen'
  OBVIOUS
<1>1. TypeOK
  BY DEF OrderInv
<1>2. CASE AddBusy \/ AddUnparsable \/ UNCHANGED vars
  BY <1>2 DEF AddBusy, AddUnparsable, vars, LongFirst, FrontSeen, UnsetSeen
<1>3. ASSUME NEW req \in AddRequest, AddIncomplete(req)
      PROVE  LongFirst' /\ UnsetSeen'
  BY <1>3 DEF AddIncomplete, LongFirst, FrontSeen, UnsetSeen
<1>4. ASSUME NEW req \in AddRequest, AddAccepted(req)
      PROVE  LongFirst' /\ UnsetSeen'
  BY <1>1, <1>4, AcceptedLongFirst DEF UnsetSeen
<1>5. CASE Cancel
  BY <1>5 DEF Cancel, LongFirst, FrontSeen, UnsetSeen
<1>6. CASE Poll
  BY <1>6, PollFrontSeen DEF UnsetSeen
<1>7. CASE Tick
  <2>1. LongFirst'
    BY <1>7 DEF Tick, LongFirst
  <2>2. clockSets' = 0 => clockSets = 0
    BY <1>7 DEF Tick
  <2> QED BY <1>1, <1>7, <2>1, <2>2, TickFrontSeen DEF UnsetSeen
<1>8. CASE SetClock
  <2>1. LongFirst'
    BY <1>8 DEF SetClock, LongFirst
  <2>2. clockSets' # 0
    BY <1>1, <1>8, SequenceAssumption DEF SetClock, TypeOK
  <2> QED BY <2>1, <2>2 DEF UnsetSeen
<1> QED BY <1>2, <1>3, <1>4, <1>5, <1>6, <1>7, <1>8 DEF Next, Request

LEMMA NoneSkipped ==
  ASSUME OrderInv, LongFirst, FrontSeen, Poll,
         NEW i \in 1 .. Len(actionList) - Len(actionList'), Long(actionList[i])
  PROVE  i = 1 /\ swOn = {actionList[i].swid}
<1>1. actionList # <<>> /\ actionList[i].end - actionList[i].start > MaxLag
  <2>1. actionList = <<>> => actionList' = <<>>
    BY DEF Poll
  <2>2. actionList = <<>> => 1 .. Len(actionList) - Len(actionList') = {}
    BY <2>1
  <2> QED BY <2>2 DEF Long
<1>2. PICK n \in 0 .. Len(actionList) :
        /\ \A k \in 1 .. n : Expired(actionList[k], now)
        /\ actionList' = SubSeq(actionList, n + 1, Len(actionList))
  BY <1>1 DEF Poll, GetSwitchOnList
<1>3. /\ Len(actionList) \in Nat /\ DOMAIN actionList = 1 .. Len(actionList)
      /\ now \in Nat /\ lag \in 0 .. MaxLag /\ MaxLag \in Nat
  BY SequenceAssumption DEF OrderInv, TypeOK, ClockTime
<1>4. i \in 1 .. n /\ i \in DOMAIN actionList /\ 1 \in DOMAIN actionList
  BY <1>1, <1>2, <1>3, SubSeqProperties DEF OrderInv, TypeOK
<1>5. /\ actionList[i].start \in Nat /\ actionList[i].end \in Nat
      /\ actionList[1].start \in Nat /\ actionList[1].end \in Nat
  BY <1>4, ActionTimes DEF OrderInv, TimeOfDay
<1>6. actionList[i].start <= now /\ actionList[i].end <= now
  BY <1>2, <1>3, <1>4, <1>5 DEF Expired, StartIsBefore, EndIsAfter
<1>7. i = 1
  <2> SUFFICES ASSUME 1 < i PROVE FALSE
    BY <1>3, <1>4
  <2>1. Long(actionList[1]) /\ actionList[1].end <= actionList[i].start
    BY <1>1, <1>4 DEF OrderInv, Ordered, LongFirst, Long
  <2>2. now - lag < actionList[1].end
    BY <1>1, <2>1 DEF FrontSeen
  <2> QED BY <1>1, <1>3, <1>5, <1>6, <2>1, <2>2
<1>8. swOn = {actionList[1].swid}
  <2>1. \/ swOn = {actionList[1].swid}
        \/ now < actionList[1].start
        \/ now - actionList[1].start <= lag
    BY <1>1, <1>7 DEF FrontSeen, Long
  <2> QED BY <1>1, <1>3, <1>5, <1>6, <1>7, <2>1
<1> QED BY <1>7, <1>8

\* With well-formed durations and until somebody sets the clock, no action
\* longer than the loop's sleep is dropped unseen.
THEOREM SequenceNoSwitchSkipped == ASSUME WellFormedTexts PROVE Spec => NoSwitchSkipped
<1> DEFINE Skipped == \A i \in 1 .. Len(actionList) - Len(actionList') :
             actionList[i].end - actionList[i].start > MaxLag
               => i = 1 /\ swOn = {actionList[i].swid}
<1>1. Init => LongFirst /\ UnsetSeen
  BY DEF Init, LongFirst, FrontSeen, UnsetSeen
<1>2. OrderInv /\ LongFirst /\ UnsetSeen /\ [Next]_vars
        => [Poll /\ clockSets = 0 => Skipped]_vars
  BY NoneSkipped DEF UnsetSeen, Long
<1> QED BY <1>1, <1>2, SeenStep, SequenceOrderInv, PTL DEF Spec, NoSwitchSkipped

(***************************************************************************)
(* SequenceEndsOnTime, while nobody sets the clock.  The strengthening     *)
(* says that when the loop last looked, lag seconds ago, the last action   *)
(* was not over: everything queued is in front of it, so a poll that found *)
(* it over would have dropped the whole queue.                             *)
(***************************************************************************)
LastAction == actionList[Len(actionList)]

EndsLater == EndsBeforeMidnight /\ LastAction.start < LastAction.end

LastNotOver == clockSets = 0 /\ EndsLater => now < LastAction.end + lag

LEMMA AcceptedLastNotOver ==
  ASSUME TypeOK, WellFormedTexts, NEW req \in AddRequest, AddAccepted(req), EndsLater'
  PROVE  LastAction'.end \in Nat /\ now < LastAction'.end
<1> DEFINE n == Len(req.swids)
<1>1. n \in Nat /\ now \in ClockTime
  BY SequenceAssumption DEF AddRequest, TypeOK
<1>2. PICK on \in ParseTime(req.on), off \in ParseTime(req.off),
            starts \in [1 .. n -> TimeOfDay] :
        /\ UniformStarts(starts, now, on, off)
        /\ actionList' = UniformActions(starts, on, req.swids)
  BY DEF AddAccepted
<1>3. on = req.on /\ off = req.off
  BY <1>2 DEF WellFormedTexts, AddRequest, ParseTime
<1>4. /\ on \in Nat /\ DaySecs + on < UIntMod
      /\ off \in Nat /\ DaySecs + off < UIntMod
  BY <1>3, SequenceAssumption, TimeAssumption
     DEF WellFormedTexts, AddRequest, AddAccepted, Complete, UInt
<1>5. /\ DOMAIN actionList' = 1 .. n /\ Len(actionList') = n
      /\ \A i \in 1 .. n : /\ actionList'[i].start = starts[i]
                          /\ actionList'[i].end = AddDuration(starts[i], on)
  BY <1>1, <1>2 DEF UniformActions
<1> HIDE DEF n
<1>6. 1 \in 1 .. n /\ n \in 1 .. n
  BY <1>1, <1>2, <1>5 DEF EndsLater, EndsBeforeMidnight, n, UniformActions
<1>7. starts[1] = now
  BY <1>2, <1>6 DEF UniformStarts
<1>8. /\ \A i \in 1 .. n : starts[i] <= AddDuration(starts[i], on)
      /\ \A i, j \in 1 .. n : i < j => AddDuration(starts[i], on) <= starts[j]
  BY <1>1, <1>2, <1>4, UniformOrdered
<1>9. starts[n] < AddDuration(starts[n], on)
  BY <1>5, <1>6 DEF EndsLater, LastAction
<1>10. ASSUME NEW i \in 1 .. n
       PROVE  starts[i] \in Nat /\ AddDuration(starts[i], on) \in Nat
  <2>1. starts[i] \in Nat
    BY DEF TimeOfDay
  <2>2. AddDuration(starts[i], on) \in TimeOfDay
    BY <1>4, <2>1, AddSecondsType DEF AddDuration
  <2> QED BY <2>1, <2>2 DEF TimeOfDay
<1>11. now < AddDuration(starts[n], on)
  <2>1. CASE n = 1
    BY <1>7, <1>9, <2>1
  <2>2. CASE n # 1
    <3>1. 1 < n
      BY <1>1, <1>6, <2>2
    <3>2. starts[1] <= AddDuration(starts[1], on) /\ AddDuration(starts[1], on) <= starts[n]
      BY <1>6, <1>8, <3>1
    <3> QED BY <1>6, <1>7, <1>9, <1>10, <3>2
  <2> QED BY <2>1, <2>2
<1> QED BY <1>5, <1>6, <1>10, <1>11 DEF LastAction

LEMMA PollLastNotOver ==
  ASSUME OrderInv, Poll, EndsLater'
  PROVE  LastAction'.end \in Nat /\ now < LastAction'.end
<1>1. actionList # <<>>
  BY DEF Poll, EndsLater, EndsBeforeMidnight
<1>2. PICK n \in 0 .. Len(actionList) :
        /\ n < Len(actionList) => ~Expired(actionList[n + 1], now)
        /\ actionList' = SubSeq(actionList, n + 1, Len(actionList))
  BY <1>1 DEF Poll, GetSwitchOnList
<1>3. /\ Len(actionList) \in Nat /\ DOMAIN actionList = 1 .. Len(actionList)
      /\ now \in Nat
  BY DEF OrderInv, TypeOK, ClockTime
<1>4. /\ Len(actionList') = Len(actionList) - n
      /\ \A i \in 1 .. Len(actionList) - n : actionList'[i] = actionList[n + i]
  <2>1. /\ actionList' \in Seq(Action)
        /\ DOMAIN actionList' = 1 .. (Len(actionList) - n)
        /\ \A i \in DOMAIN actionList' : actionList'[i] = actionList[n + i]
    BY <1>2, <1>3, SubSeqProperties DEF OrderInv, TypeOK
  <2>2. Len(actionList) - n \in Nat
    BY <1>3
  <2>3. Len(actionList') \in Nat /\ DOMAIN actionList' = 1 .. Len(actionList')
    BY <2>1
  <2>4. Len(actionList') = Len(actionList) - n
    BY <2>1, <2>2, <2>3
  <2> QED BY <2>1, <2>4
<1>5. n < Len(actionList)
  <2>1. actionList' # <<>>
    BY DEF EndsLater, EndsBeforeMidnight
  <2>2. actionList' \in Seq(Action)
    BY <1>2, <1>3, SubSeqProperties DEF OrderInv, TypeOK
  <2> QED BY <1>3, <1>4, <2>1, <2>2
<1> DEFINE first == actionList[n + 1]
<1>6. LastAction' = LastAction
  BY <1>3, <1>4, <1>5 DEF LastAction
<1>7. n + 1 \in DOMAIN actionList /\ Len(actionList) \in DOMAIN actionList
  BY <1>3, <1>5
<1>8. /\ first.start \in Nat /\ first.end \in Nat
      /\ LastAction.start \in Nat /\ LastAction.end \in Nat
  BY <1>7, ActionTimes DEF OrderInv, TimeOfDay, LastAction
<1>9. LastAction.start < LastAction.end
  BY <1>6 DEF EndsLater
<1>10. now < first.start \/ now < first.end
  BY <1>2, <1>3, <1>5, <1>8 DEF Expired, StartIsBefore, EndIsAfter
<1>11. first.start <= first.end /\ first.end <= LastAction.end
  <2>1. first.start <= first.end
    BY <1>7 DEF OrderInv, Ordered
  <2>2. CASE n + 1 = Len(actionList)
    BY <1>8, <2>1, <2>2 DEF LastAction
  <2>3. CASE n + 1 # Len(actionList)
    <3>1. n + 1 < Len(actionList)
      <4>1. \A k, l \in Nat : k < l /\ k + 1 # l => k + 1 < l
        OBVIOUS
      <4>2. n \in Nat /\ Len(actionList) \in Nat
        BY <1>3
      <4> QED BY <1>5, <2>3, <4>1, <4>2
    <3>2. first.end <= LastAction.start
      BY <1>7, <3>1 DEF OrderInv, Ordered, LastAction
    <3> QED BY <1>8, <1>9, <2>1, <3>2
  <2> QED BY <2>2, <2>3
<1> HIDE DEF first
<1> QED BY <1>3, <1>6, <1>8, <1>10, <1>11

\* A second passes, and it neither turns the day nor goes beyond the bound.
LEMMA TickLastNotOver ==
  ASSUME TypeOK, LastNotOver, Tick, clockSets = 0, EndsLater
  PROVE  /\ now' = now + 1
         /\ now' < LastAction.end + lag'
         /\ now' < LastAction.end + MaxLag
<1>1. /\ lag \in Nat /\ MaxLag \in Nat /\ lag < MaxLag /\ lag' = lag + 1
      /\ now \in Nat /\ DaySecs \in Nat
  BY SequenceAssumption, TimeAssumption DEF TypeOK, ClockTime, Tick
<1>2. LastAction.end \in Nat
  <2>1. Len(actionList) \in DOMAIN actionList
    BY DEF TypeOK, EndsLater, EndsBeforeMidnight
  <2> QED BY <2>1, ActionTimes DEF LastAction, TimeOfDay
<1>3. now < LastAction.end + lag
  BY DEF LastNotOver
<1>4. LastAction.end + MaxLag <= DaySecs
  BY DEF EndsLater, EndsBeforeMidnight, LastAction
<1>5. now + 1 < DaySecs
  BY <1>1, <1>2, <1>3, <1>4
<1>6. now' = now + 1
  BY <1>1, <1>5 DEF Tick
<1> QED BY <1>1, <1>2, <1>3, <1>6

LEMMA LastStep ==
  ASSUME WellFormedTexts
  PROVE  OrderInv /\ LastNotOver /\ [Next]_vars => LastNotOver'
<1> SUFFICES ASSUME OrderInv, LastNotOver, [Next]_vars, (clockSets = 0)', EndsLater'
             PROVE  now' < LastAction'.end + lag'
  BY DEF LastNotOver
<1>1. TypeOK
  BY DEF OrderInv
<1>2. CASE AddBusy \/ AddUnparsable \/ UNCHANGED vars
  BY <1>2 DEF AddBusy, AddUnparsable, vars, LastNotOver, EndsLater,
              EndsBeforeMidnight, LastAction
<1>3. ASSUME NEW req \in AddRequest, AddIncomplete(req)
      PROVE  now' < LastAction'.end + lag'
  BY <1>3 DEF AddIncomplete, LastNotOver, EndsLater, EndsBeforeMidnight, LastAction
<1>4. ASSUME NEW req \in AddRequest, AddAccepted(req)
      PROVE  now' < LastAction'.end + lag'
  <2>1. LastAction'.end \in Nat /\ now < LastAction'.end
    BY <1>1, <1>4, AcceptedLastNotOver
  <2> QED BY <1>1, <1>4, <2>1 DEF AddAccepted, TypeOK, ClockTime
<1>5. CASE Cancel
  BY <1>5 DEF Cancel, EndsLater, EndsBeforeMidnight
<1>6. CASE Poll
  <2>1. LastAction'.end \in Nat /\ now < LastAction'.end
    BY <1>6, PollLastNotOver
  <2> QED BY <1>1, <1>6, <2>1 DEF Poll, TypeOK, ClockTime
<1>7. CASE Tick
  <2>1. actionList' = actionList /\ clockSets' = clockSets
    BY <1>7 DEF Tick
  <2>2. clockSets = 0 /\ EndsLater
    BY <2>1 DEF EndsLater, EndsBeforeMidnight, LastAction
  <2> QED BY <1>1, <1>7, <2>1, <2>2, TickLastNotOver DEF LastAction
<1>8. CASE SetClock
  BY <1>1, <1>8, SequenceAssumption DEF SetClock, TypeOK
<1> QED BY <1>2, <1>3, <1>4, <1>5, <1>6, <1>7, <1>8 DEF Next, Request

\* With well-formed durations and until somebody sets the clock, a sequence
\* that ends before midnight is off the queue MaxLag seconds after its end.
THEOREM SequenceOnTime == ASSUME WellFormedTexts PROVE Spec => SequenceEndsOnTime
<1> DEFINE OnTime == Tick /\ clockSets = 0 /\ EndsLater
                       => now' = now + 1 /\ now' < LastAction.end + MaxLag
<1>1. Init => LastNotOver
  BY DEF Init, LastNotOver, EndsLater, EndsBeforeMidnight
<1>2. OrderInv /\ LastNotOver /\ [Next]_vars => [OnTime]_vars
  BY TickLastNotOver DEF OrderInv
<1>3. [OnTime]_vars =>
        [LET last == actionList[Len(actionList)]
         IN  Tick /\ clockSets = 0 /\ EndsBeforeMidnight /\ last.start < last.end
               => now' = now + 1 /\ now' < last.end + MaxLag]_vars
  BY DEF EndsLater, LastAction
<1> QED BY <1>1, <1>2, <1>3, LastStep, SequenceOrderInv, PTL DEF Spec, SequenceEndsOnTime

(***************************************************************************)
(* All that is invariant, for the specifications the queue is a part of:   *)
(* there it may also be emptied, when its process dies.                    *)
(***************************************************************************)
SequenceInv == OrderInv /\ ActiveHasID /\ LongFirst /\ UnsetSeen /\ LastNotOver

LEMMA SequenceInvStep ==
  ASSUME WellFormedTexts
  PROVE  SequenceInv /\ [Next]_vars => SequenceInv'
BY TypeStep, ActiveStep, OrderStep, SeenStep, LastStep DEF SequenceInv, OrderInv

LEMMA SequenceInvEmptied ==
  ASSUME TypeOK', actionList' = <<>>
  PROVE  SequenceInv'
<1>1. DOMAIN actionList' = {}
  OBVIOUS
<1> QED BY <1>1 DEF SequenceInv, OrderInv, Ordered, GapKept, ActiveHasID, LongFirst,
                    UnsetSeen, FrontSeen, LastNotOver, EndsLater, EndsBeforeMidnight

LEMMA SequenceInvInit == Init => SequenceInv
<1>1. Init => TypeOK
  BY SequenceAssumption, TimeAssumption DEF Init, TypeOK, Reply, ClockTime
<1> QED BY <1>1 DEF Init, SequenceInv, OrderInv, Ordered, GapKept, ActiveHasID, LongFirst,
                    UnsetSeen, FrontSeen, LastNotOver, EndsLater, EndsBeforeMidnight

(***************************************************************************)
(* What seq_stuck shows of one request, for every request: nothing that    *)
(* the loop or the other clients do brings the queue back, but a cancel.   *)
(***************************************************************************)
Stuck == requestID # NoID /\ actionList = <<>>

\* A queue that took the ID of a request it then failed is stuck from then on,
\* and answers every later addUniformSequence with "busy", until it is
\* cancelled.
THEOREM SequenceStuckUntilCancelled ==
  Spec /\ [][~Cancel]_vars
    => /\ [](Stuck => []Stuck)
       /\ [][\A req \in AddRequest : AddIncomplete(req) => Stuck']_vars
       /\ [][Stuck /\ Request => reply' = "busy"]_vars
<1>1. TypeOK /\ ActiveHasID /\ [Next]_vars /\ [~Cancel]_vars =>
        /\ Stuck => Stuck'
        /\ [\A req \in AddRequest : AddIncomplete(req) => Stuck']_vars
        /\ [Stuck /\ Request => reply' = "busy"]_vars
  <2> SUFFICES ASSUME TypeOK, ActiveHasID, [Next]_vars, [~Cancel]_vars
               PROVE  /\ Stuck => Stuck'
                      /\ [\A req \in AddRequest : AddIncomplete(req) => Stuck']_vars
                      /\ [Stuck /\ Request => reply' = "busy"]_vars
    OBVIOUS
  <2>1. CASE UNCHANGED vars
    BY <2>1 DEF vars, Stuck
  <2>2. ASSUME NEW req \in AddRequest, AddIncomplete(req) PROVE Stuck'
    BY <2>2, SequenceAssumption DEF AddRequest, AddIncomplete, AssignedID, Stuck, ActiveHasID
  <2>3. ASSUME Stuck, Request, ~Cancel PROVE reply' = "busy"
    BY <2>3 DEF Request, Stuck, AddBusy, AddUnparsable, AddIncomplete, AddAccepted
  <2>4. ASSUME Stuck, Next, ~Cancel PROVE Stuck'
    <3>1. CASE Request
      BY <2>4, <3>1 DEF Request, Stuck, AddBusy, AddUnparsable, AddIncomplete, AddAccepted
    <3>2. CASE Poll \/ Tick \/ SetClock
      BY <2>4, <3>2 DEF Stuck, Poll, Tick, SetClock
    <3> QED BY <2>4, <3>1, <3>2 DEF Next
  <2> QED BY <2>1, <2>2, <2>3, <2>4
<1> QED BY <1>1, SequenceTypeOK, SequenceActiveHasID, PTL DEF Spec
=============================================================================
