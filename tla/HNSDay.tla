------------------------------ MODULE HNSDay ------------------------------
(***************************************************************************)
(* One day of the schedule (HNSDay and the per-day part of                 *)
(* HNScheduleMatrix::loadSchedule): the actions of a JSON array become     *)
(* HNSAction objects, the day is sorted by start time, and the query walks *)
(* it from the front until a start time is in the future.                  *)
(***************************************************************************)
EXTENDS HNSAction, Sequences, Functions

CONSTANTS Missing,      \* a key the JSON object of an action does not have
          NonString,    \* a value that is no JSON string
          NoSwid        \* the empty switch ID of a default HNSAction

\* What the JSON object of an action may have for a time, and the object.
TimeText == UInt \cup {Malformed, Missing, NonString}

JsonAction == [start : TimeText, end : TimeText,
               swid : Switch \cup {Missing, NonString}]

ASSUME DayAssumption ==
  /\ Missing \notin UInt \cup {Malformed}
  /\ NonString \notin UInt \cup {Malformed, Missing}

\* Times parsed from a text are not capped.
DayAction == [swid : Switch \cup {NoSwid}, start : UInt, end : UInt]
-----------------------------------------------------------------------------
(***************************************************************************)
(* A JSON object of the document, its keys visited in the order action,    *)
(* endTime, startTime, swid.  A value that is no string ends the visit:    *)
(* the fields it would have set keep their defaults, and the action is     *)
(* added all the same.                                                     *)
(***************************************************************************)
ParseOr00(text) == IF text = Missing THEN {0} ELSE ParseTime(text)

\* Variant: whatever is under "swid" taken for a switch ID.
ActionsFromUnchecked(obj) ==
  IF NonString \in {obj.start, obj.end}
    THEN {[swid |-> NoSwid, start |-> 0, end |-> 0]}
  ELSE {[swid |-> obj.swid, start |-> s, end |-> e] :
          s \in ParseOr00(obj.start), e \in ParseOr00(obj.end)}

ActionsFrom(obj) ==
  IF obj.end = NonString
    THEN {[swid |-> NoSwid, start |-> 0, end |-> 0]}
  ELSE IF obj.start = NonString
    THEN {[swid |-> NoSwid, start |-> 0, end |-> e] : e \in ParseOr00(obj.end)}
  ELSE {[swid |-> IF obj.swid \in {NonString, Missing} THEN NoSwid ELSE obj.swid,
         start |-> s, end |-> e] : s \in ParseOr00(obj.start), e \in ParseOr00(obj.end)}

\* What a day can hold after its array was read, before it is sorted.
LoadedArrays(objs) ==
  {arr \in [DOMAIN objs -> UNION {ActionsFrom(objs[i]) : i \in DOMAIN objs}] :
     \A i \in DOMAIN objs : arr[i] \in ActionsFrom(objs[i])}

\* arr is sorted by start time.
Sorted(arr) ==
  \A i, j \in DOMAIN arr : i < j => ~SortCompare(arr[j], arr[i])

\* sortActions: std::list::sort, a stable sort.  p[i] is where the i-th action
\* of the result came from.
StableOrders(arr) ==
  {p \in Bijection(DOMAIN arr, DOMAIN arr) :
     \A i, j \in DOMAIN arr : i < j =>
       \/ SortCompare(arr[p[i]], arr[p[j]])
       \/ ~SortCompare(arr[p[j]], arr[p[i]]) /\ p[i] < p[j]}

\* Variant: the day left in the order of the document.
SortActionsSkipped(arr) == {arr}

SortActions(arr) ==
  {[i \in DOMAIN arr |-> arr[p[i]]] : p \in StableOrders(arr)}

\* The arrays a day may hold once loaded: one, unless a time is malformed.
DayLoads(objs) == UNION {SortActions(arr) : arr \in LoadedArrays(objs)}
-----------------------------------------------------------------------------
(* getSwitchOnList *)

\* Variant: stops at the first action that is not active, in the past or not.
WalkStopsEarly(arr, t) ==
  {arr[i].swid : i \in {k \in DOMAIN arr : \A j \in 1 .. k : Active(arr[j], t)}}

\* The walk reaches the actions before the first one that starts after t.
Walk(arr, t) ==
  {arr[i].swid :
     i \in {k \in DOMAIN arr :
              /\ Active(arr[k], t)
              /\ \A j \in 1 .. k - 1 : ~StartIsAfter(arr[j], t)}}
-----------------------------------------------------------------------------
(* What the query stands for. *)

\* The switches with an action that is active at t.
Due(arr, t) == {arr[i].swid : i \in {k \in DOMAIN arr : Active(arr[k], t)}}

\* The same read off the document's objects, in whatever order they stand.
DueFrom(objs, t) ==
  {act.swid : act \in {a \in UNION {ActionsFrom(objs[i]) : i \in DOMAIN objs} :
                         Active(a, t)}}
=============================================================================
