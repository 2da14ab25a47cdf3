------------------------- MODULE MCScheduleMatrix -------------------------
(* Constants of the runs of ScheduleMatrix. *)
EXTENDS ScheduleMatrix

CONSTANTS a, b, crc1, crc2

Obj(s, e, id) == [start |-> s, end |-> e, swid |-> id]

\* Out of order, overlapping, and an action that runs over midnight.
BusyDay == <<Obj(2, 4, a), Obj(0, 3, b), Obj(2, 3, b)>>

\* Objects with missing, non-string and malformed fields.
OddDay == <<Obj(1, NonString, a), Obj(NonString, 3, a), Obj(Missing, 1, b), Obj(0, 2, NonString)>>
BadTimeDay == <<Obj(Malformed, 3, a)>>
NightDay == <<Obj(3, 1, a), Obj(3, DaySecs, b)>>

Days(first, other) ==
  [w \in Weekday |-> IF w = 0 THEN first ELSE other]

MCDoc == {
  [crc |-> crc1, days |-> Days(BusyDay, NightDay)],
  [crc |-> crc2, days |-> Days(OddDay, <<>>)],
  [crc |-> crc1, days |-> Days(<<>>, BadTimeDay)],
  [crc |-> NonString, days |-> Days(NightDay, BusyDay)],
  [crc |-> crc2, days |-> NoMatrix],
  [crc |-> Missing, days |-> Days(BusyDay, BusyDay)]}
=============================================================================
