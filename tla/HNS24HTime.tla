---------------------------- MODULE HNS24HTime ----------------------------
(***************************************************************************)
(* The time-of-day arithmetic of HNS24HTime (HNScheduleMatrix.cpp).  A     *)
(* time and a duration share one C++ class, a 32 bit unsigned count of     *)
(* seconds; sums are capped at 24:00:00, they do not wrap at midnight.     *)
(*                                                                         *)
(* DaySecs stands for 24*60*60 and UIntMod for 2^32, so that a day of a    *)
(* few "seconds" can be explored.                                          *)
(***************************************************************************)
EXTENDS Naturals

CONSTANTS DaySecs,     \* seconds in a day, the cap of every sum
          UIntMod,     \* the number of values of a C++ uint
          Malformed    \* a text that sscanf("%d:%d:%d") does not fully convert

ASSUME TimeAssumption ==
  /\ DaySecs \in Nat \ {0}
  /\ UIntMod \in Nat
  /\ DaySecs + 1 < UIntMod

UInt == 0 .. UIntMod - 1

\* What the system clock shows (HMS of a struct tm).
ClockTime == 0 .. DaySecs - 1

\* What a capped sum can be: 24:00:00 included.
TimeOfDay == 0 .. DaySecs

ASSUME MalformedAssumption == Malformed \notin UInt

\* "Add the two times, cap 24 hours".
Cap(s) == IF s > DaySecs THEN DaySecs ELSE s

SetFromSeconds(s) == Cap(s)

\* Variant: the cap forgotten.
AddSecondsUncapped(t, s) == (t + s) % UIntMod

AddSeconds(t, s) == Cap((t + s) % UIntMod)

AddDuration(t, d) == AddSeconds(t, d)

(***************************************************************************)
(* parseTime ignores how many fields sscanf converted: the fields it did   *)
(* not convert are read uninitialised, so a malformed text may come out as *)
(* any uint.  A well-formed text is named by the seconds it stands for,    *)
(* setFromHMS does not cap them.                                           *)
(***************************************************************************)
ParseTime(text) == IF text = Malformed THEN UInt ELSE {text}
=============================================================================
