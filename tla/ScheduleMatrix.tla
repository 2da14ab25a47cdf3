--------------------------- MODULE ScheduleMatrix ---------------------------
(***************************************************************************)
(* HNScheduleMatrix without its enable state: scheduleMatrix.json, the     *)
(* days loaded from it, SCHEDULE_UPDATE requests, the queries of the event *)
(* loop and what a status says of the schedule.                            *)
(*                                                                         *)
(* A client's update is checked, written over the file and loaded back     *)
(* from it.  The write may be refused or come out short, the file may fail *)
(* to open for reading, and the daemon may die while it writes.            *)
(***************************************************************************)
EXTENDS HNSDay

CONSTANTS Weekday,       \* tm_wday
          Doc,           \* schedule documents: JSON objects clients send
          NoMatrix,      \* "scheduleMatrix" is absent, or is no JSON object
          NoCRC,         \* the empty CRC
          NoDoc,         \* no update was accepted yet
          NoStatus,      \* no status yet that names a schedule
          Torn,          \* a truncated file: no JSON
          Absent,        \* no file
          InstanceDir,   \* the instance's directory exists
          WriteFaults,   \* what may go wrong with a write
          ReadFaults     \* what may go wrong with a read

(***************************************************************************)
(* A document: its CRC (Missing, NonString or a value), and for each       *)
(* weekday the action objects of its array (<<>> when it is no array).     *)
(***************************************************************************)
ASSUME ScheduleAssumption ==
  /\ InstanceDir \in BOOLEAN
  /\ WriteFaults \subseteq {"refused", "short"}
  /\ ReadFaults \subseteq {"unreadable"}
  /\ {Torn, Absent, NoDoc} \cap Doc = {}
  /\ \A doc \in Doc :
       doc.days # NoMatrix => doc.days \in [Weekday -> Seq(JsonAction)]

VARIABLES up,            \* the daemon runs
          schFile,       \* scheduleMatrix.json
          dayArr,        \* m_dayArr
          schCRC,        \* m_schCRC32
          health,        \* m_health
          updateIndex,   \* m_schUpdateIndex, a uint
          accepted,      \* history: the last update answered with SUCCESS
          seen,          \* history: what a client has from a status, and the
                         \* document the schedule was of at that time
          writes         \* history: writes of the file since that status,
                         \* UIntMod once so many, or once the daemon has died

memory == <<dayArr, schCRC, health, updateIndex>>
client == <<seen, writes>>
vars == <<up, schFile, memory, accepted, client>>

EmptyDays == [w \in Weekday |-> <<>>]
-----------------------------------------------------------------------------
(* loadSchedule: clear, read, parse, sort. *)

DocDays(doc) == IF doc.days = NoMatrix THEN EmptyDays ELSE doc.days

DocCRC(doc) == IF doc.crc \in {Missing, NonString} THEN NoCRC ELSE doc.crc

\* The matrices a document may be loaded as.
MatrixLoads(doc) ==
  LET loads == [w \in Weekday |-> DayLoads(DocDays(doc)[w])]
  IN  {days \in [Weekday -> UNION Range(loads)] :
         \A w \in Weekday : days[w] \in loads[w]}

LoadFailed ==
  /\ dayArr' = EmptyDays
  /\ schCRC' = NoCRC
  /\ health' = "failed"

LoadDone(file) ==
  /\ file \in Doc
  /\ dayArr' \in MatrixLoads(file)
  /\ schCRC' = DocCRC(file)
  /\ health' = "ok"

\* Variant: the old days kept when the file cannot be read.
LoadScheduleNoClear(file) ==
  \/ LoadDone(file)
  \/ /\ file \notin Doc \/ "unreadable" \in ReadFaults
     /\ health' = "failed"
     /\ UNCHANGED <<dayArr, schCRC>>

LoadSchedule(file) ==
  \/ LoadDone(file)
  \/ (file \notin Doc \/ "unreadable" \in ReadFaults) /\ LoadFailed
-----------------------------------------------------------------------------
(***************************************************************************)
(* replaceSchedule.  createDirectories makes the root directory, never the *)
(* instance's below it, and nobody looks at the result of the write.       *)
(***************************************************************************)
WriteOutcome ==
  IF InstanceDir THEN {"done"} \cup WriteFaults ELSE {"refused"}

Written(doc, outcome) ==
  CASE outcome = "done" -> doc
    [] outcome = "short" -> Torn
    [] outcome = "refused" -> schFile

\* Variant: the index not bumped.
IndexAfterUnbumped(outcome) == updateIndex

IndexAfter(outcome) ==
  IF outcome = "refused" THEN updateIndex ELSE (updateIndex + 1) % UIntMod

\* The SCHEDULE_UPDATE request, answered with SUCCESS whatever happened.
ScheduleUpdate(doc) ==
  /\ up
  /\ doc.crc # Missing
  /\ \E outcome \in WriteOutcome :
       /\ schFile' = Written(doc, outcome)
       /\ updateIndex' = IndexAfter(outcome)
       /\ LoadSchedule(Written(doc, outcome))
       /\ writes' = IF outcome = "refused" \/ writes = UIntMod THEN writes
                                                             ELSE writes + 1
  /\ accepted' = doc
  /\ UNCHANGED <<up, seen>>

\* A request that is no JSON object, or has no CRC, changes nothing.
RejectUpdate ==
  /\ up
  /\ UNCHANGED vars

\* getSwitchOnList at a local time, which changes nothing.
GetSwitchOnList(w, t) == Walk(dayArr[w], t)

\* A status, as long as there is a schedule with a CRC for it to name.
SendStatusPacket ==
  /\ up /\ schCRC # NoCRC
  /\ seen' = [index |-> updateIndex, crc |-> schCRC, doc |-> schFile]
  /\ writes' = 0
  /\ UNCHANGED <<up, schFile, memory, accepted>>

Boot ==
  /\ ~up
  /\ up' = TRUE
  /\ updateIndex' = 0
  /\ LoadSchedule(schFile)
  /\ UNCHANGED <<schFile, accepted, client>>

\* The process and its memory are gone.
Dies ==
  /\ up
  /\ up' = FALSE
  /\ dayArr' = EmptyDays /\ schCRC' = NoCRC /\ health' = "unknown"
  /\ updateIndex' = 0
  /\ writes' = UIntMod
  /\ UNCHANGED <<accepted, seen>>

Crash == Dies /\ UNCHANGED schFile

\* The daemon dies while it serves an update, the file truncated or just
\* written.  The client gets no answer.
CrashInWrite(doc) ==
  /\ InstanceDir
  /\ doc.crc # Missing
  /\ Dies
  /\ schFile' \in {Torn, doc}
-----------------------------------------------------------------------------
Init ==
  /\ up = FALSE
  /\ schFile \in IF InstanceDir THEN Doc \cup {Torn, Absent} ELSE {Absent}
  /\ dayArr = EmptyDays
  /\ schCRC = NoCRC
  /\ health = "unknown"
  /\ updateIndex = 0
  /\ accepted = NoDoc
  /\ seen = NoStatus
  /\ writes = UIntMod

Next ==
  \/ \E doc \in Doc : ScheduleUpdate(doc)
  \/ RejectUpdate
  \/ SendStatusPacket
  \/ Boot
  \/ Crash
  \/ \E doc \in Doc : CrashInWrite(doc)

Spec == Init /\ [][Next]_vars
-----------------------------------------------------------------------------
(* Safety *)

TypeOK ==
  /\ up \in BOOLEAN
  /\ schFile \in Doc \cup {Torn, Absent}
  /\ dayArr \in [Weekday -> Seq(DayAction)]
  /\ health \in {"unknown", "ok", "failed"}
  /\ updateIndex \in UInt
  /\ accepted \in Doc \cup {NoDoc}
  /\ seen # NoStatus => seen.index \in UInt /\ seen.doc \in Doc \cup {Torn, Absent}
  /\ writes \in 0 .. UIntMod

\* A running daemon holds the schedule of its file, or holds none and says so:
\* there is no half-loaded and no left-over schedule.
MatrixIsFile ==
  up => \/ /\ health = "ok"
           /\ schFile \in Doc
           /\ dayArr \in MatrixLoads(schFile)
           /\ schCRC = DocCRC(schFile)
        \/ /\ health = "failed"
           /\ dayArr = EmptyDays
           /\ schCRC = NoCRC

\* All the times of the document parse.
WellFormedDoc(doc) ==
  doc.days # NoMatrix =>
    \A w \in Weekday : \A i \in DOMAIN doc.days[w] :
      doc.days[w][i].start # Malformed /\ doc.days[w][i].end # Malformed

\* A query turns on exactly what the document in the file has active then, in
\* whatever order it lists its actions.
QueryReportsFile ==
  up /\ schFile \in Doc /\ WellFormedDoc(schFile) =>
    \A w \in Weekday, t \in ClockTime :
      GetSwitchOnList(w, t) =
        IF health = "ok" THEN DueFrom(DocDays(schFile)[w], t) ELSE {}

\* The CRCs clients put into two documents tell one schedule from another.
CRCsTell(x, y) == DocCRC(x) = DocCRC(y) => DocDays(x) = DocDays(y)

\* A client that compares two statuses that name a schedule learns of every
\* change, also of one through a schedule that failed to load or from a file
\* that was written in part.  Index and CRC the same, it is the schedule of the
\* same document if the daemon has not died in between and the index has not
\* gone round.  If it has, only the CRC is left, and it is the same schedule if
\* the CRCs of the two documents tell.
ChangeIsSeen ==
  /\ up /\ schCRC # NoCRC
  /\ seen # NoStatus
  /\ seen.crc = schCRC
  /\ \/ seen.index = updateIndex /\ writes < UIntMod
     \/ CRCsTell(seen.doc, schFile)
  => dayArr \in MatrixLoads(seen.doc)

(* What the comments say of an update and the code does not do. *)

\* "Create directories if necessary": without faults, an update answered with
\* SUCCESS is in the file.
AcceptedIsFile == up /\ accepted # NoDoc => schFile = accepted
=============================================================================
