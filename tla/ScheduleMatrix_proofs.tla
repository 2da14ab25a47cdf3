----------------------- MODULE ScheduleMatrix_proofs -----------------------
(***************************************************************************)
(* Theorems about ScheduleMatrix, for every document, every day length and *)
(* every combination of faults.                                            *)
(***************************************************************************)
EXTENDS ScheduleMatrix, HNSDay_proofs

(***************************************************************************)
(* The whole matrix.                                                       *)
(***************************************************************************)
LEMMA DocDaysType ==
  ASSUME NEW doc \in Doc
  PROVE  DocDays(doc) \in [Weekday -> Seq(JsonAction)]
<1>1. <<>> \in Seq(JsonAction)
  OBVIOUS
<1> QED BY <1>1, ScheduleAssumption DEF DocDays, EmptyDays

LEMMA MatrixLoadsType ==
  ASSUME NEW doc \in Doc, NEW days \in MatrixLoads(doc)
  PROVE  days \in [Weekday -> Seq(DayAction)]
<1>1. days = [w \in Weekday |-> days[w]]
  BY DEF MatrixLoads
<1>2. ASSUME NEW w \in Weekday PROVE days[w] \in Seq(DayAction)
  <2>1. days[w] \in DayLoads(DocDays(doc)[w])
    BY DEF MatrixLoads
  <2>2. DocDays(doc)[w] \in Seq(JsonAction)
    BY DocDaysType
  <2> QED BY <2>1, <2>2, DayLoadsProperties
<1> QED BY <1>1, <1>2

LEMMA EmptyDaysType == EmptyDays \in [Weekday -> Seq(DayAction)]
<1>1. <<>> \in Seq(DayAction)
  OBVIOUS
<1> QED BY <1>1 DEF EmptyDays

LEMMA LoadScheduleType ==
  ASSUME NEW file \in Doc \cup {Torn, Absent}, LoadSchedule(file)
  PROVE  dayArr' \in [Weekday -> Seq(DayAction)] /\ health' \in {"unknown", "ok", "failed"}
<1>1. CASE LoadDone(file)
  BY <1>1, MatrixLoadsType DEF LoadDone
<1>2. CASE LoadFailed
  BY <1>2, EmptyDaysType DEF LoadFailed
<1> QED BY <1>1, <1>2 DEF LoadSchedule

LEMMA UpdateWrites ==
  ASSUME TypeOK, NEW doc \in Doc, ScheduleUpdate(doc)
  PROVE  /\ schFile' \in Doc \cup {Torn, Absent}
         /\ updateIndex' \in UInt
         /\ writes' \in 0 .. UIntMod
         /\ LoadSchedule(schFile')
         /\ \/ UNCHANGED <<schFile, updateIndex, writes>>
            \/ /\ updateIndex' = (updateIndex + 1) % UIntMod
               /\ writes' = IF writes = UIntMod THEN UIntMod ELSE writes + 1
<1>1. PICK outcome \in WriteOutcome :
        /\ schFile' = Written(doc, outcome)
        /\ updateIndex' = IndexAfter(outcome)
        /\ LoadSchedule(Written(doc, outcome))
        /\ writes' = IF outcome = "refused" \/ writes = UIntMod THEN writes
                                                              ELSE writes + 1
  BY DEF ScheduleUpdate
<1>2. outcome \in {"done", "short", "refused"}
  BY ScheduleAssumption DEF WriteOutcome
<1>3. /\ outcome = "done" => Written(doc, outcome) = doc
      /\ outcome = "short" => Written(doc, outcome) = Torn
      /\ outcome = "refused" => Written(doc, outcome) = schFile
  BY DEF Written
<1>4. IndexAfter(outcome) \in UInt
  <2>1. (updateIndex + 1) % UIntMod \in UInt
    BY TimeAssumption DEF TypeOK, UInt
  <2> QED BY <2>1 DEF IndexAfter, TypeOK
<1>5. writes' \in 0 .. UIntMod
  BY <1>1, TimeAssumption DEF TypeOK
<1>6. CASE outcome = "refused"
  BY <1>1, <1>3, <1>4, <1>5, <1>6 DEF IndexAfter, TypeOK
<1>7. CASE outcome # "refused"
  BY <1>1, <1>2, <1>3, <1>4, <1>5, <1>7 DEF IndexAfter, TypeOK
<1> QED BY <1>6, <1>7

THEOREM MatrixTypeOK == Spec => []TypeOK
<1>1. Init => TypeOK
  <2>1. 0 \in UInt /\ UIntMod \in 0 .. UIntMod
    BY TimeAssumption DEF UInt
  <2> QED BY <2>1, EmptyDaysType DEF Init, TypeOK
<1>2. TypeOK /\ [Next]_vars => TypeOK'
  <2> SUFFICES ASSUME TypeOK, [Next]_vars PROVE TypeOK'
    OBVIOUS
  <2>0. 0 \in UInt /\ 0 \in 0 .. UIntMod /\ UIntMod \in 0 .. UIntMod
    BY TimeAssumption DEF UInt
  <2>1. ASSUME NEW doc \in Doc, ScheduleUpdate(doc) PROVE TypeOK'
    <3>1. up' \in BOOLEAN /\ accepted' = doc /\ seen' = seen
      BY <2>1 DEF ScheduleUpdate, TypeOK
    <3> QED BY <2>1, <3>1, UpdateWrites, LoadScheduleType DEF TypeOK
  <2>2. CASE SendStatusPacket
    BY <2>0, <2>2 DEF SendStatusPacket, memory, TypeOK
  <2>3. CASE Boot
    <3>1. LoadSchedule(schFile) /\ schFile \in Doc \cup {Torn, Absent}
      BY <2>3 DEF Boot, TypeOK
    <3> QED BY <2>0, <2>3, <3>1, LoadScheduleType DEF Boot, client, TypeOK
  <2>4. CASE Crash
    BY <2>0, <2>4, EmptyDaysType DEF Crash, Dies, TypeOK
  <2>5. ASSUME NEW doc \in Doc, CrashInWrite(doc) PROVE TypeOK'
    BY <2>0, <2>5, EmptyDaysType DEF CrashInWrite, Dies, TypeOK
  <2>6. CASE UNCHANGED vars
    BY <2>6 DEF vars, memory, client, TypeOK
  <2> QED BY <2>1, <2>2, <2>3, <2>4, <2>5, <2>6 DEF Next, RejectUpdate
<1> QED BY <1>1, <1>2, PTL DEF Spec

\* No left-over and no half-loaded schedule, through refused and short writes,
\* unreadable files, deaths and restarts.
THEOREM MatrixIsFileThm == Spec => []MatrixIsFile
<1>1. Init => MatrixIsFile
  BY DEF Init, MatrixIsFile
<1>2. ASSUME NEW file, LoadSchedule(file), schFile' = file PROVE MatrixIsFile'
  BY <1>2 DEF LoadSchedule, LoadDone, LoadFailed, MatrixIsFile
<1>3. TypeOK /\ MatrixIsFile /\ [Next]_vars => MatrixIsFile'
  <2> SUFFICES ASSUME TypeOK, MatrixIsFile, [Next]_vars PROVE MatrixIsFile'
    OBVIOUS
  <2>1. ASSUME NEW doc \in Doc, ScheduleUpdate(doc) PROVE MatrixIsFile'
    BY <1>2, <2>1, UpdateWrites
  <2>2. CASE SendStatusPacket
    BY <2>2 DEF SendStatusPacket, memory, MatrixIsFile
  <2>3. CASE Boot
    BY <1>2, <2>3 DEF Boot
  <2>4. CASE Crash
    BY <2>4 DEF Crash, Dies, MatrixIsFile
  <2>5. ASSUME NEW doc \in Doc, CrashInWrite(doc) PROVE MatrixIsFile'
    BY <2>5 DEF CrashInWrite, Dies, MatrixIsFile
  <2>6. CASE UNCHANGED vars
    BY <2>6 DEF vars, memory, MatrixIsFile
  <2> QED BY <2>1, <2>2, <2>3, <2>4, <2>5, <2>6 DEF Next, RejectUpdate
<1> QED BY <1>1, <1>3, MatrixTypeOK, PTL DEF Spec

\* A query of the running daemon is a query of the document in the file.
LEMMA QueryOfDocument ==
  ASSUME TypeOK, MatrixIsFile, NEW w \in Weekday, NEW t \in ClockTime,
         up, schFile \in Doc, WellFormedDoc(schFile)
  PROVE  GetSwitchOnList(w, t) = IF health = "ok" THEN DueFrom(DocDays(schFile)[w], t) ELSE {}
<1>1. t \in Nat /\ GetSwitchOnList(w, t) = Walk(dayArr[w], t)
  BY DEF ClockTime, GetSwitchOnList
<1>2. CASE health = "ok"
  <2>1. dayArr[w] \in DayLoads(DocDays(schFile)[w])
    BY <1>1, <1>2 DEF MatrixIsFile, MatrixLoads
  <2>2. DocDays(schFile)[w] \in Seq(JsonAction)
    BY DocDaysType
  <2>3. \A i \in DOMAIN DocDays(schFile)[w] :
          /\ DocDays(schFile)[w][i].start # Malformed
          /\ DocDays(schFile)[w][i].end # Malformed
    BY DEF WellFormedDoc, DocDays, EmptyDays
  <2>4. /\ dayArr[w] \in Seq(DayAction) /\ Sorted(dayArr[w])
        /\ Due(dayArr[w], t) = DueFrom(DocDays(schFile)[w], t)
    BY <1>1, <2>1, <2>2, <2>3, DayLoadsProperties
  <2>5. Walk(dayArr[w], t) = Due(dayArr[w], t)
    BY <1>1, <2>4, WalkIsDue
  <2> QED BY <1>1, <1>2, <2>4, <2>5
<1>3. CASE health # "ok"
  <2>1. dayArr[w] = <<>>
    BY <1>1, <1>3 DEF MatrixIsFile, EmptyDays
  <2>2. Walk(<<>>, t) = {}
    BY DEF Walk
  <2> QED BY <1>1, <1>3, <2>1, <2>2
<1> QED BY <1>2, <1>3

\* For every document whose times parse, every weekday and every time.
THEOREM MatrixQueryReportsFile == Spec => []QueryReportsFile
<1>1. TypeOK /\ MatrixIsFile => QueryReportsFile
  BY QueryOfDocument DEF QueryReportsFile
<1> QED BY <1>1, MatrixTypeOK, MatrixIsFileThm, PTL

\* Every document that parses can be loaded, whatever the objects of its days,
\* and in one way only when its times parse: the model of the sort and of the
\* visit of the objects neither blocks a load nor leaves it a choice.
THEOREM MatrixLoadsDefined ==
  ASSUME NEW doc \in Doc
  PROVE  /\ MatrixLoads(doc) # {}
         /\ WellFormedDoc(doc) => \A x, y \in MatrixLoads(doc) : x = y
<1>1. ASSUME NEW w \in Weekday PROVE DocDays(doc)[w] \in Seq(JsonAction)
  BY DocDaysType
<1> DEFINE days == [w \in Weekday |-> CHOOSE d : d \in DayLoads(DocDays(doc)[w])]
<1>2. \A w \in Weekday : days[w] \in DayLoads(DocDays(doc)[w])
  BY <1>1, DayLoadsDefined
<1>3. days \in MatrixLoads(doc)
  <2> DEFINE loads == [w \in Weekday |-> DayLoads(DocDays(doc)[w])]
  <2>1. ASSUME NEW w \in Weekday
        PROVE  days[w] \in loads[w] /\ loads[w] \in Range(loads)
    BY <1>2 DEF Range
  <2>2. days \in [Weekday -> UNION Range(loads)]
    BY <2>1
  <2> HIDE DEF days
  <2> QED BY <2>1, <2>2 DEF MatrixLoads
<1> HIDE DEF days
<1>4. ASSUME WellFormedDoc(doc), NEW x \in MatrixLoads(doc), NEW y \in MatrixLoads(doc)
      PROVE  x = y
  <2>1. ASSUME NEW w \in Weekday PROVE x[w] = y[w]
    <3> DEFINE objs == DocDays(doc)[w]
    <3>1. objs \in Seq(JsonAction)
      BY <1>1
    <3>2. \A i \in DOMAIN objs : objs[i].start # Malformed /\ objs[i].end # Malformed
      BY <1>4 DEF WellFormedDoc, DocDays, EmptyDays
    <3>3. x[w] \in DayLoads(objs) /\ y[w] \in DayLoads(objs)
      BY DEF MatrixLoads
    <3> HIDE DEF objs
    <3> QED BY <3>1, <3>2, <3>3, DayLoadsDefined
  <2>2. x = [w \in Weekday |-> x[w]] /\ y = [w \in Weekday |-> y[w]]
    BY DEF MatrixLoads
  <2> QED BY <2>1, <2>2
<1> QED BY <1>3, <1>4

(***************************************************************************)
(* ChangeIsSeen.  As long as the daemon lives and the index has not gone   *)
(* round, the index has moved by the writes since the status, and without  *)
(* a write the file is the one the schedule was loaded from then.          *)
(***************************************************************************)
IndexCounts ==
  /\ ~up => writes = UIntMod
  /\ seen # NoStatus => seen.crc = DocCRC(seen.doc)
  /\ seen # NoStatus /\ writes < UIntMod =>
       /\ updateIndex \in {seen.index + writes, seen.index + writes - UIntMod}
       /\ writes = 0 => schFile = seen.doc

LEMMA UpdateCounts ==
  ASSUME TypeOK, IndexCounts, NEW doc \in Doc, ScheduleUpdate(doc)
  PROVE  IndexCounts'
<1>0. up /\ up' = up /\ seen' = seen
  BY DEF ScheduleUpdate
<1> SUFFICES ASSUME seen # NoStatus PROVE IndexCounts'
  BY <1>0 DEF IndexCounts
<1>1. up' /\ seen' = seen
  BY <1>0
<1>2. /\ updateIndex \in Nat /\ updateIndex < UIntMod
      /\ seen.index \in Nat /\ seen.index < UIntMod
      /\ writes \in Nat /\ writes <= UIntMod
      /\ UIntMod \in Nat /\ 1 < UIntMod
  BY TimeAssumption DEF TypeOK, UInt
<1>3. CASE UNCHANGED <<schFile, updateIndex, writes>>
  BY <1>1, <1>3 DEF IndexCounts
<1>4. CASE /\ updateIndex' = (updateIndex + 1) % UIntMod
           /\ writes' = IF writes = UIntMod THEN UIntMod ELSE writes + 1
  <2>1. CASE writes = UIntMod
    BY <1>1, <1>2, <1>4, <2>1 DEF IndexCounts
  <2>2. CASE writes < UIntMod
    <3>1. updateIndex' = IF updateIndex + 1 < UIntMod THEN updateIndex + 1 ELSE 0
      BY <1>2, <1>4
    <3>2. writes' = writes + 1 /\ writes' # 0
      BY <1>2, <1>4, <2>2
    <3>3. writes' < UIntMod =>
            updateIndex' \in {seen.index + writes', seen.index + writes' - UIntMod}
      BY <1>2, <2>2, <3>1, <3>2 DEF IndexCounts
    <3> QED BY <1>1, <3>2, <3>3 DEF IndexCounts
  <2> QED BY <1>2, <2>1, <2>2
<1> QED BY <1>3, <1>4, UpdateWrites

LEMMA SeenIsSchedule ==
  ASSUME TypeOK, MatrixIsFile, IndexCounts
  PROVE  ChangeIsSeen
<1> SUFFICES ASSUME up, schCRC # NoCRC, seen # NoStatus, seen.crc = schCRC,
                    \/ seen.index = updateIndex /\ writes < UIntMod
                    \/ CRCsTell(seen.doc, schFile)
             PROVE  dayArr \in MatrixLoads(seen.doc)
  BY DEF ChangeIsSeen
<1>1. dayArr \in MatrixLoads(schFile) /\ schCRC = DocCRC(schFile)
  BY DEF MatrixIsFile
<1>2. CASE seen.index = updateIndex /\ writes < UIntMod
  <2>1. seen.index \in Nat /\ seen.index < UIntMod /\ writes \in Nat /\ UIntMod \in Nat
    BY TimeAssumption DEF TypeOK, UInt
  <2>2. writes = 0
    BY <1>2, <2>1 DEF IndexCounts
  <2> QED BY <1>1, <1>2, <2>2 DEF IndexCounts
<1>3. CASE CRCsTell(seen.doc, schFile)
  <2>1. DocDays(seen.doc) = DocDays(schFile)
    BY <1>1, <1>3 DEF IndexCounts, CRCsTell
  <2> QED BY <1>1, <2>1 DEF MatrixLoads
<1> QED BY <1>2, <1>3

\* For any number of updates, written or not, and of deaths and restarts
\* between the two statuses.
THEOREM MatrixChangeIsSeen == Spec => []ChangeIsSeen
<1>1. Init => IndexCounts
  BY DEF Init, IndexCounts
<1>2. TypeOK /\ MatrixIsFile /\ IndexCounts /\ [Next]_vars => IndexCounts'
  <2> SUFFICES ASSUME TypeOK, MatrixIsFile, IndexCounts, [Next]_vars
               PROVE  IndexCounts'
    OBVIOUS
  <2>1. ASSUME NEW doc \in Doc, ScheduleUpdate(doc) PROVE IndexCounts'
    BY <2>1, UpdateCounts
  <2>2. CASE SendStatusPacket
    <3>1. schCRC = DocCRC(schFile)
      BY <2>2 DEF SendStatusPacket, MatrixIsFile
    <3>2. updateIndex = updateIndex + 0
      BY DEF TypeOK, UInt
    <3> QED BY <2>2, <3>1, <3>2 DEF SendStatusPacket, memory, IndexCounts
  <2>3. CASE Boot
    <3>1. writes = UIntMod
      BY <2>3 DEF Boot, IndexCounts
    <3>2. ~(UIntMod < UIntMod)
      BY TimeAssumption
    <3> QED BY <2>3, <3>1, <3>2 DEF Boot, client, IndexCounts
  <2>4. CASE Crash \/ \E doc \in Doc : CrashInWrite(doc)
    <3>1. ~(UIntMod < UIntMod)
      BY TimeAssumption
    <3> QED BY <2>4, <3>1 DEF Crash, CrashInWrite, Dies, IndexCounts
  <2>5. CASE UNCHANGED vars
    BY <2>5 DEF vars, memory, client, IndexCounts
  <2> QED BY <2>1, <2>2, <2>3, <2>4, <2>5 DEF Next, RejectUpdate
<1> QED BY <1>1, <1>2, SeenIsSchedule, MatrixTypeOK, MatrixIsFileThm, PTL DEF Spec
=============================================================================
