----------------------- MODULE SwitchManager_proofs -----------------------
(***************************************************************************)
(* Proofs about SwitchManager, for every set of configurations and every   *)
(* set of lists.                                                           *)
(***************************************************************************)
EXTENDS SwitchManager, TLAPS, WellFoundedInduction

(***************************************************************************)
(* The maps that loadConfiguration fills: of the objects with one key the  *)
(* first is found.                                                         *)
(***************************************************************************)
LEMMA FirstOf ==
  ASSUME NEW P \in SUBSET Nat, P # {}
  PROVE  \E i \in P : \A j \in P : i <= j
<1>1. PICK i \in P : \A j \in P : <<j, i>> \notin OpToRel(<, Nat)
  BY NatLessThanWellFounded, WFMin
<1>2. \A j \in P : ~ (j < i)
  BY <1>1 DEF OpToRel
<1> QED BY <1>2

FirstOfEach(map, list, at, key) ==
  /\ DOMAIN map = {list[i][key] : i \in at}
  /\ \A k \in DOMAIN map : \E i \in at :
       /\ list[i][key] = k /\ map[k] = list[i]
       /\ \A j \in at : list[j][key] = k => i <= j

LEMMA InsertedDevices ==
  ASSUME NEW list \in Seq(DeviceObject), NEW at \in SUBSET DOMAIN list,
         NEW map, map = Inserted(list, at, "id")
  PROVE  /\ FirstOfEach(map, list, at, "id")
         /\ DOMAIN map \subseteq DevID /\ \A k \in DOMAIN map : map[k] \in DeviceObject
<1>1. DOMAIN list \subseteq Nat /\ \A i \in DOMAIN list : list[i] \in DeviceObject
  OBVIOUS
<1>2. DOMAIN map = {list[i].id : i \in at}
  BY DEF Inserted
<1>3. ASSUME NEW k \in DOMAIN map
      PROVE  /\ \E i \in at : /\ list[i].id = k /\ map[k] = list[i]
                             /\ \A j \in at : list[j].id = k => i <= j
             /\ map[k] \in DeviceObject
  <2> DEFINE P == {i \in at : list[i].id = k}
  <2>1. PICK i \in P : \A j \in P : i <= j
    BY <1>1, <1>2, <1>3, FirstOf
  <2> DEFINE First(n) == list[n].id = k /\ \A j \in at : list[j].id = k => n <= j
  <2>2. (CHOOSE n \in at : First(n)) \in at /\ First(CHOOSE n \in at : First(n))
    BY <2>1
  <2>3. map[k] = list[CHOOSE n \in at : First(n)]
    BY <1>2, <1>3 DEF Inserted
  <2> QED BY <1>1, <2>2, <2>3
<1>4. \A i \in at : list[i].id \in DevID
  BY <1>1 DEF DeviceObject
<1> QED BY <1>2, <1>3, <1>4 DEF FirstOfEach

LEMMA InsertedSwitches ==
  ASSUME NEW list \in Seq(SwitchObject), NEW at \in SUBSET DOMAIN list,
         NEW map, map = Inserted(list, at, "swid")
  PROVE  /\ FirstOfEach(map, list, at, "swid")
         /\ DOMAIN map \subseteq Name /\ \A k \in DOMAIN map : map[k] \in SwitchObject
<1>1. DOMAIN list \subseteq Nat /\ \A i \in DOMAIN list : list[i] \in SwitchObject
  OBVIOUS
<1>2. DOMAIN map = {list[i].swid : i \in at}
  BY DEF Inserted
<1>3. ASSUME NEW k \in DOMAIN map
      PROVE  /\ \E i \in at : /\ list[i].swid = k /\ map[k] = list[i]
                             /\ \A j \in at : list[j].swid = k => i <= j
             /\ map[k] \in SwitchObject
  <2> DEFINE P == {i \in at : list[i].swid = k}
  <2>1. PICK i \in P : \A j \in P : i <= j
    BY <1>1, <1>2, <1>3, FirstOf
  <2> DEFINE First(n) == list[n].swid = k /\ \A j \in at : list[j].swid = k => n <= j
  <2>2. (CHOOSE n \in at : First(n)) \in at /\ First(CHOOSE n \in at : First(n))
    BY <2>1
  <2>3. map[k] = list[CHOOSE n \in at : First(n)]
    BY <1>2, <1>3 DEF Inserted
  <2> QED BY <1>1, <2>2, <2>3
<1>4. \A i \in at : list[i].swid \in Name
  BY <1>1 DEF SwitchObject
<1> QED BY <1>2, <1>3, <1>4 DEF FirstOfEach

(***************************************************************************)
(* Type correctness: every register of an expander is written with bits    *)
(* of its own eight pins only.                                             *)
(***************************************************************************)
\* What TypeOK says of the maps and of the health of the manager.
MapsType ==
  /\ Loaded \subseteq DevID
  /\ \A d \in Loaded : deviceMap[d] \in DeviceObject
  /\ DOMAIN switchMap \subseteq Name
  /\ \A sw \in DOMAIN switchMap : switchMap[sw] \in SwitchObject
  /\ mgrHealth \in Health

LEMMA LoadType == TypeOK /\ LoadConfiguration => MapsType'
<1> SUFFICES ASSUME TypeOK, LoadConfiguration PROVE MapsType'
  OBVIOUS
<1>1. ASSUME NEW doc \in Config, LoadDone(doc) PROVE MapsType'
  <2>1. doc.devList \in Seq(DeviceObject) /\ doc.switchList \in Seq(SwitchObject)
    BY ConfigAssumption
  <2>2. Created(doc.devList) \in SUBSET DOMAIN doc.devList
    BY DEF Created
  <2>3. Loaded' \subseteq DevID /\ \A d \in Loaded' : deviceMap'[d] \in DeviceObject
    BY <1>1, <2>1, <2>2, InsertedDevices DEF LoadDone, Loaded
  <2>4. /\ DOMAIN switchMap' \subseteq Name
        /\ \A sw \in DOMAIN switchMap' : switchMap'[sw] \in SwitchObject
    BY <1>1, <2>1, InsertedSwitches DEF LoadDone
  <2> QED BY <1>1, <2>3, <2>4 DEF LoadDone, MapsType, Health
<1>2. CASE LoadFailed
  BY <1>2 DEF LoadFailed, TypeOK, MapsType, Loaded, Health
<1> QED BY <1>1, <1>2 DEF LoadConfiguration

LEMMA ChipType == ASSUME TypeOK, NEW d \in Loaded PROVE d \in DevID /\ ChipOf(d) \in Chip
BY DEF TypeOK, ChipOf, DeviceObject

LEMMA UpdateStateToOnType ==
  ASSUME TypeOK, NEW sw, UpdateStateToOn(sw)
  PROVE  nextState' \in [DevID -> SUBSET Pin]
BY DEF TypeOK, UpdateStateToOn, Switches

LEMMA McpInitType ==
  ASSUME TypeOK, NEW d \in Loaded, McpInitSucceeds(d) \/ McpInitFails(d)
  PROVE  /\ i2cfd' \in [DevID -> {"closed", "unaddressed", "open"}]
         /\ health' \in [DevID -> Health]
         /\ olat' \in [Chip -> SUBSET Pin]
         /\ iodir' \in [Chip -> {"in", "out"}]
         /\ failedAt' \in SUBSET Chip
<1>0. d \in DevID /\ ChipOf(d) \in Chip
  BY ChipType
<1>1. CASE McpInitSucceeds(d)
  BY <1>0, <1>1 DEF TypeOK, McpInitSucceeds, Health
<1>2. CASE McpInitFails(d)
  <2>1. i2cfd' \in [DevID -> {"closed", "unaddressed", "open"}] /\ health' \in [DevID -> Health]
    BY <1>0, <1>2 DEF TypeOK, McpInitFails, Health
  <2>2. ASSUME NEW half \in HalfInitialised(ChipOf(d))
        PROVE  half[1] \in SUBSET Pin /\ half[2] \in {"in", "out"}
    BY <1>0 DEF TypeOK, HalfInitialised, AfterFailedWrite
  <2> QED BY <1>0, <1>2, <2>1, <2>2 DEF TypeOK, McpInitFails, chips
<1> QED BY <1>1, <1>2

LEMMA ApplyNextStateType ==
  ASSUME TypeOK, NEW d \in Loaded, ApplyNextState(d)
  PROVE  health' \in [DevID -> Health] /\ olat' \in [Chip -> SUBSET Pin]
<1>1. d \in DevID /\ ChipOf(d) \in Chip
  BY ChipType
<1>2. health' \in [DevID -> Health]
  BY <1>1 DEF TypeOK, ApplyNextState, ReadFails, NoChange, WriteSucceeds, WriteFails, Health
<1>3. olat' \in [Chip -> SUBSET Pin]
  BY <1>1 DEF TypeOK, ApplyNextState, ReadFails, NoChange, WriteSucceeds, WriteFails,
              AfterFailedWrite
<1> QED BY <1>2, <1>3

\* A process that has just started.
DevicesType ==
  /\ i2cfd \in [DevID -> {"closed", "unaddressed", "open"}]
  /\ health \in [DevID -> Health]
  /\ nextState \in [DevID -> SUBSET Pin]

LoopType ==
  /\ pc \in {"load", "init", "walk", "apply", "requests"}
  /\ todo \in SUBSET Loaded
  /\ onList \in Seq(Name)
  /\ it \in Nat \ {0}
  /\ schHealth \in {"OK", "FAILED"}
  /\ overall \in {"OK", "FAILED"}

LEMMA FreshType ==
  ASSUME NEW devs, NEW sws, NEW mgr, NEW fd, NEW hs, NEW next, NEW at, NEW left, NEW list,
         NEW pos, NEW sch, NEW sum,
         FreshProcess(devs, sws, mgr, fd, hs, next, at, left, list, pos, sch, sum)
  PROVE  /\ DOMAIN devs \subseteq DevID /\ \A d \in DOMAIN devs : devs[d] \in DeviceObject
         /\ DOMAIN sws \subseteq Name /\ \A sw \in DOMAIN sws : sws[sw] \in SwitchObject
         /\ mgr \in Health
         /\ fd \in [DevID -> {"closed", "unaddressed", "open"}]
         /\ hs \in [DevID -> Health]
         /\ next \in [DevID -> SUBSET Pin]
         /\ at \in {"load", "init", "walk", "apply", "requests"}
         /\ left \in SUBSET DOMAIN devs
         /\ list \in Seq(Name)
         /\ pos \in Nat \ {0}
         /\ sch \in {"OK", "FAILED"} /\ sum \in {"OK", "FAILED"}
<1>1. DOMAIN devs = {} /\ DOMAIN sws = {}
  BY DEF FreshProcess
<1>2. /\ fd \in [DevID -> {"closed", "unaddressed", "open"}] /\ hs \in [DevID -> Health]
      /\ next \in [DevID -> SUBSET Pin]
  BY DEF FreshProcess, Health
<1> QED BY <1>1, <1>2 DEF FreshProcess, Health

LEMMA TypeStep == TypeOK /\ [Next]_vars => TypeOK'
<1> SUFFICES ASSUME TypeOK, [Next]_vars PROVE TypeOK'
  OBVIOUS
<1>0. CASE LoadConfiguration
  <2>1. document' \in Config \cup {NoDocument}
    BY <1>0 DEF LoadConfiguration, LoadDone, LoadFailed, TypeOK
  <2> QED BY <1>0, <2>1, LoadType
          DEF LoadConfiguration, MapsType, TypeOK, Loaded, devices, chips
<1>1. ASSUME NEW d \in DevID, InitDevice(d) PROVE TypeOK'
  <2>1. d \in Loaded
    BY <1>1 DEF InitDevice, TypeOK
  <2>2. /\ i2cfd' \in [DevID -> {"closed", "unaddressed", "open"}]
        /\ health' \in [DevID -> Health]
        /\ olat' \in [Chip -> SUBSET Pin]
        /\ iodir' \in [Chip -> {"in", "out"}]
        /\ failedAt' \in SUBSET Chip
    BY <1>1, <2>1, McpInitType DEF InitDevice, TypeOK, chips
  <2> QED BY <1>1, <2>2 DEF InitDevice, TypeOK, Loaded, maps
<1>2. ASSUME NEW d \in DevID, ApplyToDevice(d) PROVE TypeOK'
  <2>1. d \in Loaded
    BY <1>2 DEF ApplyToDevice, TypeOK
  <2>2. health' \in [DevID -> Health] /\ olat' \in [Chip -> SUBSET Pin]
    BY <1>2, <2>1, ApplyNextStateType DEF ApplyToDevice
  <2> QED BY <1>2, <2>2 DEF ApplyToDevice, TypeOK, Loaded, maps, history
<1>3. ASSUME NEW list \in OnLists, ProcessOnState(list) PROVE TypeOK'
  <2>1. nextState' \in [DevID -> SUBSET Pin] /\ onList' \in Seq(Name) /\ it' \in Nat \ {0}
    BY <1>3, ConfigAssumption DEF ProcessOnState
  <2>2. pc' \in {"load", "init", "walk", "apply", "requests"} /\ late' \in BOOLEAN
    BY <1>3 DEF ProcessOnState
  <2>3. UNCHANGED <<maps, i2cfd, health, todo, schHealth, overall, chips, bus, document, failedAt>>
    BY <1>3 DEF ProcessOnState
  <2> QED BY <2>1, <2>2, <2>3 DEF TypeOK, Loaded, maps, chips
<1>4. CASE WalkOnList
  BY <1>4, UpdateStateToOnType DEF WalkOnList, TypeOK, Loaded, maps, chips, history
<1>5. CASE WalkEnds
  BY <1>5 DEF WalkEnds, TypeOK, Loaded, maps, devices, chips, history
<1>6. CASE UpdateOverallHealth \/ Request
  BY <1>6 DEF UpdateOverallHealth, Request, SendComponentHealthPacket, ScheduleUpdate,
              AccumulateHealth, TypeOK, Loaded, maps, devices, chips
<1>7. CASE Restart
  <2>1. FreshProcess(deviceMap', switchMap', mgrHealth', i2cfd', health', nextState', pc',
                     todo', onList', it', schHealth', overall')
    BY <1>7 DEF Restart
  <2>2. /\ document' = NoDocument /\ failedAt' = {} /\ late' = FALSE
        /\ UNCHANGED <<chips, bus>>
    BY <1>7 DEF Restart
  <2>3. MapsType' /\ DevicesType' /\ LoopType'
    BY <2>1, FreshType DEF MapsType, DevicesType, LoopType, Loaded
  <2> QED BY <2>2, <2>3 DEF MapsType, DevicesType, LoopType, TypeOK, chips
<1>8. ASSUME NEW c \in Chip, BusChanges(c) PROVE TypeOK'
  BY <1>8 DEF BusChanges, TypeOK, Loaded, maps, devices, chips, history
<1>9. CASE UNCHANGED vars
  BY <1>9 DEF vars, TypeOK, Loaded, maps, devices, chips, history
<1> QED BY <1>0, <1>1, <1>2, <1>3, <1>4, <1>5, <1>6, <1>7, <1>8, <1>9 DEF Next, Step

\* No configuration, no run of the daemon and no failure of a transfer takes a
\* variable out of its type; in particular a "dev-param" that is out of range or
\* no number never puts a bit that is no pin into a register.
THEOREM ManagerTypeOK == Spec => []TypeOK
<1>1. Init => TypeOK
  <2> SUFFICES ASSUME Init PROVE TypeOK
    OBVIOUS
  <2>1. MapsType /\ DevicesType /\ LoopType
    BY FreshType DEF Init, MapsType, DevicesType, LoopType, Loaded
  <2>2. olat \in [Chip -> SUBSET Pin] /\ iodir \in [Chip -> {"in", "out"}]
    BY DEF Init
  <2>3. bus \in [Chip -> {"good", "flaky"}] /\ document \in Config \cup {NoDocument}
    BY DEF Init
  <2>4. failedAt \in SUBSET Chip /\ late \in BOOLEAN
    BY DEF Init
  <2> QED BY <2>1, <2>2, <2>3, <2>4 DEF MapsType, DevicesType, LoopType, TypeOK
<1> QED BY <1>1, TypeStep, PTL DEF Spec

(***************************************************************************)
(* The maps and the document.                                              *)
(***************************************************************************)
MapsLoaded ==
  \/ document = NoDocument /\ deviceMap = <<>> /\ switchMap = <<>>
  \/ /\ document \in Config
     /\ deviceMap = Inserted(document.devList, Created(document.devList), "id")
     /\ switchMap = Inserted(document.switchList, DOMAIN document.switchList, "swid")

LEMMA MapsStep == MapsLoaded /\ [Next]_vars => MapsLoaded'
<1> SUFFICES ASSUME MapsLoaded, [Next]_vars PROVE MapsLoaded'
  OBVIOUS
<1>1. ASSUME NEW doc \in Config, LoadDone(doc) PROVE MapsLoaded'
  BY <1>1 DEF LoadDone, MapsLoaded
<1>2. ASSUME UNCHANGED <<document, deviceMap, switchMap>> PROVE MapsLoaded'
  BY <1>2 DEF MapsLoaded
<1>3. CASE Restart
  BY <1>3 DEF Restart, FreshProcess, MapsLoaded
<1>4. CASE LoadConfiguration
  BY <1>1, <1>2, <1>4 DEF LoadConfiguration, LoadFailed
<1> QED BY <1>2, <1>3, <1>4
        DEF Next, Step, Request, InitDevice, ApplyToDevice, ProcessOnState, WalkOnList,
            WalkEnds, UpdateOverallHealth, SendComponentHealthPacket, ScheduleUpdate,
            BusChanges, maps, history, vars

\* The maps describe a device as the document does.
LEMMA DescribedIsLoaded ==
  ASSUME MapsLoaded, document # NoDocument, NEW d, NEW c
  PROVE  Describes(d, c) <=> d \in Loaded /\ Supported(d) /\ ChipOf(d) = c
<1> DEFINE list == document.devList
           at == Created(list)
<1>1. list \in Seq(DeviceObject) /\ at \in SUBSET DOMAIN list /\ DOMAIN list \subseteq Nat
  BY ConfigAssumption DEF MapsLoaded, Created
<1>2. deviceMap = Inserted(list, at, "id")
  BY DEF MapsLoaded
<1>3. /\ Loaded = {list[i].id : i \in at}
      /\ \A k \in Loaded : \E i \in at :
           /\ list[i].id = k /\ deviceMap[k] = list[i]
           /\ \A j \in at : list[j].id = k => i <= j
  <2>1. FirstOfEach(deviceMap, list, at, "id")
    <3> HIDE DEF list, at
    <3> QED BY <1>1, <1>2, InsertedDevices
  <2> HIDE DEF list, at
  <2> QED BY <2>1 DEF FirstOfEach, Loaded
<1>4. \A k : FirstDevice(k) <=>
        k \in at /\ \A j \in 1 .. k - 1 : j \in at => list[j].id # list[k].id
  BY DEF FirstDevice
<1>5. Describes(d, c) <=> \E k \in DOMAIN list :
        FirstDevice(k) /\ list[k].id = d /\ list[k].model = "mcp23008" /\ list[k].chip = c
  BY DEF Describes
<1>6. \A j \in DOMAIN list : 1 <= j
  BY <1>1
<1> HIDE DEF list, at
<1>7. ASSUME Describes(d, c) PROVE d \in Loaded /\ Supported(d) /\ ChipOf(d) = c
  <2>1. PICK k \in at : /\ list[k].id = d /\ list[k].model = "mcp23008" /\ list[k].chip = c
                        /\ \A j \in 1 .. k - 1 : j \in at => list[j].id # list[k].id
    BY <1>4, <1>5, <1>7
  <2>2. d \in Loaded
    BY <1>3, <2>1
  <2>3. PICK i \in at : /\ list[i].id = d /\ deviceMap[d] = list[i]
                        /\ \A j \in at : list[j].id = d => i <= j
    BY <1>3, <2>2
  <2>4. i <= k /\ i \in Nat /\ k \in Nat /\ 1 <= i
    BY <1>1, <1>6, <2>1, <2>3
  <2>5. ~(i <= k - 1)
    BY <2>1, <2>3, <2>4
  <2>6. i = k
    BY <2>4, <2>5
  <2> QED BY <2>1, <2>2, <2>3, <2>6 DEF Supported, ChipOf
<1>8. ASSUME d \in Loaded, Supported(d), ChipOf(d) = c PROVE Describes(d, c)
  <2>1. PICK i \in at : /\ list[i].id = d /\ deviceMap[d] = list[i]
                        /\ \A j \in at : list[j].id = d => i <= j
    BY <1>3, <1>8
  <2>2. \A j \in 1 .. i - 1 : j \in at => list[j].id # list[i].id
    BY <1>1, <2>1
  <2> QED BY <1>1, <1>4, <1>5, <1>8, <2>1, <2>2 DEF Supported, ChipOf
<1> QED BY <1>7, <1>8

\* So do they a switch.
LEMMA FirstIsFound ==
  ASSUME MapsLoaded, document # NoDocument
  PROVE  /\ \A n \in DOMAIN document.switchList :
              FirstSwitch(n) =>
                /\ document.switchList[n].swid \in DOMAIN switchMap
                /\ switchMap[document.switchList[n].swid] = document.switchList[n]
         /\ \A sw \in DOMAIN switchMap : \E n \in DOMAIN document.switchList :
              /\ FirstSwitch(n)
              /\ document.switchList[n].swid = sw
              /\ switchMap[sw] = document.switchList[n]
<1> DEFINE list == document.switchList
           at == DOMAIN list
<1>1. list \in Seq(SwitchObject) /\ at \subseteq Nat /\ \A j \in at : 1 <= j
  BY ConfigAssumption DEF MapsLoaded
<1>2. switchMap = Inserted(list, at, "swid")
  BY DEF MapsLoaded
<1>3. \A n : FirstSwitch(n) <=> \A j \in 1 .. n - 1 : list[j].swid # list[n].swid
  BY DEF FirstSwitch
<1>4. /\ DOMAIN switchMap = {list[i].swid : i \in at}
      /\ \A k \in DOMAIN switchMap : \E i \in at :
           /\ list[i].swid = k /\ switchMap[k] = list[i]
           /\ \A j \in at : list[j].swid = k => i <= j
  <2>1. at \in SUBSET DOMAIN list
    OBVIOUS
  <2>2. FirstOfEach(switchMap, list, at, "swid")
    <3> HIDE DEF list, at
    <3> QED BY <1>1, <1>2, <2>1, InsertedSwitches
  <2> HIDE DEF list, at
  <2> QED BY <2>2 DEF FirstOfEach
<1>5. \A n \in at : \A j \in 1 .. n - 1 : j \in at
  BY <1>1
<1> HIDE DEF list, at
<1>6. ASSUME NEW n \in at, FirstSwitch(n)
      PROVE  list[n].swid \in DOMAIN switchMap /\ switchMap[list[n].swid] = list[n]
  <2>1. list[n].swid \in DOMAIN switchMap
    BY <1>4
  <2>2. PICK i \in at : /\ list[i].swid = list[n].swid /\ switchMap[list[n].swid] = list[i]
                        /\ \A j \in at : list[j].swid = list[n].swid => i <= j
    BY <1>4, <2>1
  <2>3. i <= n /\ i \in Nat /\ n \in Nat /\ 1 <= i
    BY <1>1, <2>2
  <2>4. ~(i <= n - 1)
    BY <1>3, <1>6, <2>2, <2>3
  <2>5. i = n
    BY <2>3, <2>4
  <2> QED BY <2>1, <2>2, <2>5
<1>7. ASSUME NEW sw \in DOMAIN switchMap
      PROVE  \E n \in at : FirstSwitch(n) /\ list[n].swid = sw /\ switchMap[sw] = list[n]
  <2>1. PICK i \in at : /\ list[i].swid = sw /\ switchMap[sw] = list[i]
                        /\ \A j \in at : list[j].swid = sw => i <= j
    BY <1>4
  <2>2. FirstSwitch(i)
    BY <1>1, <1>3, <1>5, <2>1
  <2> QED BY <2>1, <2>2
<1> QED BY <1>6, <1>7 DEF list, at

\* The pins of d that the first n switches of the list name, by the maps.
Named(d, n) ==
  {PinOf(onList[i]) : i \in {j \in 1 .. n : Switches(onList[j], d)}}

Wanted(d) == Named(d, Len(onList))

\* What processOnState collects by way of the maps is what the document asks.
LEMMA AskedIsWanted ==
  ASSUME TypeOK, MapsLoaded, NEW d \in Loaded
  PROVE  Asked(d, ChipOf(d)) = Wanted(d)
<1>0. document # NoDocument
  <2>1. deviceMap # <<>>
    BY DEF Loaded
  <2> QED BY <2>1, ConfigAssumption DEF MapsLoaded
<1>1. DOMAIN onList = 1 .. Len(onList)
  BY DEF TypeOK
<1>2. Describes(d, ChipOf(d)) <=> Supported(d)
  BY <1>0, DescribedIsLoaded
<1>3. CASE ~Supported(d)
  <2>1. Asked(d, ChipOf(d)) = {}
    BY <1>2, <1>3 DEF Asked
  <2>2. Wanted(d) = {}
    BY <1>3 DEF Wanted, Named, Switches
  <2> QED BY <2>1, <2>2
<1>4. CASE Supported(d)
  <2>0. Asked(d, ChipOf(d)) =
          {p \in Pin : \E n \in DOMAIN document.switchList :
             /\ FirstSwitch(n)
             /\ \E i \in DOMAIN onList : onList[i] = document.switchList[n].swid
             /\ document.switchList[n].dev = d
             /\ PinNumber(document.switchList[n].param) = p}
    BY <1>0, <1>2, <1>4 DEF Asked
  <2>1. ASSUME NEW p \in Asked(d, ChipOf(d)) PROVE p \in Wanted(d)
    <3>1. PICK n \in DOMAIN document.switchList :
            /\ FirstSwitch(n)
            /\ \E i \in DOMAIN onList : onList[i] = document.switchList[n].swid
            /\ document.switchList[n].dev = d
            /\ PinNumber(document.switchList[n].param) = p
      BY <2>0, <2>1
    <3>2. PICK i \in 1 .. Len(onList) : onList[i] = document.switchList[n].swid
      BY <1>1, <3>1
    <3>3. onList[i] \in DOMAIN switchMap /\ switchMap[onList[i]] = document.switchList[n]
      BY <1>0, <3>1, <3>2, FirstIsFound
    <3>4. PinOf(onList[i]) = p /\ p \in Pin
      BY <2>0, <2>1, <3>1, <3>3 DEF PinOf
    <3>5. Switches(onList[i], d)
      BY <1>4, <3>1, <3>3, <3>4 DEF Switches
    <3> QED BY <3>4, <3>5 DEF Wanted, Named
  <2>2. ASSUME NEW p \in Wanted(d) PROVE p \in Asked(d, ChipOf(d))
    <3>1. PICK i \in 1 .. Len(onList) : Switches(onList[i], d) /\ PinOf(onList[i]) = p
      BY <2>2 DEF Wanted, Named
    <3>2. /\ onList[i] \in DOMAIN switchMap /\ switchMap[onList[i]].dev = d
          /\ p \in Pin
      BY <3>1 DEF Switches
    <3>3. PICK n \in DOMAIN document.switchList :
            /\ FirstSwitch(n)
            /\ document.switchList[n].swid = onList[i]
            /\ switchMap[onList[i]] = document.switchList[n]
      BY <1>0, <3>2, FirstIsFound
    <3>4. PinNumber(document.switchList[n].param) = p /\ document.switchList[n].dev = d
      BY <3>1, <3>2, <3>3 DEF PinOf
    <3> QED BY <1>1, <2>0, <3>2, <3>3, <3>4
  <2> QED BY <2>1, <2>2
<1> QED BY <1>3, <1>4

(***************************************************************************)
(* The walk over the list has collected, for each device, the pins of the  *)
(* switches before the iterator.  A loop that has ended leaves nothing to  *)
(* visit.                                                                  *)
(***************************************************************************)
WalkInv ==
  /\ pc = "walk" => it <= Len(onList) + 1 /\ \A d \in DevID : nextState[d] = Named(d, it - 1)
  /\ pc = "apply" => \A d \in DevID : nextState[d] = Wanted(d)
  /\ pc \in {"walk", "requests"} => todo = {}

\* What the list names depends on the list and on the maps alone.
LEMMA SameWanted ==
  ASSUME UNCHANGED <<onList, deviceMap, switchMap>>
  PROVE  \A d : /\ Wanted(d)' = Wanted(d)
                /\ \A n : Named(d, n)' = Named(d, n)
BY DEF Wanted, Named, Switches, PinOf, PinNumber, Loaded, Supported

LEMMA NamedNext ==
  ASSUME TypeOK, it <= Len(onList), NEW d \in DevID, nextState[d] = Named(d, it - 1),
         UpdateStateToOn(onList[it])
  PROVE  nextState'[d] = Named(d, it)
<1> DEFINE Counts(j) == Switches(onList[j], d)
<1>1. /\ it \in Nat \ {0} /\ nextState \in [DevID -> SUBSET Pin]
      /\ it - 1 \in Nat
      /\ \A j : j \in 1 .. it <=> j \in 1 .. (it - 1) \/ j = it
  BY DEF TypeOK
<1>2. CASE Counts(it)
  <2>1. nextState'[d] = nextState[d] \cup {PinOf(onList[it])}
    BY <1>1, <1>2 DEF UpdateStateToOn
  <2>2. Named(d, it) = Named(d, it - 1) \cup {PinOf(onList[it])}
    BY <1>1, <1>2 DEF Named
  <2> QED BY <2>1, <2>2
<1>3. CASE ~Counts(it)
  <2>1. nextState'[d] = nextState[d]
    BY <1>1, <1>3 DEF UpdateStateToOn
  <2>2. Named(d, it) = Named(d, it - 1)
    BY <1>1, <1>3 DEF Named
  <2> QED BY <2>1, <2>2
<1> QED BY <1>2, <1>3

LEMMA WalkStep == TypeOK /\ WalkInv /\ [Next]_vars => WalkInv'
<1> SUFFICES ASSUME TypeOK, WalkInv, [Next]_vars PROVE WalkInv'
  OBVIOUS
<1>1. ASSUME UNCHANGED <<pc, it, nextState, todo, onList, maps>> PROVE WalkInv'
  BY <1>1, SameWanted DEF WalkInv, maps
<1>2. ASSUME NEW list \in OnLists, ProcessOnState(list) PROVE WalkInv'
  <2>1. Len(list) \in Nat
    BY ConfigAssumption
  <2>2. \A d \in DevID : Named(d, 0)' = {}
    BY DEF Named
  <2> QED BY <1>2, <2>1, <2>2 DEF ProcessOnState, WalkInv
<1>3. CASE WalkOnList
  <2>1. \A d \in DevID : nextState'[d] = Named(d, it)
    BY <1>3, NamedNext DEF WalkOnList, WalkInv
  <2>2. it \in Nat /\ it' - 1 = it /\ Len(onList) \in Nat
    BY <1>3 DEF TypeOK, WalkOnList
  <2>3. \A sw, d : Switches(sw, d)' = Switches(sw, d) /\ PinOf(sw)' = PinOf(sw)
    BY <1>3 DEF WalkOnList, maps, Switches, PinOf, PinNumber, Loaded, Supported
  <2>4. it' <= Len(onList') + 1
    BY <1>3, <2>2 DEF WalkOnList
  <2>5. \A d \in DevID : Named(d, it - 1)' = Named(d, it)
    BY <1>3, <2>2, <2>3 DEF WalkOnList, Named
  <2> QED BY <1>3, <2>1, <2>4, <2>5 DEF WalkOnList, WalkInv
<1>4. CASE WalkEnds
  <2>1. it - 1 = Len(onList)
    BY <1>4 DEF WalkEnds, WalkInv, TypeOK
  <2>2. \A d \in DevID : nextState[d] = Wanted(d)
    BY <1>4, <2>1 DEF WalkEnds, WalkInv, Wanted
  <2> QED BY <1>4, <2>2, SameWanted DEF WalkEnds, WalkInv, maps, devices
<1>5. ASSUME NEW d \in DevID, ApplyToDevice(d) PROVE WalkInv'
  BY <1>5, SameWanted DEF ApplyToDevice, WalkInv, maps
<1>6. CASE UpdateOverallHealth
  BY <1>6 DEF UpdateOverallHealth, WalkInv
<1>7. ASSUME pc' \in {"load", "init"} PROVE WalkInv'
  BY <1>7 DEF WalkInv
<1> QED BY <1>1, <1>2, <1>3, <1>4, <1>5, <1>6, <1>7
        DEF Next, Step, Request, LoadConfiguration, InitDevice, SendComponentHealthPacket,
            ScheduleUpdate, Restart, FreshProcess, BusChanges, devices, vars

(***************************************************************************)
(* What a device reported OK drives.  A device whose bus is not open, or   *)
(* is open but not set to the chip, has never been reported OK, so that    *)
(* ApplyNextState may pass it by.                                          *)
(***************************************************************************)
HealthyIsOpen == \A d \in DevID : health[d] = "OK" => i2cfd[d] = "open"

LEMMA OpenStep == TypeOK /\ HealthyIsOpen /\ [Next]_vars => HealthyIsOpen'
<1> SUFFICES ASSUME TypeOK, HealthyIsOpen, [Next]_vars PROVE HealthyIsOpen'
  OBVIOUS
<1> USE DEF TypeOK, HealthyIsOpen
<1>1. ASSUME NEW d \in DevID, InitDevice(d) PROVE HealthyIsOpen'
  <2>1. CASE McpInitSucceeds(d)
    BY <2>1 DEF McpInitSucceeds
  <2>2. CASE McpInitFails(d)
    BY <2>2 DEF McpInitFails
  <2> QED BY <1>1, <2>1, <2>2 DEF InitDevice
<1>2. ASSUME NEW d \in DevID, ApplyToDevice(d) PROVE HealthyIsOpen'
  BY <1>2 DEF ApplyToDevice, ApplyNextState, ReadFails, NoChange, WriteSucceeds, WriteFails
<1>3. CASE Restart
  BY <1>3 DEF Restart, FreshProcess
<1>4. ASSUME UNCHANGED <<i2cfd, health>> PROVE HealthyIsOpen'
  BY <1>4
<1> QED BY <1>1, <1>2, <1>3, <1>4
        DEF Next, Step, Request, LoadConfiguration, ProcessOnState, WalkOnList, WalkEnds,
            UpdateOverallHealth, SendComponentHealthPacket, ScheduleUpdate, BusChanges,
            devices, vars

\* A device that initDevices has yet to come to has not been reported OK.
NotYetHealthy ==
  /\ pc = "load" => \A d \in DevID : health[d] # "OK"
  /\ pc = "init" => \A d \in todo : health[d] # "OK"

LEMMA NotYetStep == TypeOK /\ NotYetHealthy /\ [Next]_vars => NotYetHealthy'
<1> SUFFICES ASSUME TypeOK, NotYetHealthy, [Next]_vars PROVE NotYetHealthy'
  OBVIOUS
<1>1. ASSUME NEW e \in DevID, InitDevice(e) PROVE NotYetHealthy'
  <2>1. \A d \in DevID \ {e} : health'[d] = health[d]
    BY <1>1 DEF InitDevice, McpInitSucceeds, McpInitFails, TypeOK
  <2>2. todo \in SUBSET DevID
    BY DEF TypeOK
  <2> QED BY <1>1, <2>1, <2>2 DEF InitDevice, NotYetHealthy
<1>2. CASE LoadConfiguration
  BY <1>2, LoadType DEF LoadConfiguration, NotYetHealthy, MapsType, Loaded, devices
<1>3. CASE Restart
  BY <1>3 DEF Restart, FreshProcess, NotYetHealthy
<1>4. ASSUME pc' \notin {"load", "init"} PROVE NotYetHealthy'
  BY <1>4 DEF NotYetHealthy
<1>5. ASSUME UNCHANGED <<pc, todo, health>> PROVE NotYetHealthy'
  BY <1>5 DEF NotYetHealthy
<1> QED BY <1>1, <1>2, <1>3, <1>4, <1>5
        DEF Next, Step, Request, ApplyToDevice, ProcessOnState, WalkOnList, WalkEnds,
            UpdateOverallHealth, SendComponentHealthPacket, ScheduleUpdate, BusChanges,
            devices, vars

\* An expander with a device that was set up is inbound for a failure only.
InboundHasFailed ==
  /\ pc = "load" => \A d \in DevID : i2cfd[d] = "closed"
  /\ \A d \in Loaded :
       i2cfd[d] # "closed" => iodir[ChipOf(d)] = "out" \/ ChipOf(d) \in failedAt

LEMMA InboundStep == TypeOK /\ InboundHasFailed /\ [Next]_vars => InboundHasFailed'
<1> SUFFICES ASSUME TypeOK, InboundHasFailed, [Next]_vars PROVE InboundHasFailed'
  OBVIOUS
<1>1. ASSUME NEW e \in DevID, InitDevice(e) PROVE InboundHasFailed'
  <2>0. /\ Loaded' = Loaded /\ \A d : ChipOf(d)' = ChipOf(d)
        /\ e \in Loaded /\ ChipOf(e) \in Chip /\ pc' = "init"
    BY <1>1, ChipType DEF InitDevice, TypeOK, maps, Loaded, ChipOf
  <2>1. CASE UNCHANGED <<i2cfd, chips, failedAt>>
    BY <2>0, <2>1 DEF InboundHasFailed, chips
  <2>2. CASE McpInitSucceeds(e)
    <3>1. \A d \in Loaded : ChipOf(d) = ChipOf(e) => iodir'[ChipOf(d)] = "out"
      BY <2>0, <2>2 DEF McpInitSucceeds, TypeOK
    <3>2. \A d \in Loaded : ChipOf(d) # ChipOf(e) =>
            i2cfd'[d] = i2cfd[d] /\ iodir'[ChipOf(d)] = iodir[ChipOf(d)]
      BY <2>0, <2>2, ChipType DEF McpInitSucceeds, TypeOK
    <3>3. failedAt' = failedAt
      BY <2>2 DEF McpInitSucceeds
    <3> QED BY <2>0, <3>1, <3>2, <3>3 DEF InboundHasFailed
  <2>3. CASE McpInitFails(e)
    <3>1. ChipOf(e) \in failedAt' /\ failedAt \subseteq failedAt'
      BY <2>3 DEF McpInitFails
    <3>2. \A d \in Loaded : ChipOf(d) # ChipOf(e) =>
            i2cfd'[d] = i2cfd[d] /\ iodir'[ChipOf(d)] = iodir[ChipOf(d)]
      BY <2>0, <2>3, ChipType DEF McpInitFails, TypeOK, chips
    <3> QED BY <2>0, <3>1, <3>2 DEF InboundHasFailed
  <2> QED BY <1>1, <2>1, <2>2, <2>3 DEF InitDevice
<1>2. CASE LoadConfiguration
  <2>1. \A d \in Loaded' : i2cfd'[d] = "closed"
    BY <1>2, LoadType DEF LoadConfiguration, InboundHasFailed, MapsType, devices
  <2> QED BY <1>2, <2>1 DEF LoadConfiguration, InboundHasFailed
<1>3. CASE Restart
  BY <1>3 DEF Restart, FreshProcess, InboundHasFailed, Loaded
<1>4. ASSUME UNCHANGED <<deviceMap, i2cfd, iodir, failedAt>>, pc' = "load" => pc = "load"
      PROVE  InboundHasFailed'
  BY <1>4 DEF InboundHasFailed, Loaded, ChipOf
<1> QED BY <1>1, <1>2, <1>3, <1>4
        DEF Next, Step, Request, ApplyToDevice, ProcessOnState, WalkOnList, WalkEnds,
            UpdateOverallHealth, SendComponentHealthPacket, ScheduleUpdate, BusChanges,
            maps, devices, chips, history, vars

LEMMA ApplyEffect ==
  ASSUME TypeOK, WalkInv, NEW e \in DevID, ApplyToDevice(e)
  PROVE  /\ e \in Loaded /\ nextState[e] = Wanted(e)
         /\ UNCHANGED <<maps, onList, i2cfd, iodir, document, failedAt>>
         /\ todo' = todo \ {e} /\ pc = "apply" /\ pc' = "apply"
         /\ \A d \in DevID \ {e} : health'[d] = health[d]
         /\ \A c \in Chip \ {ChipOf(e)} : olat'[c] = olat[c]
         /\ olat'[ChipOf(e)] \in {olat[ChipOf(e)], nextState[e]}
         /\ i2cfd[e] # "closed" /\ health'[e] = "OK" /\ iodir[ChipOf(e)] = "out"
              => olat'[ChipOf(e)] = nextState[e]
         /\ i2cfd[e] = "closed" => health'[e] = health[e]
<1>1. e \in Loaded /\ nextState[e] = Wanted(e)
  BY DEF ApplyToDevice, WalkInv, TypeOK
<1>2. /\ UNCHANGED <<maps, onList, i2cfd, iodir, document, failedAt>>
      /\ todo' = todo \ {e} /\ pc = "apply" /\ pc' = "apply"
  BY DEF ApplyToDevice, history
<1>3. ApplyNextState(e) /\ ChipOf(e) \in Chip
  BY <1>1, ChipType DEF ApplyToDevice
<1>4. /\ \A d \in DevID \ {e} : health'[d] = health[d]
      /\ i2cfd[e] = "closed" => health'[e] = health[e]
  BY <1>3 DEF TypeOK, ApplyNextState, ReadFails, NoChange, WriteSucceeds, WriteFails
<1>5. /\ \A c \in Chip \ {ChipOf(e)} : olat'[c] = olat[c]
      /\ olat'[ChipOf(e)] \in {olat[ChipOf(e)], nextState[e]}
  BY <1>3 DEF TypeOK, ApplyNextState, ReadFails, NoChange, WriteSucceeds, WriteFails,
              AfterFailedWrite
<1>6. ASSUME i2cfd[e] # "closed", health'[e] = "OK", iodir[ChipOf(e)] = "out"
      PROVE  olat'[ChipOf(e)] = nextState[e]
  BY <1>3, <1>6 DEF TypeOK, ApplyNextState, ReadFails, NoChange, WriteSucceeds, WriteFails,
                    PortState
<1> QED BY <1>1, <1>2, <1>4, <1>5, <1>6

\* What is asked depends on the document and the list alone.
LEMMA SameAsked ==
  ASSUME UNCHANGED <<document, onList>>
  PROVE  \A d, c : Asked(d, c)' = Asked(d, c)
BY DEF Asked, Describes, FirstDevice, FirstSwitch

\* What an expander drives, and should, depends on it, the list and the document.
LEMMA SameDrives ==
  ASSUME NEW d \in Loaded, UNCHANGED <<onList, maps, document, failedAt>>,
         olat'[ChipOf(d)] = olat[ChipOf(d)], iodir'[ChipOf(d)] = iodir[ChipOf(d)]
  PROVE  DrivesAsked(d)' = DrivesAsked(d)
<1>1. /\ ChipOf(d)' = ChipOf(d)
      /\ Asked(d, ChipOf(d))' = Asked(d, ChipOf(d))
  BY SameAsked DEF maps, ChipOf
<1>2. Driven(ChipOf(d))' = Driven(ChipOf(d)) /\ iodir[ChipOf(d)]' = iodir[ChipOf(d)]
  BY <1>1 DEF Driven
<1> QED BY <1>1, <1>2 DEF DrivesAsked

LEMMA DrivesStep ==
  TypeOK /\ MapsLoaded /\ WalkInv /\ HealthyIsOpen /\ InboundHasFailed
         /\ HealthyMatchesList /\ [Next]_vars
    => HealthyMatchesList'
<1> SUFFICES ASSUME TypeOK, MapsLoaded, WalkInv, HealthyIsOpen, InboundHasFailed,
                    HealthyMatchesList, [Next]_vars
             PROVE  HealthyMatchesList'
  OBVIOUS
<1>1. ASSUME NEW e \in DevID, ApplyToDevice(e) PROVE HealthyMatchesList'
  <2>0. /\ Loaded' = Loaded /\ \A d : ChipOf(d)' = ChipOf(d)
        /\ UNCHANGED <<onList, maps, document, failedAt, iodir, i2cfd>>
        /\ e \in Loaded /\ ChipOf(e) \in Chip
        /\ todo' = todo \ {e} /\ pc = "apply"
    BY <1>1, ApplyEffect, ChipType DEF maps, Loaded, ChipOf
  <2> SUFFICES ASSUME NEW c \in Chip,
                      \E d \in Loaded \ todo' : ChipOf(d) = c,
                      \A d \in Loaded \ todo' : ChipOf(d) = c => health'[d] = "OK"
               PROVE  \E d \in Loaded \ todo' : ChipOf(d) = c /\ DrivesAsked(d)'
    BY <2>0 DEF HealthyMatchesList
  <2>1. CASE c = ChipOf(e)
    <3>1. e \in Loaded \ todo' /\ health'[e] = "OK"
      BY <2>0, <2>1
    <3>2. i2cfd[e] # "closed"
      BY <1>1, <3>1, ApplyEffect DEF HealthyIsOpen
    <3>3. CASE iodir[c] = "out"
      <4>1. olat'[c] = Wanted(e)
        BY <1>1, <2>1, <3>1, <3>2, <3>3, ApplyEffect
      <4>2. Wanted(e) = Asked(e, c)
        BY <2>0, <2>1, AskedIsWanted
      <4>3. Driven(c)' = Asked(e, c)
        BY <2>0, <3>3, <4>1, <4>2 DEF Driven
      <4>4. Asked(e, ChipOf(e))' = Asked(e, c) /\ Driven(ChipOf(e))' = Driven(c)'
        BY <2>0, <2>1, SameAsked DEF Driven
      <4> QED BY <2>1, <3>1, <4>3, <4>4 DEF DrivesAsked
    <3>4. CASE iodir[c] # "out"
      <4>1. iodir[c] = "in" /\ c \in failedAt
        BY <2>0, <2>1, <3>2, <3>4 DEF InboundHasFailed, TypeOK
      <4>2. (iodir[ChipOf(e)] = "in" /\ ChipOf(e) \in failedAt)'
        BY <2>0, <2>1, <4>1
      <4> QED BY <2>1, <3>1, <4>2 DEF DrivesAsked
    <3> QED BY <3>3, <3>4
  <2>2. CASE c # ChipOf(e)
    <3>1. \A d \in Loaded : ChipOf(d) = c =>
            /\ d \in todo' <=> d \in todo
            /\ health'[d] = health[d]
            /\ DrivesAsked(d)' = DrivesAsked(d)
      <4> SUFFICES ASSUME NEW d \in Loaded, ChipOf(d) = c
                   PROVE  /\ d \in todo' <=> d \in todo
                          /\ health'[d] = health[d]
                          /\ DrivesAsked(d)' = DrivesAsked(d)
        OBVIOUS
      <4>1. d \in DevID \ {e}
        BY <2>2, ChipType
      <4>2. olat'[ChipOf(d)] = olat[ChipOf(d)] /\ health'[d] = health[d]
        BY <1>1, <2>2, <4>1, ApplyEffect
      <4> QED BY <2>0, <4>1, <4>2, SameDrives
    <3>2. PICK d \in Loaded \ todo : ChipOf(d) = c /\ DrivesAsked(d)
      BY <2>0, <3>1 DEF HealthyMatchesList
    <3> QED BY <3>1, <3>2
  <2> QED BY <2>1, <2>2
<1>2. ASSUME pc' \notin {"apply", "requests"} PROVE HealthyMatchesList'
  BY <1>2 DEF HealthyMatchesList
<1>3. CASE WalkEnds
  BY <1>3 DEF WalkEnds, HealthyMatchesList, Loaded, maps
<1>4. ASSUME UNCHANGED <<maps, todo, health, onList, chips, document, failedAt>>,
             pc' \in {"apply", "requests"} => pc \in {"apply", "requests"}
      PROVE  HealthyMatchesList'
  <2>1. /\ Loaded' = Loaded
        /\ \A d \in Loaded : ChipOf(d)' = ChipOf(d) /\ DrivesAsked(d)' = DrivesAsked(d)
    BY <1>4, SameDrives DEF maps, chips, Loaded, ChipOf
  <2> QED BY <1>4, <2>1 DEF HealthyMatchesList
<1> QED BY <1>1, <1>2, <1>3, <1>4
        DEF Next, Step, Request, LoadConfiguration, InitDevice, ProcessOnState, WalkOnList,
            UpdateOverallHealth, SendComponentHealthPacket, ScheduleUpdate, Restart,
            FreshProcess, BusChanges, devices, history, vars

LEMMA StartStep == TypeOK /\ NotYetHealthy /\ HealthyStartsOff /\ [Next]_vars => HealthyStartsOff'
<1> SUFFICES ASSUME TypeOK, NotYetHealthy, HealthyStartsOff, [Next]_vars PROVE HealthyStartsOff'
  OBVIOUS
<1>1. ASSUME NEW e \in DevID, InitDevice(e) PROVE HealthyStartsOff'
  <2>0. /\ Loaded' = Loaded /\ \A d : ChipOf(d)' = ChipOf(d)
        /\ e \in Loaded /\ ChipOf(e) \in Chip /\ pc = "init" /\ todo' = todo \ {e}
    BY <1>1, ChipType DEF InitDevice, TypeOK, maps, Loaded, ChipOf
  <2> SUFFICES ASSUME NEW d \in Loaded, d \notin todo', health'[d] = "OK", Alone(d)'
               PROVE  iodir'[ChipOf(d)] = "out" /\ olat'[ChipOf(d)] = {}
    BY <2>0 DEF HealthyStartsOff
  <2>1. Alone(d) /\ d \in DevID /\ ChipOf(d) \in Chip
    BY <2>0, ChipType DEF Alone
  <2>2. CASE d = e /\ McpInitSucceeds(e)
    BY <2>0, <2>2 DEF McpInitSucceeds, TypeOK
  <2>3. CASE d # e \/ ~ Supported(e)
    <3>1. \/ health' = health /\ UNCHANGED chips
          \/ McpInitSucceeds(e) /\ d # e
          \/ McpInitFails(e) /\ d # e
      BY <1>1, <2>3 DEF InitDevice
    <3>2. d # e => ChipOf(d) # ChipOf(e)
      BY <2>0, <2>1 DEF Alone
    <3>3. /\ health'[d] = health[d]
          /\ olat'[ChipOf(d)] = olat[ChipOf(d)] /\ iodir'[ChipOf(d)] = iodir[ChipOf(d)]
      BY <2>0, <2>1, <3>1, <3>2 DEF McpInitSucceeds, McpInitFails, TypeOK, chips
    <3>4. d \notin todo
      BY <2>0, <3>3 DEF NotYetHealthy
    <3> QED BY <2>0, <2>1, <3>3, <3>4 DEF HealthyStartsOff
  <2>4. CASE d = e /\ McpInitFails(e)
    BY <2>1, <2>4 DEF McpInitFails, TypeOK
  <2> QED BY <1>1, <2>2, <2>3, <2>4 DEF InitDevice
<1>2. ASSUME pc' # "init" PROVE HealthyStartsOff'
  BY <1>2 DEF HealthyStartsOff
<1>3. CASE LoadConfiguration
  BY <1>3 DEF LoadConfiguration, HealthyStartsOff, Loaded
<1>4. ASSUME UNCHANGED <<maps, pc, todo, health, chips>> PROVE HealthyStartsOff'
  BY <1>4 DEF HealthyStartsOff, Alone, Loaded, ChipOf, maps, chips
<1> QED BY <1>1, <1>2, <1>3, <1>4
        DEF Next, Step, Request, ApplyToDevice, ProcessOnState, WalkOnList, WalkEnds,
            UpdateOverallHealth, SendComponentHealthPacket, ScheduleUpdate, Restart,
            FreshProcess, BusChanges, devices, vars

(***************************************************************************)
(* The overall health is of the turn whose list was last dealt with.       *)
(***************************************************************************)
OverallIsOfParts ==
  pc = "requests" /\ overall = "OK" =>
    /\ mgrHealth = "OK"
    /\ schHealth = "OK" \/ late
    /\ \A d \in Loaded : health[d] = "OK"

LEMMA OverallStep == OverallIsOfParts /\ [Next]_vars => OverallIsOfParts'
<1> SUFFICES ASSUME OverallIsOfParts, [Next]_vars PROVE OverallIsOfParts'
  OBVIOUS
<1>1. CASE UpdateOverallHealth \/ SendComponentHealthPacket
  <2>1. overall' = "OK" => {schHealth, mgrHealth} \cup {health[d] : d \in Loaded} = {"OK"}
    BY <1>1 DEF UpdateOverallHealth, SendComponentHealthPacket, AccumulateHealth,
                SubcomponentFails
  <2>2. overall' = "OK" =>
          mgrHealth = "OK" /\ schHealth = "OK" /\ \A d \in Loaded : health[d] = "OK"
    BY <2>1
  <2>3. UNCHANGED <<maps, devices, schHealth>> /\ Loaded' = Loaded
    BY <1>1 DEF UpdateOverallHealth, SendComponentHealthPacket, maps, Loaded
  <2> QED BY <2>2, <2>3 DEF OverallIsOfParts, maps, devices
<1>2. ASSUME pc' # "requests" PROVE OverallIsOfParts'
  BY <1>2 DEF OverallIsOfParts
<1>3. ASSUME UNCHANGED <<pc, overall, maps, devices>>,
             late' \/ UNCHANGED <<schHealth, late>>
      PROVE  OverallIsOfParts'
  BY <1>3 DEF OverallIsOfParts, maps, devices, Loaded
<1> QED BY <1>1, <1>2, <1>3
        DEF Next, Step, Request, LoadConfiguration, InitDevice, ApplyToDevice, ProcessOnState,
            WalkOnList, WalkEnds, ScheduleUpdate, Restart, FreshProcess, BusChanges,
            history, vars

ManagerIInv ==
  /\ MapsLoaded /\ WalkInv /\ HealthyIsOpen /\ NotYetHealthy /\ InboundHasFailed
  /\ OverallIsOfParts /\ HealthyMatchesList /\ HealthyStartsOff

LEMMA ManagerInv == Spec => []ManagerIInv
<1>1. Init => ManagerIInv
  BY DEF Init, FreshProcess, ManagerIInv, MapsLoaded, WalkInv, HealthyIsOpen, NotYetHealthy,
         InboundHasFailed, OverallIsOfParts, HealthyMatchesList, HealthyStartsOff, Loaded
<1>2. TypeOK /\ ManagerIInv /\ [Next]_vars => ManagerIInv'
  BY MapsStep, WalkStep, OpenStep, NotYetStep, InboundStep, OverallStep, DrivesStep,
     StartStep DEF ManagerIInv
<1> QED BY <1>1, <1>2, ManagerTypeOK, PTL DEF Spec

\* For every document, list and failure: an expander whose devices processOnState
\* leaves reported OK drives what the document and the list ask of one of them,
\* or nothing where a failed set-up of this run has left its pins inbound.
THEOREM ManagerHealthyMatchesList == Spec => []HealthyMatchesList
BY ManagerInv, PTL DEF ManagerIInv

\* The outputs a daemon that died left on are off before a device is first
\* reported OK.
THEOREM ManagerHealthyStartsOff == Spec => []HealthyStartsOff
BY ManagerInv, PTL DEF ManagerIInv

\* An overall health of OK means that every configured device was set up, that
\* the schedule was loaded unless another came after the sum, and that each
\* expander drives what is asked, or nothing where a failed set-up of this run has
\* left its pins inbound.
THEOREM ManagerOverallMeansDriven == Spec => []OverallMeansDriven
<1>1. TypeOK /\ ManagerIInv => OverallMeansDriven
  <2> SUFFICES ASSUME TypeOK, ManagerIInv, pc = "requests", overall = "OK"
               PROVE  /\ mgrHealth = "OK" /\ (schHealth = "OK" \/ late)
                      /\ \A d \in Loaded :
                           /\ i2cfd[d] = "open"
                           /\ \E e \in Loaded : ChipOf(e) = ChipOf(d) /\ DrivesAsked(e)
    BY DEF OverallMeansDriven
  <2>1. /\ mgrHealth = "OK" /\ (schHealth = "OK" \/ late) /\ todo = {}
        /\ \A d \in Loaded : health[d] = "OK"
    BY DEF ManagerIInv, OverallIsOfParts, WalkInv
  <2>2. ASSUME NEW d \in Loaded
        PROVE  i2cfd[d] = "open" /\ \E e \in Loaded : ChipOf(e) = ChipOf(d) /\ DrivesAsked(e)
    <3>1. d \in DevID /\ ChipOf(d) \in Chip
      BY ChipType
    <3>2. i2cfd[d] = "open"
      BY <2>1, <3>1 DEF ManagerIInv, HealthyIsOpen
    <3>3. \E e \in {x \in Loaded \ todo : ChipOf(x) = ChipOf(d)} : DrivesAsked(e)
      BY <2>1, <3>1 DEF ManagerIInv, HealthyMatchesList
    <3> QED BY <3>2, <3>3
  <2> QED BY <2>1, <2>2
<1> QED BY <1>1, ManagerTypeOK, ManagerInv, PTL

(***************************************************************************)
(* No step raises a pin nobody asked for.                                  *)
(***************************************************************************)
\* While an expander is set up no pin goes high, at whatever transfer it fails.
LEMMA InitNeverRaises ==
  ASSUME TypeOK, NEW e \in Loaded, McpInitSucceeds(e) \/ McpInitFails(e), NEW c \in Chip
  PROVE  Driven(c)' \subseteq Driven(c)
<1>0. ChipOf(e) \in Chip
  BY ChipType
<1>1. CASE McpInitSucceeds(e)
  BY <1>0, <1>1 DEF TypeOK, McpInitSucceeds, Driven
<1>2. CASE McpInitFails(e)
  <2>1. CASE UNCHANGED chips
    BY <2>1 DEF chips, Driven
  <2>2. CASE \E half \in HalfInitialised(ChipOf(e)) :
               /\ olat' = [olat EXCEPT ![ChipOf(e)] = half[1]]
               /\ iodir' = [iodir EXCEPT ![ChipOf(e)] = half[2]]
    <3>1. PICK half \in HalfInitialised(ChipOf(e)) :
               /\ olat' = [olat EXCEPT ![ChipOf(e)] = half[1]]
               /\ iodir' = [iodir EXCEPT ![ChipOf(e)] = half[2]]
      BY <2>2
    <3>2. half[1] = {} \/ (half[1] = olat[ChipOf(e)] /\ half[2] = iodir[ChipOf(e)])
      BY DEF HalfInitialised, AfterFailedWrite
    <3> QED BY <1>0, <3>1, <3>2 DEF TypeOK, Driven
  <2> QED BY <1>2, <2>1, <2>2 DEF McpInitFails
<1> QED BY <1>1, <1>2

\* Set-up, update, failure, restart: no step of the daemon raises a pin that is
\* not, by the document, of a switch in the list it is processing.
THEOREM ManagerRaisesOnlyListed == Spec => RaisesOnlyListed
<1> DEFINE Raises(c) == \A p \in Driven(c)' \ Driven(c) : \E d \in DevID : p \in Asked(d, c)
<1>1. TypeOK /\ MapsLoaded /\ WalkInv /\ [Next]_vars => [\A c \in Chip : Raises(c)]_vars
  <2> SUFFICES ASSUME TypeOK, MapsLoaded, WalkInv, Next, NEW c \in Chip
               PROVE  Raises(c)
    OBVIOUS
  <2>1. ASSUME NEW e \in DevID, InitDevice(e) PROVE Driven(c)' \subseteq Driven(c)
    <3>1. CASE UNCHANGED chips
      BY <3>1 DEF chips, Driven
    <3>2. CASE McpInitSucceeds(e) \/ McpInitFails(e)
      BY <2>1, <3>2, InitNeverRaises DEF InitDevice, TypeOK
    <3> QED BY <2>1, <3>1, <3>2 DEF InitDevice
  <2>2. ASSUME NEW e \in DevID, ApplyToDevice(e) PROVE Raises(c)
    <3>1. CASE c = ChipOf(e)
      <4>1. e \in Loaded /\ nextState[e] = Wanted(e)
        BY <2>2, ApplyEffect
      <4>2. nextState[e] = Asked(e, c)
        BY <3>1, <4>1, AskedIsWanted
      <4>3. Driven(c)' \subseteq Driven(c) \cup nextState[e]
        BY <2>2, <3>1, ApplyEffect DEF Driven
      <4> QED BY <4>2, <4>3
    <3>2. CASE c # ChipOf(e)
      <4>1. Driven(c)' = Driven(c)
        BY <2>2, <3>2, ApplyEffect DEF Driven
      <4> QED BY <4>1
    <3> QED BY <3>1, <3>2
  <2>3. ASSUME UNCHANGED chips PROVE Driven(c)' = Driven(c)
    BY <2>3 DEF chips, Driven
  <2>4. Driven(c)' \subseteq Driven(c) => Raises(c)
    OBVIOUS
  <2> HIDE DEF Raises
  <2> QED BY <2>1, <2>2, <2>3, <2>4
          DEF Next, Step, Request, LoadConfiguration, ProcessOnState, WalkOnList, WalkEnds,
              UpdateOverallHealth, SendComponentHealthPacket, ScheduleUpdate, Restart, BusChanges
<1> QED BY <1>1, ManagerTypeOK, ManagerInv, PTL DEF Spec, RaisesOnlyListed, ManagerIInv

(***************************************************************************)
(* What a set-up that failed costs until the daemon is restarted.          *)
(***************************************************************************)
SetUpDone == pc \in {"walk", "apply", "requests"}

\* An expander whose pins are inbound when the set-up is over: see
\* healthy_driving, which shows its device reported OK.
LeftInbound(c) == SetUpDone /\ iodir[c] = "in"

NeverOpened(d) == SetUpDone /\ d \in Loaded /\ i2cfd[d] # "open"

\* Nothing but the set-up opens a device or turns pins outbound.
LEMMA SetUpIsOver ==
  ASSUME TypeOK, SetUpDone, [Next]_vars, [~Restart]_vars
  PROVE  SetUpDone' /\ UNCHANGED <<deviceMap, i2cfd, iodir>>
<1> USE DEF SetUpDone
<1>1. CASE UNCHANGED vars
  BY <1>1 DEF vars, maps, devices, chips
<1>2. CASE Request \/ LoadConfiguration \/ WalkOnList \/ WalkEnds \/ UpdateOverallHealth
  BY <1>2 DEF Request, SendComponentHealthPacket, ScheduleUpdate, LoadConfiguration,
              WalkOnList, WalkEnds, UpdateOverallHealth, maps, devices, chips
<1>3. ASSUME NEW d \in DevID, InitDevice(d) \/ ApplyToDevice(d)
      PROVE  SetUpDone' /\ UNCHANGED <<deviceMap, i2cfd, iodir>>
  BY <1>3 DEF InitDevice, ApplyToDevice, maps
<1>4. ASSUME NEW list \in OnLists, ProcessOnState(list)
      PROVE  SetUpDone' /\ UNCHANGED <<deviceMap, i2cfd, iodir>>
  BY <1>4 DEF ProcessOnState, maps, chips
<1>5. ASSUME NEW c \in Chip, BusChanges(c)
      PROVE  SetUpDone' /\ UNCHANGED <<deviceMap, i2cfd, iodir>>
  BY <1>5 DEF BusChanges, maps, devices, chips
<1>6. CASE Next /\ ~Restart
  BY <1>2, <1>3, <1>4, <1>5, <1>6 DEF Next, Step
<1> QED BY <1>1, <1>6

\* Whatever is listed and written afterwards, an expander left inbound drives
\* nothing as long as the daemon lives.
THEOREM ManagerInboundStays ==
  ASSUME NEW c \in Chip
  PROVE  Spec /\ [][~Restart]_vars => [](LeftInbound(c) => [](Driven(c) = {}))
<1>1. TypeOK /\ LeftInbound(c) /\ [Next]_vars /\ [~Restart]_vars => LeftInbound(c)'
  BY SetUpIsOver DEF LeftInbound
<1>2. LeftInbound(c) => Driven(c) = {}
  BY DEF LeftInbound, Driven
<1> QED BY <1>1, <1>2, ManagerTypeOK, PTL DEF Spec

\* One device that was not opened at start, for its bus, its chip or its model,
\* keeps the overall health failed as long as the daemon lives, however good
\* its bus has become.
THEOREM ManagerNeverOpenedCounts ==
  ASSUME NEW d \in DevID
  PROVE  Spec /\ [][~Restart]_vars
           => [](NeverOpened(d) => [](pc = "requests" => overall = "FAILED"))
<1>1. TypeOK /\ NeverOpened(d) /\ [Next]_vars /\ [~Restart]_vars => NeverOpened(d)'
  BY SetUpIsOver DEF NeverOpened, Loaded
<1>2. TypeOK /\ OverallMeansDriven /\ NeverOpened(d)
        => (pc = "requests" => overall = "FAILED")
  BY DEF TypeOK, OverallMeansDriven, NeverOpened
<1> QED BY <1>1, <1>2, ManagerTypeOK, ManagerOverallMeansDriven, PTL DEF Spec
=============================================================================
