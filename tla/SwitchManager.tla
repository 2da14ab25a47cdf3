--------------------------- MODULE SwitchManager ---------------------------
(***************************************************************************)
(* HNSwitchManager and its HNSWI2CExpander devices (HNSwitchManager.cpp):  *)
(* the last stage of the daemon.  At startup loadConfiguration reads which *)
(* devices and switches there are, and initDevices sets every device up,   *)
(* once; then each turn of the event loop hands processOnState the list of *)
(* switches to be on, which brings each device's outputs to it, and        *)
(* updateOverallHealth sums up what came of it for the status packets.     *)
(*                                                                         *)
(* Of an expander (an MCP23008, external) the model has its output latch   *)
(* and its direction register, which keep their values when the daemon     *)
(* stops.  Any bus transfer may fail while the bus is "flaky"; a register  *)
(* write that fails may have reached the chip.  The loops over the devices *)
(* take them in any order.  The daemon may stop at any step (it does not   *)
(* handle SIGTERM and never gets to closeDevices) and be started again,    *)
(* with another configuration.                                             *)
(***************************************************************************)
EXTENDS Naturals, Sequences

CONSTANTS DevID,       \* values of "id" and of "dev-id"
          Chip,        \* the expanders, each at the "busaddr" of a "devnum"
          Name,        \* values of "swid", and what a schedule may hold
          Empty,       \* the empty text, of a key that is not set
          NoNumber,    \* a "dev-param" that does not begin with a number
          LastPin,     \* the last pin of an expander, 7
          Config,      \* the documents switchConfig.json may hold
          NoDocument,  \* no document was loaded
          OnLists      \* the lists processOnState may be called with

Pin == 0 .. LastPin
Health == {"UNKNOWN", "OK", "FAILED"}

(***************************************************************************)
(* A document: the objects in the array of "devList" and in that of        *)
(* "switchList" (none where there is no array).  A value of an "id",       *)
(* "swid", "dev-id" or "dev-param" that is no string, or is absent, is     *)
(* Empty.  The chip is the one that "devnum" and "busaddr" lead to, 0      *)
(* where they are missing.                                                 *)
(***************************************************************************)
DeviceObject == [class : {"i2c-gpio-exp", "other", Empty},
                 model : {"mcp23008", "other", Empty},
                 id : DevID, chip : Chip]
SwitchObject == [swid : Name, dev : DevID, param : Nat \cup {NoNumber, Empty}]

ASSUME ConfigAssumption ==
  /\ Empty \in DevID \cap Name
  /\ Empty \notin {"i2c-gpio-exp", "mcp23008", "other"}
  /\ {Empty, NoNumber} \cap Nat = {}
  /\ LastPin \in Nat
  /\ NoDocument \notin Config
  /\ Config \subseteq [devList : Seq(DeviceObject), switchList : Seq(SwitchObject)]
  /\ OnLists \subseteq Seq(Name)

VARIABLES deviceMap,   \* deviceMap
          switchMap,   \* switchMap
          mgrHealth,   \* the manager's own health
          i2cfd,       \* the bus of each device: not open, open but not set to
                       \* the chip's address, or open
          health,      \* health of each device
          nextState,   \* nextState of each device, the set of its 1 bits
          pc,          \* where the daemon is
          todo,        \* devices the loop it is in has yet to visit
          onList,      \* swidOnList
          it,          \* the position in swidOnList
          schHealth,   \* health of the schedule matrix
          overall,     \* overallHealth
          olat,        \* output latch of each expander
          iodir,       \* direction of each expander's pins
          bus,         \* state of each expander's bus
          document,    \* history: the document the maps were loaded from
          failedAt,    \* history: expanders a set-up failed at in this run
          late         \* history: a client's schedule came after the sum
                       \* that overall is

maps    == <<deviceMap, switchMap, mgrHealth>>
devices == <<i2cfd, health, nextState>>
chips   == <<olat, iodir>>
history == <<document, failedAt, late>>
vars    == <<maps, devices, pc, todo, onList, it, schHealth, overall, chips, bus, history>>

Loaded == DOMAIN deviceMap
ChipOf(d) == deviceMap[d].chip
Supported(d) == deviceMap[d].model = "mcp23008"

Flaky(d) == bus[ChipOf(d)] = "flaky"
-----------------------------------------------------------------------------
(* loadConfiguration: a document that cannot be opened or parsed leaves    *)
(* the maps empty.                                                         *)

\* map::insert leaves a key that is there as it is: of the objects at the given
\* positions the first with a key counts.
Inserted(list, at, key) ==
  [k \in {list[i][key] : i \in at} |->
     list[CHOOSE i \in at : list[i][key] = k /\ \A j \in at : list[j][key] = k => i <= j]]

\* The factory knows one class, and takes any model.
Created(list) ==
  {i \in DOMAIN list : list[i].class = "i2c-gpio-exp" /\ list[i].model # Empty}

LoadDone(doc) ==
  /\ document' = doc
  /\ deviceMap' = Inserted(doc.devList, Created(doc.devList), "id")
  /\ switchMap' = Inserted(doc.switchList, DOMAIN doc.switchList, "swid")
  /\ mgrHealth' = "OK"

\* Nobody looks at the result, and initDevices goes over empty maps.
LoadFailed ==
  /\ mgrHealth' = "FAILED"
  /\ UNCHANGED <<deviceMap, switchMap, document>>

LoadConfiguration ==
  /\ pc = "load"
  /\ (\E doc \in Config : LoadDone(doc)) \/ LoadFailed
  /\ pc' = "init" /\ todo' = DOMAIN deviceMap'
  /\ UNCHANGED <<devices, onList, it, schHealth, overall, chips, bus, failedAt, late>>
-----------------------------------------------------------------------------
(* mcp23008Init: open the bus, address the chip, clear the latch, turn the *)
(* pins inbound, set the pullups, read the port, turn the pins outbound.   *)

\* What a register holds after a write of v over old that failed.
AfterFailedWrite(old, v) == {old, v}

\* Variant: without the initial clearing of the outputs.
McpInitSucceedsUncleared(d) ==
  /\ i2cfd' = [i2cfd EXCEPT ![d] = "open"]
  /\ health' = [health EXCEPT ![d] = "OK"]
  /\ iodir' = [iodir EXCEPT ![ChipOf(d)] = "out"]
  /\ UNCHANGED <<olat, failedAt>>

McpInitSucceeds(d) ==
  /\ i2cfd' = [i2cfd EXCEPT ![d] = "open"]
  /\ health' = [health EXCEPT ![d] = "OK"]
  /\ olat' = [olat EXCEPT ![ChipOf(d)] = {}]
  /\ iodir' = [iodir EXCEPT ![ChipOf(d)] = "out"]
  /\ UNCHANGED failedAt

\* Variant: the pins turned outbound before the latch is cleared.
HalfInitialisedOutFirst(c) ==
       {<<olat[c], dir>> : dir \in AfterFailedWrite(iodir[c], "out")}
  \cup {<<latch, "out">> : latch \in AfterFailedWrite(olat[c], {})}

\* What the chip may hold when a transfer to it has failed.
HalfInitialised(c) ==
       {<<latch, iodir[c]>> : latch \in AfterFailedWrite(olat[c], {})}
  \cup {<<{}, dir>> : dir \in AfterFailedWrite(iodir[c], "in")}
  \cup {<<{}, dir>> : dir \in AfterFailedWrite("in", "out")}

\* A failure to address the chip or to talk to it leaves the bus open.
McpInitFails(d) ==
  /\ Flaky(d)
  /\ health' = [health EXCEPT ![d] = "FAILED"]
  /\ failedAt' = failedAt \cup {ChipOf(d)}
  /\ \/ /\ i2cfd' = [i2cfd EXCEPT ![d] = "closed"]
        /\ UNCHANGED chips
     \/ /\ i2cfd' = [i2cfd EXCEPT ![d] = "unaddressed"]
        /\ UNCHANGED chips
     \/ /\ i2cfd' = [i2cfd EXCEPT ![d] = "open"]
        /\ \E half \in HalfInitialised(ChipOf(d)) :
             /\ olat' = [olat EXCEPT ![ChipOf(d)] = half[1]]
             /\ iodir' = [iodir EXCEPT ![ChipOf(d)] = half[2]]

\* initDevices goes on to the next device whatever the outcome.  A model that
\* is not supported gets no set-up, and keeps its unknown health.
InitDevice(d) ==
  /\ pc = "init" /\ d \in todo
  /\ \/ Supported(d) /\ (McpInitSucceeds(d) \/ McpInitFails(d))
     \/ ~Supported(d) /\ UNCHANGED <<i2cfd, health, chips, failedAt>>
  /\ todo' = todo \ {d}
  /\ UNCHANGED <<maps, nextState, pc, onList, it, schHealth, overall, bus, document, late>>
-----------------------------------------------------------------------------
(* processOnState *)

ProcessOnState(list) ==
  /\ pc \in {"init", "requests"} /\ todo = {}
  /\ onList' = list /\ it' = 1 /\ pc' = "walk"
  /\ nextState' = [d \in DevID |-> {}]
  /\ late' = FALSE
  /\ UNCHANGED <<maps, i2cfd, health, todo, schHealth, overall, chips, bus, document, failedAt>>

\* The number strtol makes of a "dev-param", 0 where it finds none.
PinNumber(param) == IF param \in Nat THEN param ELSE 0

PinOf(sw) == PinNumber(switchMap[sw].param)

\* Variant: the pin not checked.
SwitchesUnchecked(sw, d) ==
  sw \in DOMAIN switchMap /\ switchMap[sw].dev = d /\ d \in Loaded /\ Supported(d)

\* Whether a name on the list turns on a pin of d.  Unknown switches, unknown
\* devices, models that are not supported and pins out of range are skipped.
Switches(sw, d) ==
  /\ sw \in DOMAIN switchMap
  /\ switchMap[sw].dev = d
  /\ d \in Loaded /\ Supported(d)
  /\ PinOf(sw) \in Pin

UpdateStateToOn(sw) ==
  nextState' = [d \in DevID |-> IF Switches(sw, d) THEN nextState[d] \cup {PinOf(sw)}
                                                   ELSE nextState[d]]

WalkOnList ==
  /\ pc = "walk" /\ it <= Len(onList)
  /\ UpdateStateToOn(onList[it])
  /\ it' = it + 1
  /\ UNCHANGED <<maps, i2cfd, health, pc, todo, onList, schHealth, overall, chips, bus, history>>

WalkEnds ==
  /\ pc = "walk" /\ it > Len(onList)
  /\ pc' = "apply" /\ todo' = Loaded
  /\ UNCHANGED <<maps, devices, onList, it, schHealth, overall, chips, bus, history>>

\* The port reads as the latch drives it, or as the wires are.
PortState(c) == IF iodir[c] = "out" THEN {olat[c]} ELSE SUBSET Pin

ReadFails(d) ==
  /\ Flaky(d) \/ i2cfd[d] = "unaddressed"
  /\ health' = [health EXCEPT ![d] = "FAILED"]
  /\ UNCHANGED olat

NoChange(d) ==
  /\ nextState[d] \in PortState(ChipOf(d))
  /\ health' = [health EXCEPT ![d] = "OK"]
  /\ UNCHANGED olat

WriteSucceeds(d) ==
  /\ PortState(ChipOf(d)) # {nextState[d]}
  /\ health' = [health EXCEPT ![d] = "OK"]
  /\ olat' = [olat EXCEPT ![ChipOf(d)] = nextState[d]]

\* Variant: the result of the write not looked at.
WriteFailsUnreported(d) ==
  /\ Flaky(d) /\ PortState(ChipOf(d)) # {nextState[d]}
  /\ health' = [health EXCEPT ![d] = "OK"]
  /\ UNCHANGED olat

WriteFails(d) ==
  /\ Flaky(d) /\ PortState(ChipOf(d)) # {nextState[d]}
  /\ health' = [health EXCEPT ![d] = "FAILED"]
  /\ \E latch \in AfterFailedWrite(olat[ChipOf(d)], nextState[d]) :
       olat' = [olat EXCEPT ![ChipOf(d)] = latch]

\* Variant: a device that has failed is left alone from then on.
ApplyNextStateOnce(d) ==
  \/ /\ i2cfd[d] # "open" \/ health[d] = "FAILED"
     /\ UNCHANGED <<health, olat>>
  \/ /\ i2cfd[d] = "open" /\ health[d] # "FAILED"
     /\ ReadFails(d) \/ NoChange(d) \/ WriteSucceeds(d) \/ WriteFails(d)

\* A device whose bus did not open is never tried again; one that could not be
\* addressed fails at the read.
ApplyNextState(d) ==
  \/ i2cfd[d] = "closed" /\ UNCHANGED <<health, olat>>
  \/ i2cfd[d] = "unaddressed" /\ ReadFails(d)
  \/ /\ i2cfd[d] = "open"
     /\ ReadFails(d) \/ NoChange(d) \/ WriteSucceeds(d) \/ WriteFails(d)

ApplyToDevice(d) ==
  /\ pc = "apply" /\ d \in todo
  /\ ApplyNextState(d)
  /\ todo' = todo \ {d}
  /\ UNCHANGED <<maps, i2cfd, nextState, pc, onList, it, schHealth, overall, iodir, bus, history>>
-----------------------------------------------------------------------------
(* Overall health *)

\* Variant: a device whose health is not known does not count.
SubcomponentFailsKnown ==
  "FAILED" \in {schHealth, mgrHealth} \cup {health[d] : d \in Loaded}

SubcomponentFails ==
  {schHealth, mgrHealth} \cup {health[d] : d \in Loaded} # {"OK"}

\* Variant: without setting it to OK first.
AccumulateHealthSticky == overall' = IF SubcomponentFails THEN "FAILED" ELSE overall

AccumulateHealth == overall' = IF SubcomponentFails THEN "FAILED" ELSE "OK"

UpdateOverallHealth ==
  /\ pc = "apply" /\ todo = {}
  /\ AccumulateHealth
  /\ pc' = "requests" /\ late' = FALSE
  /\ UNCHANGED <<maps, devices, todo, onList, it, schHealth, chips, bus, document, failedAt>>

\* A client's health request, which makes the sum anew.
SendComponentHealthPacket ==
  /\ pc = "requests"
  /\ AccumulateHealth
  /\ late' = FALSE
  /\ UNCHANGED <<maps, devices, pc, todo, onList, it, schHealth, chips, bus, document, failedAt>>

\* A client's schedule is loaded, or fails to be.
ScheduleUpdate ==
  /\ pc = "requests"
  /\ schHealth' \in {"OK", "FAILED"}
  /\ late' = TRUE
  /\ UNCHANGED <<maps, devices, pc, todo, onList, it, overall, chips, bus, document, failedAt>>
-----------------------------------------------------------------------------
\* The state of a process that has just started, its schedule loaded or not.
FreshProcess(devs, sws, mgr, fd, hs, next, at, left, list, pos, sch, sum) ==
  /\ devs = <<>> /\ sws = <<>> /\ mgr = "UNKNOWN"
  /\ fd = [d \in DevID |-> "closed"]
  /\ hs = [d \in DevID |-> "UNKNOWN"]
  /\ next = [d \in DevID |-> {}]
  /\ at = "load" /\ left = {} /\ list = <<>> /\ pos = 1
  /\ sch \in {"OK", "FAILED"} /\ sum = "OK"

\* The chips as they power up.
Init ==
  /\ FreshProcess(deviceMap, switchMap, mgrHealth, i2cfd, health, nextState, pc, todo,
                  onList, it, schHealth, overall)
  /\ olat = [c \in Chip |-> {}]
  /\ iodir = [c \in Chip |-> "in"]
  /\ bus \in [Chip -> {"good", "flaky"}]
  /\ document = NoDocument /\ failedAt = {} /\ late = FALSE

\* The daemon dies and is started again; the chips do not notice.
Restart ==
  /\ FreshProcess(deviceMap', switchMap', mgrHealth', i2cfd', health', nextState', pc',
                  todo', onList', it', schHealth', overall')
  /\ document' = NoDocument /\ failedAt' = {} /\ late' = FALSE
  /\ UNCHANGED <<chips, bus>>

BusChanges(c) ==
  /\ bus' = [bus EXCEPT ![c] = IF @ = "flaky" THEN "good" ELSE "flaky"]
  /\ UNCHANGED <<maps, devices, pc, todo, onList, it, schHealth, overall, chips, history>>

Step ==
  \/ LoadConfiguration
  \/ \E d \in DevID : InitDevice(d) \/ ApplyToDevice(d)
  \/ \E list \in OnLists : ProcessOnState(list)
  \/ WalkOnList
  \/ WalkEnds
  \/ UpdateOverallHealth

Request == SendComponentHealthPacket \/ ScheduleUpdate

Next == Step \/ Request \/ Restart \/ \E c \in Chip : BusChanges(c)

Spec == Init /\ [][Next]_vars

\* The loop keeps turning: epoll_wait returns at least once a second and none
\* of the steps waits for anything.
FairSpec == Spec /\ WF_vars(Step)
-----------------------------------------------------------------------------
(***************************************************************************)
(* What is asked of an expander, read off the document and the list: of    *)
(* objects that share a key the first counts, of the device objects those  *)
(* that the factory creates, and a switch that names no pin of a supported *)
(* device asks for nothing.                                                *)
(***************************************************************************)
FirstSwitch(n) ==
  \A j \in 1 .. n - 1 : document.switchList[j].swid # document.switchList[n].swid

FirstDevice(k) ==
  /\ k \in Created(document.devList)
  /\ \A j \in 1 .. k - 1 :
       j \in Created(document.devList) => document.devList[j].id # document.devList[k].id

\* The device d of the document is an expander that is supported, at c.
Describes(d, c) ==
  \E k \in DOMAIN document.devList :
    /\ FirstDevice(k)
    /\ document.devList[k].id = d
    /\ document.devList[k].model = "mcp23008"
    /\ document.devList[k].chip = c

\* The pins of c that the list asks for through d.
Asked(d, c) ==
  IF document = NoDocument \/ ~Describes(d, c) THEN {}
  ELSE {p \in Pin : \E n \in DOMAIN document.switchList :
          /\ FirstSwitch(n)
          /\ \E i \in DOMAIN onList : onList[i] = document.switchList[n].swid
          /\ document.switchList[n].dev = d
          /\ PinNumber(document.switchList[n].param) = p}

\* The pins c drives high.
Driven(c) == IF iodir[c] = "out" THEN olat[c] ELSE {}

\* No other device of the configuration has the chip of d.
Alone(d) == \A e \in Loaded : ChipOf(e) = ChipOf(d) => e = d

\* The expander of d drives what is asked of it through d, or, left with its
\* pins inbound by a set-up that failed, nothing.
DrivesAsked(d) ==
  LET c == ChipOf(d)
  IN  Driven(c) = Asked(d, c) \/ (iodir[c] = "in" /\ c \in failedAt)

(* Safety *)

TypeOK ==
  /\ Loaded \subseteq DevID
  /\ \A d \in Loaded : deviceMap[d] \in DeviceObject
  /\ DOMAIN switchMap \subseteq Name
  /\ \A sw \in DOMAIN switchMap : switchMap[sw] \in SwitchObject
  /\ mgrHealth \in Health
  /\ i2cfd \in [DevID -> {"closed", "unaddressed", "open"}]
  /\ health \in [DevID -> Health]
  /\ nextState \in [DevID -> SUBSET Pin]
  /\ pc \in {"load", "init", "walk", "apply", "requests"}
  /\ todo \in SUBSET Loaded
  /\ onList \in Seq(Name)
  /\ it \in Nat \ {0}
  /\ schHealth \in {"OK", "FAILED"}
  /\ overall \in {"OK", "FAILED"}
  /\ olat \in [Chip -> SUBSET Pin]
  /\ iodir \in [Chip -> {"in", "out"}]
  /\ bus \in [Chip -> {"good", "flaky"}]
  /\ document \in Config \cup {NoDocument}
  /\ failedAt \in SUBSET Chip
  /\ late \in BOOLEAN

\* When the devices of an expander that processOnState has dealt with are all
\* reported OK, and there is one, the expander drives exactly the pins that the
\* document gives the switches of the list on one of them (the one device, where
\* no two have the same expander).  One exemption: an expander left inbound by a
\* set-up that failed in this run drives nothing, see healthy_driving.  No bad
\* entry of the list or of the document, no bad device and no failed transfer
\* else gets in the way unreported.
HealthyMatchesList ==
  \A c \in Chip :
    LET dealtWith == {d \in Loaded \ todo : ChipOf(d) = c}
    IN  /\ pc \in {"apply", "requests"}
        /\ dealtWith # {}
        /\ \A d \in dealtWith : health[d] = "OK"
        => \E d \in dealtWith : DrivesAsked(d)

\* Whatever the last run of the daemon left switched on, a device reported OK
\* once the next run has set it up has its pins outbound and all low.
HealthyStartsOff ==
  \A d \in Loaded : pc = "init" /\ d \notin todo /\ health[d] = "OK" /\ Alone(d) =>
    iodir[ChipOf(d)] = "out" /\ olat[ChipOf(d)] = {}

\* When the overall health that goes out with the statuses is OK, a configuration
\* was loaded, and so was the schedule, as of the requests that came before the
\* sum; no device was left out for its model or its bus; and each expander drives
\* what the list of the turn asks of one of its devices, with the exemption of
\* HealthyMatchesList: one left inbound by a failed set-up drives nothing.
OverallMeansDriven ==
  pc = "requests" /\ overall = "OK" =>
    /\ mgrHealth = "OK"
    /\ schHealth = "OK" \/ late
    /\ \A d \in Loaded :
         /\ i2cfd[d] = "open"
         /\ \E e \in Loaded : ChipOf(e) = ChipOf(d) /\ DrivesAsked(e)

(* Action properties *)

\* No step, a failing or a half done one included, raises a pin that the list
\* being processed and the document do not ask of that expander.
RaisesOnlyListed ==
  [][\A c \in Chip :
       \A p \in Driven(c)' \ Driven(c) : \E d \in DevID : p \in Asked(d, c)]_vars

(* Liveness *)

\* Failed transfers are not for ever: a device that was addressed and whose bus
\* is good from some time on is reported OK from some later time on.
FaultsClear ==
  \A d \in DevID :
    <>[](d \in Loaded /\ i2cfd[d] = "open" /\ bus[ChipOf(d)] = "good") => <>[](health[d] = "OK")

\* Nor is the overall health: when from some time on nothing is wrong with any
\* part, it is OK from some later time on.
OverallRecovers ==
  <>[](/\ {mgrHealth, schHealth} = {"OK"}
       /\ \A d \in Loaded : i2cfd[d] = "open" /\ bus[ChipOf(d)] = "good")
    => <>[](overall = "OK")

(* What the comments say and the code does not do. *)

\* "Turn all of the pins over to outputs" is the last stage of mcp23008Init,
\* before it reports the device OK: after a turn of the loop, a device that is
\* alone at its expander and reported OK has its pins outbound.
HealthyMeansDriving ==
  \A d \in Loaded :
    pc = "requests" /\ health[d] = "OK" /\ Alone(d) => iodir[ChipOf(d)] = "out"
=============================================================================
