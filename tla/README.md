# hnswitchd: models, model checking and proofs

`hnswitchd` switches relays (irrigation valves, pumps, lamps) through I2C port
expanders. A weekly schedule says what is on; clients may disable or inhibit the
schedule, replace it, or have a one-time sequence of switches run instead. This
directory holds TLA+ modules that model the daemon, TLC configurations that
check them on small instances, and TLAPS proofs that hold for all values of the
constants. Source paths are relative to the repository; `HNSM` below is
`src/daemon/HNScheduleMatrix.cpp`.

How to run: `tlc -config X.cfg MCModule.tla` for the runs of the table below,
`tlapm Module_proofs.tla` for the proofs. PROJECT.json lists the runs, the
source lines every definition stands for, the variants each property was tested
against, the hazards and the divergences found.

## 1. Inventory

The daemon is one process with one thread. Its loop (`HNSwitchDaemon::main`)
calls the other parts; nothing calls back. Everything that makes it hard comes
from outside: clients' requests in any order, the clock (which passes midnight
and may be set), I/O that fails half way, and a process that dies anywhere:
SIGTERM is not caught, and the service file says `Restart=always`.

| Component | State it keeps | Operations | Hard behaviours | What makes it correct |
|---|---|---|---|---|
| `HNS24HTime`, `HNSAction` (HNSM) | seconds of a day; start, end, switch | set, add, parse, compare | a sum capped at 24:00:00, wrap of a `uint`, a text that does not parse | no sum exceeds 24:00:00 |
| `HNSDay` (HNSM) | list of actions | add, sort, query | the query stops at the first action in the future | the query reports the actions active now |
| `HNScheduleMatrix`, file and matrix | days, CRC, update index, health; `scheduleMatrix.json` | `loadSchedule`, `replaceSchedule`, `getSwitchOnList` | refused, short and torn writes whose result is ignored; documents of odd shape | memory is the file or nothing; queries follow the document; a change shows in the statuses, in the index or, after a restart, in the CRC |
| `HNScheduleMatrix`, enable state | `m_state`, `m_inhibitUntil`; `scheduleState.json` | enable, disable, inhibit, `checkInhibitExpire`, `initState` | midnight; restarts; writes that fail | a command holds until an inhibit ends by itself, and if it was saved through restarts; an inhibit lasts as long as asked, and ends |
| `HNSequenceQueue` (HNSM) | request ID, list of actions | `addUniformSequence`, `cancelSequences`, `getSwitchOnList` | requests that fail half way, capped sums, late polls, a clock that is set | one sequence at a time, one switch at a time, in order, none skipped; it completes |
| `HNSwitchManager`, `HNSWI2CExpander` | `deviceMap`, `switchMap`, own health; per device: bus, health, next state; on the chip: latch, direction | `loadConfiguration`, `initDevices`, `processOnState` | entries that are missing, double or out of range; any of seven transfers of a set-up may fail; the chip outlives the process | a healthy device drives what was asked, unless a failed set-up has left its pins inbound (then it drives nothing, see `healthy_driving`); nothing is raised unasked |
| Event loop (`HNSwitchDaemon::main`) | the list of a turn, the checksum of the last one, the second of the last status | a turn; a request; a status | whose turn it is changes between two turns; a status pairs the list of the turn's start with what its requests left | one driver at a time; silence reaches the switches; every change is told to the clients |
| Connections, requests and status broadcast | client map, event descriptor | accept, close, dispatch, `sendStatusPacket` | edge-triggered events, several in a batch; descriptors used again | no event for the wrong client, no wakeup lost, every request dispatched |
| `HNDaemonHealth` and overall health | one health each of the schedule, the manager and the devices, and their sum | set; `updateOverallHealth`, `sendComponentHealthPacket` | the sum is kept over turns and made in two places | OK means that no part had failed when the sum was made and the list is driven, but for expanders left inbound; a failure that is over is forgotten |
| `HNSWDPacketDaemon` | a header and a payload | receive, send | a payload that never comes blocks the loop | framing |
| `HNDaemonLog` | log level and target | log | - | - |
| `hnswitchd_client`, `HNSWDPacketClient` | - | one request, print the answer | waits for an answer | - |
| Build and packaging | - | - | - | - |

How they interact, per turn of the loop: `epoll_wait` (1 s at most); the enable
state's expiry check; the list of switches from the queue if it has actions,
else from the schedule if it is enabled, else empty; `processOnState` with that
list; the overall health; a trigger of a status, when the list is not that of the
last turn or 10 s are over; then the socket events, each of which may call an
operation of the queue, the state or the matrix, and one of which sends the
status that was triggered in an earlier turn.

## 2. Modules

Source and module correspond definition by definition; the names are the code's
where TLA+ allows. Operators commented "Variant" are plausible slips. Nothing
uses them: each is there to show that a property would notice.

| Module | Models | State |
|---|---|---|
| `HNS24HTime` | time arithmetic; `DaySecs` stands for 86400, `UIntMod` for 2^32. A text that `sscanf` does not convert leaves its fields uninitialised, so `ParseTime` yields any uint | - |
| `HNSAction` | an action and its comparisons | - |
| `HNSDay` | a JSON array of actions -> actions (`ActionsFrom`: defaults for missing keys, the visit ended by a value that is no string) -> stable sort -> query (`Walk`) | - |
| `SequenceQueue` | the queue, its requests and the polls of the loop, with the clock | `requestID`, `actionList` = the members; `swOn` = the last poll's list; `now`, `lag` the clock |
| `SequenceOnce` | the same, with the age of the queued sequence | + `age` |
| `ScheduleState` | the enable state, its file, deaths and restarts, with the clock | `schState` = `m_state`, `inhibitUntil`, `stateFile`; history `owed`, `lived` (what a client's last command comes to, and whether the daemon has died since), `saved` (the last write was complete), `promise` (what is left of an inhibit) |
| `ScheduleMatrix` | the schedule file, the loaded days, updates and queries | `dayArr`, `schCRC`, `health`, `updateIndex` = the members; `schFile`; history `accepted`, `seen` (the last status a client has of a schedule, and its document), `writes` (of the file since) |
| `SwitchManager` | the configuration, the expanders, the two loops over them and the sum of the healths | `deviceMap`, `switchMap` = the members; `mgrHealth`, `schHealth`, `overall`; `i2cfd`, `health`, `nextState` per device; `pc`, `todo`, `it` where the daemon is; `olat`, `iodir` the chip (external); `bus` whether transfers may fail; history `document` (what the maps were loaded from), `failedAt` (expanders a set-up of this run failed at), `late` (a client's schedule came after the sum) |
| `SwitchPolicy` | abstract: what the daemon promises about the list it hands to the devices | `driver`, `swOn` |
| `RequestService` | abstract: what the daemon promises the programs that send it requests: served once, or dropped only when they have left; answers and statuses in order | `kind`, `request`, `inbox`, `left`, `due` |
| `EventLoop` | who is heard (implements `RequestService`): connections, edge-triggered epoll, batches of events, the status eventfd, packets, and runs of the client program | `owner`, `clientMap`, `batch`, `pc` the loop; `backlog`, `ready`, `statusCount`, `toDaemon`, `toClient` the kernel (external); `phase`, `kind`, `last` the clients; history `handled` |
| `SwitchDaemon` | the event loop over `SequenceQueue`, `ScheduleState` and `HNSDay`; implements `SwitchPolicy`; the status timer and what a status says | theirs, and `day`, `swOn`; `logged`, `prevSec`, `statusEvent`, `sendDue`; history `unsent`, what changed since the last status |
| `MC*` | constants of the runs | - |
| `*_proofs` | the proofs about the module of that name | - |

Atomicity. The process has one thread and the loop does one thing at a time, so
a request, a poll or a load is one action. Where something outside can come in
between it is not: a write of a file can be cut by a death (`CrashInWrite`), and
every device is set up and written in a step of its own, between which the bus
may change or the daemon die.

Abstractions. A switch ID, a request ID, a CRC or a document is a model value
or a record of them; JSON text, log text and the wording of answers are left
out, but not which answer is given or which member was assigned before an early
return. The order of `std::map` iteration is left open (`todo` is a set).
In `SwitchDaemon` an update replaces the day by another loaded day
(`ScheduleMatrix` has what really happens), and all weekdays are alike. The code
compares checksums of the text of two lists; `logged` holds the list itself, so
two lists with one checksum are not in the model, nor two orders of one list. A
list is the set of its names there. `Report` is what a status says: the list as
it was at the top of the turn, and the state, the inhibit and the sequence as
the turn's requests have left them. The events of a turn are those from before
it (`sendDue`), so what a request triggers goes out in a later turn, or with the
status of its own turn, whose read of the eventfd takes the trigger back.

In `SwitchManager` a document is the array of its device objects and that of its
switch objects; keys without a string are `Empty`. `devnum` and `busaddr` are one
value, the chip they lead to. Not every register is there: the pullups keep
nothing the daemon relies on.

In `EventLoop` all there is of a request is its kind: whether a payload follows
the header, whether it is answered, whether a status is triggered (what it does
is the other modules' part). `RESET_REQ` is handled like `STATUS_REQ` and
`SWINFO_REQ` like `HEALTH_REQ`, and schedule updates, which this client does not
send, like a schedule state. A header and its payload are two packets on the way
in, where the loop may wait between them, and one on the way out. When the
status timer fires and what the packets say is left open here: a turn's list,
timer and status are `SwitchDaemon`'s, devices and health `SwitchManager`'s.

Clock. `Tick` is a second; the loop polls at least every `MaxLag` ticks, which
is what the timeout of `epoll_wait` gives. `SetClock` is the host's local time
being set: daylight saving, an NTP step.

## 3. Runs

| Run | Question | Result |
|---|---|---|
| `sequences` | Requests of every shape (complete, incomplete, unparsable, second while busy), polls up to `MaxLag` apart, a clock that is set: does the queue ever mix sequences, have two actions due together, lose the gap between switches, or report anything but what is due? Until the clock is set, is a switch skipped, or a sequence still there after its time? Does a sequence that ends before midnight get over even if the clock is set? | holds: `TypeOK`, `ActiveHasID`, `OneAtATime`, `GapKept`, `ConsumedInOrder`, `PollReportsDue`, `NoSwitchSkipped`, `SequenceEndsOnTime`, `SequenceCompletes` |
| `seq_stuck` | "If a sequence is already active then reject this request": is that when it rejects? | violated |
| `seq_once` | Is a "one time sequence" run one time? | violated |
| `state` | Commands, inhibits, write faults, deaths in and between writes, a clock change: is the state outside an inhibit always what a client commanded last, but for an inhibit that has ended since? Does the loop cut an inhibit short, does one that can end do so? | holds: `TypeOK`, `CommandSurvives`, `InhibitHolds`, `InhibitExpires` |
| `inhibit_ends` | "inhibited for a duration": does an inhibit always end? | violated |
| `matrix` | Documents of six shapes, every fault: is what is loaded the file or nothing, do queries follow the document, does a client that compares two statuses learn of every change, also over failed loads, deaths and restarts? | holds: `TypeOK`, `MatrixIsFile`, `QueryReportsFile`, `ChangeIsSeen` |
| `update_dirs` | "Create directories if necessary": is an accepted update in the file? | violated |
| `devices` | Configurations with every kind of bad entry, any transfer may fail, the daemon may restart anywhere, with another configuration: does an expander whose devices are reported OK drive what document and list ask of one of them, or at least nothing where a failed set-up left it inbound? Does an overall health of OK mean that all do? Is a pin raised unasked, are failures that stop forgotten? | holds: `TypeOK`, `HealthyMatchesList`, `HealthyStartsOff`, `OverallMeansDriven`, `RaisesOnlyListed`, `FaultsClear`, `OverallRecovers` |
| `healthy_driving` | "Turn all of the pins over to outputs" before a device is OK: is it so? | violated |
| `daemon` | All of the loop together: does it implement `SwitchPolicy`, does a sequence run as it was laid out whatever the schedule and the state do, does an inhibit silence the schedule, does silence reach the switches? Is a status on its way whenever the list has changed, and does everything a status tells get told, although reading the eventfd takes back triggers and most requests trigger nothing? | holds: `ListAnnounced`, `PolicyKept`, `InhibitSilencesSchedule`, `SequenceRunsInFull`, `SilenceReachesSwitches`, `StatusCatchesUp` |
| `event_loop` | Clients come, send, read, leave and die in any order around a batch of events: can an event be taken for another connection's, is a wakeup lost, is a request sent in full dispatched unless its client leaves, does the loop get past a payload that never comes? To the clients, does all this look like `RequestService`? | holds: `TypeOK`, `EventsReachOwner`, `NoLostWakeup`, `ServiceKept`, `RequestHandled`, `LoopReturns` |
| `client_exit` | "Exit if we received the expected response": is that when a run of the client ends? | violated |

What the properties leave out, because the code does not give it:

- `CommandSurvives`: an inhibit that ends by itself enables the schedule, also
  one that was disabled before (history `owed`). A command whose write was
  refused, short or cut by a death holds only until the daemon dies (`saved`,
  `lived`).
- `ChangeIsSeen`: the index starts at 0 with every run of the daemon and goes
  round with a `uint`. A client that has missed so much has only the CRC left,
  which is whatever was put into the document: two documents with one CRC and
  different schedules it cannot tell apart (`CRCsTell`).
- `HealthyMatchesList`, `OverallMeansDriven`: an expander that a failed set-up of
  this run left inbound drives nothing and may still be reported OK
  (`DrivesAsked`, `failedAt`). Devices that share an expander take turns writing
  it; the properties ask that it drives what is asked through one of them.
- `OverallMeansDriven`: the sum knows nothing of a schedule that a client sends
  after it (`late`), until it is made again.

What is asked of an expander (`Asked`) is read off the document and the list,
not off the maps that `loadConfiguration` fills, so a wrong choice among objects
with one id shows.

### What the violated runs show

- `seq_stuck`: `addUniformSequence` stores the request ID before it looks at the
  durations and the switch list. A request without them fails with the ID
  stored; the queue then has an ID and no actions, `getSwitchOnList` releases
  the ID only when it drops an action, and every later request is rejected
  until somebody sends a cancel.
- `seq_once`: times are capped at 24:00:00. The rest of a sequence that would
  cross midnight is queued with an end no clock shows; after midnight its start
  is in the future again, and it runs the next evening.
- `inhibit_ends`: `setStateInhibited` caps the end of the inhibit in the same
  way. One that reaches midnight waits for 24:00:00 and stays until a client
  enables the schedule.
- `update_dirs`: the schedule lies in `<root>/<device>-<instance>/`, and
  `createDirectories` makes `<root>` only. Where the lower directory is missing
  the file cannot be opened, nobody looks at the result, and the client is told
  SUCCESS.
- `healthy_driving`: a set-up that fails between the pins being turned inbound
  and outbound leaves the bus open. The next turn reads the chip without error,
  writes it if it must, and reports the device OK, although it drives nothing;
  nothing sets it up again before a restart. The property looks at devices that
  have their chip to themselves, after a turn.
- `client_exit`: each case of the client's `switch` that may end the run looks at
  the request that was made, except that of `DAEMON_STATUS`. Statuses are
  broadcast to every connection, every ten seconds or so and after each sequence
  request, so a run that asked for something else may end on one of them; if its
  request was still unread, the daemon sees the hang-up first and drops it.

### Bounds, and why they are enough

- `DaySecs` is 3 to 10. What matters of a day is that sums reach its end in
  every way: exactly, by one, by more than one duration. With durations up to
  3 and sequences of up to three switches every start of a sequence relative to
  midnight occurs.
- `UIntMod` is larger than `DaySecs` plus the longest well-formed duration, as
  2^32 is than a day plus any realistic one; `ParseTime` of `Malformed` draws from
  all of it, so wrap-around sums occur where malformed texts do.
- `MaxLag` is 1 or 2: 1 s timeout, with a second of slack in the runs where
  missing an action is the question.
- `SwidLists`: none, one, two and three switches, one of them twice: a front, a
  middle and an end of the queue.
- `MaxClockSets`, how often the clock is set, is 1, and 0 in the runs that show a
  violation without it. A second change finds a state that requests and ticks
  alone, or the first change, also reach.
- `MCDoc`: sorted and unsorted days, overlapping actions, actions over midnight,
  missing, non-string and malformed fields, a missing matrix, a missing CRC.
  `UIntMod` 6 lets the update index wrap.
- Expanders: two, with two pins each (`LastPin` 1 stands for 7), so that a fault
  of one and the good state of the other meet. Two configurations: a plain one,
  with a switch whose pin is out of range and one of a device that does not
  exist; and an odd one, with a class the factory does not know, a model that is
  not supported, two devices and two switches of one id, a device without id on
  the chip of another, a switch without device and a pin that is no number. The
  two lists differ in every switch; under each configuration one of them names
  entries that are skipped beside one that is not.
- `SwitchDaemon`: the day is one minute of three seconds (`MinuteSecs` 3 for 60)
  and a status is due after two (`StatusSecs` 2 for 10), so that the timer fires
  by its period, by the start of a minute, and not at all. `OnTexts` has a duration
  of 1, which the loop may sleep through, and one of 2, which it may not. A request without an
  ID takes the default one (`RequestID` is empty); the clock is not set
  (`MaxClockSets` 0): the runs of the parts set it.
- `EventLoop`: two clients and two descriptors, so that one leaves, and its number
  is given to the other, within a batch (`MaxEvents` 2 stands for 8).
  One client is a monitor, which never leaves by itself: for the other one
  `RequestHandled` could be true because it left. `MaxQueued` 1: a client whose
  socket is full loses what is sent. `Kinds` has a request without payload or
  answer and one with both; `client_exit` has them all.

No run uses symmetry, since the constants that would be symmetric occur in the
lists above.

### Fairness

`Tick` (or `Time`): time passes. `Poll`/`Turn`: `epoll_wait` has a timeout of
1000 ms and no step of a turn waits for anything but files, the bus and, in
`rcvPayload`, the payload of a request. `LoopStep` of `EventLoop` is the same
process; its `ClientStep`s assume that a client that is not killed runs, so it
sends the payload after its header and reads what it is sent. A client that is
stopped between the two sends stops the daemon: that is the hazard behind
`LoopReturns`, and no run assumes it away by more than this fairness.
`SendStatus` of
`SwitchDaemon`: the event of a turn is handled in that turn, by the same process.
`Boot`: `Restart=always`. `Step` of `SwitchManager`:
the loop keeps turning. All are weak: each of these actions, once enabled, stays
enabled until it is taken or something makes it unnecessary. Requests, deaths,
faults and clock changes are never assumed to happen or to stop, except in the
premises of `FaultsClear` and `OverallRecovers`.

## 4. Proofs

Each theorem is about its module's specification, for all constants that satisfy
the module's assumptions (named `...Assumption`), in particular for a day of
86400 seconds, any switch lists, documents and devices.

| Module | Theorems | Argument |
|---|---|---|
| `HNS24HTime_proofs` | lemmas: a sum is a `TimeOfDay`, is at least each summand unless capped | arithmetic, `DaySecs + d < UIntMod` for well-formed `d` |
| `HNSDay_proofs` | lemmas: loads of well-typed objects are well-typed; a sorted day's `Walk` is its `Due`; a stable sort has one result, and exists; `DayLoadsDefined` | the walk stops at a start in the future, and behind it in a sorted day all starts are. A stable sort of a day with one more action is that of the rest with the action inserted behind the last that is not later; the shortest prefix without one would contradict it |
| `SequenceQueue_proofs` | `TypeOK`, `ActiveHasID`, `ConsumedInOrder` for all inputs; `OneAtATime`, `GapKept`, `PollReportsDue` given `WellFormedTexts`; `NoSwitchSkipped` and `SequenceEndsOnTime` (until the clock is set) likewise; `UniformStartsDefined`; `SequenceStuckUntilCancelled` | `OrderInv`: each action starts after the one before it ended, or at 24:00:00. Adding a sequence establishes it, dropping from the front keeps it; it gives `OneAtATime` because an action at 24:00:00 is never active. `NoSwitchSkipped` needs more: an action that is due and long enough was seen by a poll, or the last poll is too recent to have missed it (`FrontSeen`; `LongFirst`: in front of a long one all are long), as long as nobody set the clock (`UnsetSeen`). For `SequenceEndsOnTime`, `LastNotOver`: while a sequence is queued whose last action ends before midnight, the last poll was before that end. All of it together is `SequenceInv`, which holds of a queue emptied from outside too |
| `ScheduleState_proofs` | `TypeOK`, `CommandSurvives`; `InhibitHolds` and `StateMidnightInhibitStays` given `WellFormedDurations` | `CommandSurvives` is inductive with the types and with "a command the daemon has lived since finds it up": a write sets file and history alike, and only a restart reads the file. `PromiseKept`: while a promise is positive, `inhibitUntil` is at least `now + promise` or capped. `ReachesMidnight` is inductive as long as neither a client nor a restart ends it, no clock time being `DaySecs` |
| `ScheduleMatrix_proofs` | `TypeOK`, `MatrixIsFile`, `QueryReportsFile`, `ChangeIsSeen`; `MatrixLoadsDefined` | `MatrixIsFile` is inductive with the types; the query follows from `HNSDay`'s lemmas. For `ChangeIsSeen`, the index is that of the status plus the writes since, modulo `UIntMod`, as long as these are fewer (`IndexCounts`), so an equal index means none, and the file is the document the status was of; otherwise equal CRCs that tell mean equal days, which have the same loads |
| `SwitchManager_proofs` | `TypeOK`, `HealthyMatchesList`, `HealthyStartsOff`, `RaisesOnlyListed`, `OverallMeansDriven`; `ManagerInboundStays`, `ManagerNeverOpenedCounts` | `MapsLoaded`: the maps are what the document gives them; that `Inserted` takes the first object of an id is a well-founded argument (`FirstOf`). `WalkInv`: `nextState` is what the list read so far names by way of the maps (`Named`); at its end that is what the document asks (`AskedIsWanted`). `InboundHasFailed`: a device whose bus was opened has its pins outbound or its expander in `failedAt`. `HealthyIsOpen`: a device that is OK is open. `NotYetHealthy`: before its set-up no device is, which `HealthyStartsOff` needs. `OverallIsOfParts`: at the requests an OK sum is of parts that are OK; with `HealthyIsOpen` and `HealthyMatchesList` of every device it gives `OverallMeansDriven`. `RaisesOnlyListed` needs the first two only: set-up never raises a pin. Between two restarts nothing but the set-up opens a device or changes a direction (`SetUpIsOver`), which gives the last two |
| `SwitchDaemon_proofs` | `PolicyKept` (the daemon implements `SwitchPolicy`); `ListAnnounced`; `InhibitSilencesSchedule` given `WellFormedDurations`; `DaemonSequencesSafe` and `SequenceRunsInFull` given `WellFormedTexts` | `DaemonImplementsState`: every step of the composition is a step or a stutter of `ScheduleState`, whose theorems carry over through `INSTANCE`. `InhibitSilencesSchedule` is then `InhibitHolds` and the loop's question. For `PolicyKept`, `DaemonInv`: what is queued has a switch, what is loaded is a sorted day, a daemon that is down has nothing queued and nothing on; then each action is a step of `SwitchPolicy`, `HNSDay`'s `WalkIsDue` giving the schedule's. `ListAnnounced` needs beside itself (`AnnounceInv`) that a list logged is the one that is on. For the sequences the proofs of the queue are instantiated (`SeqProofs`): a step of the daemon is one of `SequenceQueue` or leaves the queue empty (`StepIsQueueStep`), and both keep `SequenceInv` |
| `EventLoop_proofs` | `TypeOK`, `EventsReachOwner`, `NoLostWakeup`, `ServiceKept` (the loop implements `RequestService`), for any number of clients and at least as many descriptors | `LoopInv`: a client has one connection (`OneConnection`) and one request under way (`OneRequest`); the events of a batch are of different descriptors and about their connections (`EventsInOrder`); the payload the loop waits for belongs to a request of an open connection (`PayloadExpected`); a client that is gone is seen (`GoneIsSeen`). Batches and the ready list are picked by position (`Entries`); what such a pick holds follows from a counting lemma. That `accept` finds a descriptor (`FreeDescriptor`) is a pigeonhole argument from the assumption that there are as many as clients. For `ServiceKept`, `RequestInv`: an event with a hang-up is of a client that has left (`HupsGone`), of a request dispatched nothing is left to read (`ServedAtRest`), a header is read alone only by the loop that waits for its payload, or whose client has left (`HalfRead`), and the eventfd is set when its event is handled (`StatusEventDue`). Then a dispatch maps to `Serve`, a read that fails between header and payload to `Drop`, `sendStatusPacket` to `Broadcast`, and each other step to a client's own or to a stutter |

Why the strengthenings are needed: `OneAtATime` and `GapKept` say nothing of
actions whose start is cut at 24:00:00, so neither survives the removal of the
front by itself; `HealthyMatchesList` depends on what the walk over the list has
collected before the first device is looked at, and on a device whose bus never
opened not being reported OK. `SequenceEndsOnTime` speaks of a tick only, and what
it needs is about the poll before it: that one found the last action not over.

`SeqProofs` takes `Switch \cup {NoSwid}` for the queue's switches, because the
list the daemon has on may be the schedule's, whose actions may lack a switch; it
is the type of `swOn`, not what a sequence may name. `SwitchDaemon` and
`SeqProofs` define operators of the same names from the same parameters;
`SameOperators` says that they agree.

Existence. Some operations are modelled by what their result satisfies:
`UniformStarts` for the loop of `addUniformSequence`, `StableOrders` for
`std::list::sort`, `LoadedArrays` for the loads. Such a model could be wrong by
admitting nothing, and then an action that occurs in the code could not be taken.
`UniformStartsDefined`, `DayLoadsDefined` and `MatrixLoadsDefined` exclude that, and
that there is a choice where the code has none. The library's induction is not
available to them; they consider the least length that fails.

What the violated runs show of one instance these theorems say of all:
`SequenceStuckUntilCancelled` (`seq_stuck`), `StateMidnightInhibitStays`
(`inhibit_ends`) and `ManagerInboundStays` (`healthy_driving`) state how long the
state that is found there lasts, and what ends it. Their premises exclude just
that: a cancel, a client's command, a restart.

Only model-checked: the liveness properties (`SequenceCompletes`,
`InhibitExpires`, `FaultsClear`, `OverallRecovers`, `SilenceReachesSwitches`,
`StatusCatchesUp`, `RequestHandled`, `LoopReturns`), since liveness under fairness
is out of the prover's reach. Every safety property of the passing runs is a
theorem.
That `LoadedArrays` and `StableOrders` describe what the loops of `loadSchedule`
and `std::list::sort` compute is definition, not theorem.

## 5. Not modelled

- `HNDaemonLog`: output only. Of `logSwitchChanges` the comparison and the trigger
  are in `SwitchDaemon`.
- Packets: lengths that do not match, buffers, and a send that runs out of room
  between a header and its payload. An `AF_UNIX` socket counts bytes, and the
  model has none.
- The time, the time zone and the messages and error codes of a status or a
  health response: nothing is decided by them. `getSwitchInfo` only reads.
- Socket calls that fail at startup, an error on the listening socket, running
  out of descriptors, and a daemon that dies with clients connected (they exit
  with an error).
- `restartDevice`, which nothing calls, and `closeDevices`, which is never
  reached.
- Time zone of the schedule: the daemon queries local time.
- The client program's options, the files it reads and what it prints. Which
  packet ends its run is in `EventLoop`; the requests it can send are inputs of
  the other models.
- Build and packaging, except for `Restart=always`.

## 6. What could come next

The modules were written most important first: (1) sequences, whose mistakes open
two valves; (2) enable state; (3) schedule; (4) devices and health; (5) the loop
that composes them, and its statuses; (6) connections and requests. What would
still add to them:

1. `SwitchManager` under `SwitchDaemon`: from the list to the pins. Their states
   multiply beyond what TLC explores; what joins them is only the list, which
   `SwitchManager` takes from any turn (`OnLists`).
2. A packet's header and payload as two sends, with a socket counted in bytes.
3. A schedule with different weekdays under the clock.
4. A bound on how late an inhibit ends, as `SequenceEndsOnTime` is one for
   sequences, also for durations that do not parse.
