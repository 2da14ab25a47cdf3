------------------------- MODULE EventLoop_proofs -------------------------
(***************************************************************************)
(* Proofs about EventLoop, for any number of clients, any capacity of      *)
(* their sockets and any size of a batch of events.                        *)
(***************************************************************************)
EXTENDS EventLoop, FiniteSetTheorems, SequenceTheorems, WellFoundedInduction, TLAPS

(***************************************************************************)
(* What Entries picks.                                                     *)
(***************************************************************************)
\* How many of the positions are up to i.
Count(at, i) == Cardinality({j \in at : j <= i})

LEMMA CountBijection ==
  ASSUME NEW n \in Nat, NEW at \in SUBSET (1 .. n)
  PROVE  /\ IsFiniteSet(at) /\ Cardinality(at) \in Nat
         /\ [i \in at |-> Count(at, i)] \in Bijection(at, 1 .. Cardinality(at))
<1> DEFINE Below(i) == {j \in at : j <= i}
           m == Cardinality(at)
           count == [i \in at |-> Count(at, i)]
<1>1. IsFiniteSet(at) /\ m \in Nat
  <2>1. IsFiniteSet(1 .. n)
    BY FS_Interval
  <2>2. IsFiniteSet(at)
    BY <2>1, FS_Subset
  <2> QED BY <2>2, FS_CardinalityType
<1>2. ASSUME NEW i \in at
      PROVE  IsFiniteSet(Below(i)) /\ Cardinality(Below(i)) \in 1 .. m
  <2>1. IsFiniteSet(Below(i)) /\ Cardinality(Below(i)) <= m /\ Cardinality(Below(i)) \in Nat
    BY <1>1, FS_Subset, FS_CardinalityType
  <2>2. i \in Below(i)
    OBVIOUS
  <2>3. Cardinality(Below(i)) # 0
    BY <2>1, <2>2, FS_EmptySet
  <2> QED BY <1>1, <2>1, <2>3
<1>3. ASSUME NEW i \in at, NEW j \in at, i < j
      PROVE  Cardinality(Below(i)) # Cardinality(Below(j))
  <2>0. at \subseteq Nat
    OBVIOUS
  <2>1. Below(i) \in SUBSET Below(j) /\ j \in Below(j) /\ j \notin Below(i)
    <3>1. \A p \in at : p <= i => p <= j
      BY <1>3, <2>0
    <3>2. j <= j /\ ~ (j <= i)
      BY <1>3, <2>0
    <3> QED BY <3>1, <3>2
  <2>2. Below(i) # Below(j)
    BY <2>1
  <2>3. IsFiniteSet(Below(j))
    BY <1>2
  <2> HIDE DEF Below
  <2>4. Cardinality(Below(j)) = Cardinality(Below(i)) => Below(j) = Below(i)
    BY <2>1, <2>3, FS_Subset
  <2> QED BY <2>2, <2>4
<1>4. count \in [at -> 1 .. m]
  BY <1>2 DEF Count
<1>5. count \in Injection(at, 1 .. m)
  <2>1. ASSUME NEW i \in at, NEW j \in at, count[i] = count[j] PROVE i = j
    <3>1. Cardinality(Below(i)) = Cardinality(Below(j))
      BY <2>1 DEF Count
    <3>2. ~ (i < j) /\ ~ (j < i)
      BY <1>3, <3>1
    <3> QED BY <3>2
  <2> QED BY <1>4, <2>1 DEF Injection, IsInjective
<1>6. IsFiniteSet(1 .. m) /\ Cardinality(1 .. m) = m
  BY <1>1, FS_Interval
<1>7. count \in Surjection(at, 1 .. m)
  BY <1>5, <1>6, FS_Injection
<1> QED BY <1>1, <1>5, <1>7 DEF Bijection

\* Entries(list, at) has exactly the entries at those positions, none twice if
\* list has none twice.
LEMMA EntriesOfList ==
  ASSUME NEW T, NEW list \in Seq(T), NEW at \in SUBSET DOMAIN list
  PROVE  /\ Entries(list, at) \in Seq(T)
         /\ Range(Entries(list, at)) = {list[i] : i \in at}
         /\ IsInjective(list) => IsInjective(Entries(list, at))
<1> DEFINE m == Cardinality(at)
           nth(k) == CHOOSE i \in at : Cardinality({j \in at : j <= i}) = k
           picked == [k \in 1 .. m |-> list[nth(k)]]
<1>0. at \in SUBSET (1 .. Len(list)) /\ Len(list) \in Nat
  OBVIOUS
<1>1. m \in Nat /\ [i \in at |-> Count(at, i)] \in Bijection(at, 1 .. m)
  BY <1>0, CountBijection
<1>2. ASSUME NEW k \in 1 .. m PROVE nth(k) \in at /\ Count(at, nth(k)) = k
  <2>1. PICK i \in at : Count(at, i) = k
    BY <1>1 DEF Bijection, Surjection
  <2> QED BY <2>1 DEF Count
<1>3. ASSUME NEW i \in at PROVE Count(at, i) \in 1 .. m /\ nth(Count(at, i)) = i
  <2>1. Count(at, i) \in 1 .. m
    BY <1>1 DEF Bijection, Injection
  <2>2. \A a, b \in at : Count(at, a) = Count(at, b) => a = b
    BY <1>1 DEF Bijection, Injection, IsInjective
  <2> QED BY <1>2, <2>1, <2>2
<1>4. Entries(list, at) = picked
  BY DEF Entries
<1> HIDE DEF nth
<1>5. \A i \in at : list[i] \in T
  BY <1>0
<1>6. picked \in Seq(T)
  BY <1>1, <1>2, <1>5, SeqDef
<1>7. Range(picked) = {list[i] : i \in at}
  BY <1>2, <1>3 DEF Range
<1>8. ASSUME IsInjective(list) PROVE IsInjective(picked)
  <2>1. \A a, b \in at : list[a] = list[b] => a = b
    BY <1>8 DEF IsInjective
  <2> QED BY <1>2, <2>1 DEF IsInjective
<1> QED BY <1>4, <1>6, <1>7, <1>8

LEMMA WithoutList ==
  ASSUME NEW T, NEW list \in Seq(T), NEW fds
  PROVE  /\ Without(list, fds) \in Seq(T)
         /\ Range(Without(list, fds)) = Range(list) \ fds
         /\ IsInjective(list) => IsInjective(Without(list, fds))
<1> DEFINE at == {i \in DOMAIN list : list[i] \notin fds}
<1>1. /\ Entries(list, at) \in Seq(T)
      /\ Range(Entries(list, at)) = {list[i] : i \in at}
      /\ IsInjective(list) => IsInjective(Entries(list, at))
  BY EntriesOfList
<1>2. {list[i] : i \in at} = Range(list) \ fds
  BY DEF Range
<1> QED BY <1>1, <1>2 DEF Without

LEMMA ReadyList ==
  ASSUME NEW T, NEW list \in Seq(T), NEW fd \in T, IsInjective(list)
  PROVE  /\ Ready(list, fd) \in Seq(T)
         /\ Range(Ready(list, fd)) = Range(list) \cup {fd}
         /\ IsInjective(Ready(list, fd))
<1>1. CASE fd \in Range(list)
  BY <1>1 DEF Ready
<1>2. CASE fd \notin Range(list)
  <2>1. /\ Append(list, fd) \in Seq(T) /\ DOMAIN list = 1 .. Len(list) /\ Len(list) \in Nat
        /\ DOMAIN Append(list, fd) = 1 .. Len(list) + 1
        /\ \A i \in 1 .. Len(list) : Append(list, fd)[i] = list[i]
        /\ Append(list, fd)[Len(list) + 1] = fd
    OBVIOUS
  <2>2. \A i \in 1 .. Len(list) : list[i] # fd
    BY <1>2, <2>1 DEF Range
  <2>3. IsInjective(Append(list, fd))
    BY <2>1, <2>2 DEF IsInjective
  <2>4. Range(Append(list, fd)) = Range(list) \cup {fd}
    BY <2>1 DEF Range
  <2> QED BY <1>2, <2>1, <2>3, <2>4 DEF Ready
<1> QED BY <1>1, <1>2

(***************************************************************************)
(* The inductive invariant.                                                *)
(***************************************************************************)
\* A client has at most one connection, accepted or in the backlog.
OneConnection ==
  /\ \A f, g \in Fd : Open(f) /\ owner[f] = owner[g] => f = g
  /\ IsInjective(backlog)
  /\ \A f \in Fd : owner[f] \notin Range(backlog)
  /\ \A c \in Client : phase[c] = "idle" =>
       c \notin Range(backlog) /\ \A f \in Fd : owner[f] # c

\* A client sends one request, the packets of it in order.
OneRequest ==
  \A c \in Client :
    /\ toDaemon[c] \in {<<>>, <<"header">>, <<"payload">>, <<"header", "payload">>}
    /\ ~HasPayload(kind[c]) => toDaemon[c] \in {<<>>, <<"header">>}
    /\ phase[c] \in {"idle", "connected"} => toDaemon[c] = <<>>
    /\ phase[c] = "sending" => HasPayload(kind[c]) /\ toDaemon[c] \in {<<>>, <<"header">>}

\* The loop is in its events as long as there are some; each is of another
\* descriptor, and those of connections are open.
EventsInOrder ==
  /\ pc = "wait" <=> batch = <<>>
  /\ IsInjective(ready)
  /\ \A i, j \in DOMAIN batch : batch[i].fd = batch[j].fd => i = j
  /\ \A i \in DOMAIN batch : batch[i].fd \in Fd => Open(batch[i].fd)
  /\ EventsReachOwner

\* A payload that is waited for is the next packet of a connected client.
PayloadExpected ==
  pc = "payload" =>
    /\ batch[1].fd \in Fd
    /\ ~batch[1].hup
    /\ phase[owner[batch[1].fd]] \notin {"idle", "connected"}
    /\ toDaemon[owner[batch[1].fd]] \in {<<>>, <<"payload">>}

\* Descriptors that are to be looked at again, or whose event says that the
\* client is gone.
ToClose == Range(ready) \cup {batch[i].fd : i \in {j \in DOMAIN batch : batch[j].hup}}

GoneIsSeen == \A fd \in Fd : Open(fd) /\ Gone(owner[fd]) => fd \in ToClose

LoopInv ==
  /\ TypeOK
  /\ OneConnection
  /\ OneRequest
  /\ EventsInOrder
  /\ PayloadExpected
  /\ GoneIsSeen
  /\ NoLostWakeup

(***************************************************************************)
(* The ready list and the batch.                                           *)
(***************************************************************************)
FDs == Fd \cup {AcceptFD, StatusFD}
Event == [fd : FDs, hup : BOOLEAN, conn : Client \cup {NoClient}]

EventFds == {batch[i].fd : i \in DOMAIN batch}
HupFds == {batch[i].fd : i \in {j \in DOMAIN batch : batch[j].hup}}

\* The ready list has grown, or is as it was.
ReadyGrows ==
  ready' \in Seq(FDs) /\ IsInjective(ready') /\ Range(ready) \subseteq Range(ready')

LEMMA ListTypes ==
  ASSUME LoopInv
  PROVE  /\ ready \in Seq(FDs) /\ IsInjective(ready) /\ batch \in Seq(Event)
         /\ Pending = Range(ready) \cup EventFds /\ ToClose = Range(ready) \cup HupFds
BY DEF LoopInv, TypeOK, EventsInOrder, FDs, Event, Pending, ToClose, EventFds, HupFds

LEMMA ReadyKept == ASSUME LoopInv, UNCHANGED ready PROVE ReadyGrows
BY ListTypes DEF ReadyGrows

LEMMA ReadyAdds ==
  ASSUME LoopInv, NEW fd \in FDs, ready' = Ready(ready, fd)
  PROVE  ReadyGrows /\ Range(ready') = Range(ready) \cup {fd}
<1>1. ready \in Seq(FDs) /\ IsInjective(ready)
  BY ListTypes
<1> QED BY <1>1, ReadyList DEF ReadyGrows

\* A client's connection, if it is accepted, is on the list once it has woken
\* the daemon.
LEMMA WakeSeen ==
  ASSUME LoopInv, NEW c \in Client, Wake(c)
  PROVE  ReadyGrows /\ \A fd \in Fd : owner[fd] = c => fd \in Range(ready')
<1>1. CASE \E fd \in Fd : owner[fd] = c
  <2> DEFINE own == CHOOSE fd \in Fd : owner[fd] = c
  <2>1. own \in Fd /\ owner[own] = c
    BY <1>1
  <2>2. \A fd \in Fd : owner[fd] = c => fd = own
    <3>1. c # NoClient
      BY EventLoopAssumption
    <3>2. ASSUME NEW fd \in Fd, owner[fd] = c PROVE fd = own
      BY <2>1, <3>1, <3>2 DEF LoopInv, OneConnection, Open
    <3> QED BY <3>2
  <2>3. ready' = Ready(ready, own)
    BY <1>1 DEF Wake
  <2> HIDE DEF own
  <2>4. ReadyGrows /\ Range(ready') = Range(ready) \cup {own}
    BY <2>1, <2>3, ReadyAdds DEF FDs
  <2> QED BY <2>2, <2>4
<1>2. CASE ~ \E fd \in Fd : owner[fd] = c
  BY <1>2, ReadyKept DEF Wake
<1> QED BY <1>1, <1>2

\* Between the events, things are only put on the list.
LEMMA BatchKept ==
  ASSUME LoopInv, ReadyGrows, UNCHANGED <<batch, owner, clientMap>>,
         pc' = "wait" <=> pc = "wait"
  PROVE  EventsInOrder' /\ Pending \subseteq Pending' /\ ToClose \subseteq ToClose'
BY DEF LoopInv, ReadyGrows, EventsInOrder, EventsReachOwner, Pending, ToClose, Open

\* An event that has been dealt with.
LEMMA Popped ==
  ASSUME LoopInv, pc # "wait", NextEvent
  PROVE  /\ batch \in Seq(Event) /\ 1 \in DOMAIN batch /\ batch[1] \in Event
         /\ batch' \in Seq(Event) /\ Len(batch') <= Len(batch)
         /\ pc' \in {"wait", "events"} /\ (pc' = "wait" <=> batch' = <<>>)
         /\ \A i \in DOMAIN batch' : i + 1 \in DOMAIN batch /\ batch'[i] = batch[i + 1]
         /\ \A i \in DOMAIN batch \ {1} : i - 1 \in DOMAIN batch' /\ batch'[i - 1] = batch[i]
         /\ \A i \in DOMAIN batch' : batch'[i].fd # batch[1].fd
<1>1. batch \in Seq(Event) /\ batch # <<>>
  BY ListTypes DEF LoopInv, EventsInOrder
<1>2. /\ Len(batch) \in Nat \ {0} /\ DOMAIN batch = 1 .. Len(batch)
      /\ batch' \in Seq(Event) /\ Len(batch') = Len(batch) - 1
      /\ DOMAIN batch' = 1 .. Len(batch) - 1
      /\ \A i \in 1 .. Len(batch) - 1 : batch'[i] = batch[i + 1]
  BY <1>1 DEF NextEvent
<1>3. \A i \in DOMAIN batch' : i + 1 \in DOMAIN batch /\ batch'[i] = batch[i + 1]
  BY <1>2
<1>4. \A i \in DOMAIN batch \ {1} : i - 1 \in DOMAIN batch' /\ batch'[i - 1] = batch[i]
  BY <1>2
<1>5. 1 \in DOMAIN batch /\ batch[1] \in Event /\ Len(batch') <= Len(batch)
  BY <1>1, <1>2
<1>6. ASSUME NEW i \in DOMAIN batch' PROVE batch'[i].fd # batch[1].fd
  <2>1. i + 1 \in DOMAIN batch /\ batch'[i] = batch[i + 1] /\ i + 1 # 1
    BY <1>2, <1>3, <1>6
  <2> QED BY <1>5, <2>1 DEF LoopInv, EventsInOrder
<1>7. pc' \in {"wait", "events"} /\ (pc' = "wait" <=> batch' = <<>>)
  <2>1. batch' = <<>> <=> Len(batch') = 0
    BY <1>2
  <2>2. Len(batch) = 1 <=> Len(batch') = 0
    BY <1>2
  <2> QED BY <2>1, <2>2 DEF NextEvent
<1> QED BY <1>1, <1>2, <1>3, <1>4, <1>5, <1>6, <1>7

LEMMA PoppedFds ==
  ASSUME LoopInv, pc # "wait", NextEvent
  PROVE  /\ EventFds' = EventFds \ {batch[1].fd}
         /\ HupFds' = HupFds \ {batch[1].fd}
         /\ ~batch[1].hup => HupFds' = HupFds
<1>1. EventFds' = EventFds \ {batch[1].fd}
  <2>1. ASSUME NEW fd \in EventFds' PROVE fd \in EventFds \ {batch[1].fd}
    BY <2>1, Popped DEF EventFds
  <2>2. ASSUME NEW fd \in EventFds \ {batch[1].fd} PROVE fd \in EventFds'
    <3>1. PICK i \in DOMAIN batch : fd = batch[i].fd
      BY DEF EventFds
    <3>2. i # 1
      BY <3>1
    <3> QED BY <3>1, <3>2, Popped DEF EventFds
  <2> QED BY <2>1, <2>2
<1>2. HupFds' = HupFds \ {batch[1].fd}
  <2>1. ASSUME NEW fd \in HupFds' PROVE fd \in HupFds \ {batch[1].fd}
    BY <2>1, Popped DEF HupFds
  <2>2. ASSUME NEW fd \in HupFds \ {batch[1].fd} PROVE fd \in HupFds'
    <3>1. PICK i \in DOMAIN batch : fd = batch[i].fd /\ batch[i].hup
      BY DEF HupFds
    <3>2. i # 1
      BY <3>1
    <3> QED BY <3>1, <3>2, Popped DEF HupFds
  <2> QED BY <2>1, <2>2
<1>3. ASSUME ~batch[1].hup PROVE batch[1].fd \notin HupFds
  <2>1. 1 \in DOMAIN batch
    BY Popped
  <2> QED BY <1>3, <2>1 DEF LoopInv, EventsInOrder, HupFds
<1> QED BY <1>1, <1>2, <1>3

LEMMA BatchPopped ==
  ASSUME LoopInv, pc # "wait", NextEvent, ready' \in Seq(FDs), IsInjective(ready'),
         \A fd \in Fd \ {batch[1].fd} : owner'[fd] = owner[fd],
         clientMap' = {fd \in Fd : owner'[fd] # NoClient}
  PROVE  EventsInOrder' /\ PayloadExpected'
<1>1. \A i, j \in DOMAIN batch' : batch'[i].fd = batch'[j].fd => i = j
  <2>1. ASSUME NEW i \in DOMAIN batch', NEW j \in DOMAIN batch', batch'[i].fd = batch'[j].fd
        PROVE  i = j
    <3>1. i + 1 = j + 1 /\ i \in Nat /\ j \in Nat
      BY <2>1, Popped DEF LoopInv, EventsInOrder
    <3> QED BY <3>1
  <2> QED BY <2>1
<1>2. \A i \in DOMAIN batch' : batch'[i].fd \in Fd =>
        owner'[batch'[i].fd] # NoClient /\ owner'[batch'[i].fd] = batch'[i].conn
  <2>1. ASSUME NEW i \in DOMAIN batch', batch'[i].fd \in Fd
        PROVE  owner'[batch'[i].fd] # NoClient /\ owner'[batch'[i].fd] = batch'[i].conn
    <3>1. i + 1 \in DOMAIN batch /\ batch'[i] = batch[i + 1] /\ batch'[i].fd # batch[1].fd
      BY <2>1, Popped
    <3>2. Open(batch[i + 1].fd) /\ owner[batch[i + 1].fd] = batch[i + 1].conn
      BY <2>1, <3>1 DEF LoopInv, EventsInOrder, EventsReachOwner
    <3> QED BY <2>1, <3>1, <3>2 DEF Open
  <2> QED BY <2>1
<1>3. pc' = "wait" <=> batch' = <<>>
  BY Popped
<1>4. pc' # "payload"
  BY Popped
<1> QED BY <1>1, <1>2, <1>3, <1>4
        DEF EventsInOrder, EventsReachOwner, PayloadExpected, Open

(***************************************************************************)
(* Steps of the clients.                                                   *)
(***************************************************************************)
\* Whoever sends or leaves wakes the daemon.
LEMMA ClientSeen ==
  ASSUME LoopInv, ReadyGrows, UNCHANGED <<batch, pc, owner, clientMap, statusCount>>,
         backlog' # <<>> => backlog # <<>> \/ AcceptFD \in Range(ready'),
         \A c \in Client :
           \/ \A fd \in Fd : owner[fd] = c => fd \in Range(ready')
           \/ /\ phase'[c] \in {"done", "killed"} => phase[c] \in {"done", "killed"}
              /\ toDaemon'[c] # <<>> => toDaemon[c] # <<>>
  PROVE  EventsInOrder' /\ GoneIsSeen' /\ NoLostWakeup'
<1>1. EventsInOrder' /\ Pending \subseteq Pending' /\ ToClose \subseteq ToClose'
  BY BatchKept
<1>2. Range(ready') \subseteq Pending' /\ Range(ready') \subseteq ToClose'
  BY DEF Pending, ToClose
<1>3. \A fd \in Fd : Open(fd) => owner[fd] \in Client
  BY DEF LoopInv, TypeOK, Open
<1>4. GoneIsSeen'
  <2> SUFFICES ASSUME NEW fd \in Fd, Open(fd), phase'[owner[fd]] \in {"done", "killed"}
               PROVE  fd \in ToClose'
    BY DEF GoneIsSeen, Open, Gone
  <2> QED BY <1>1, <1>2, <1>3 DEF LoopInv, GoneIsSeen, Gone
<1>5. NoLostWakeup'
  <2>1. backlog' # <<>> => AcceptFD \in Pending'
    BY <1>1, <1>2 DEF LoopInv, NoLostWakeup
  <2>2. statusCount' => StatusFD \in Pending'
    BY <1>1 DEF LoopInv, NoLostWakeup
  <2>3. ASSUME NEW fd \in Fd, Open(fd),
               phase'[owner[fd]] \in {"done", "killed"} \/ toDaemon'[owner[fd]] # <<>>
        PROVE  fd \in Pending'
    BY <1>1, <1>2, <1>3, <2>3 DEF LoopInv, NoLostWakeup, Gone
  <2> QED BY <2>1, <2>2, <2>3 DEF NoLostWakeup, Open, Gone
<1> QED BY <1>1, <1>4, <1>5

LEMMA ConnectStep == ASSUME LoopInv, NEW c \in Client, Connect(c) PROVE LoopInv'
<1>0. /\ phase[c] = "idle" /\ phase' = [phase EXCEPT ![c] = "connected"]
      /\ backlog' = Append(backlog, c) /\ ready' = Ready(ready, AcceptFD)
      /\ UNCHANGED <<kind, last, toDaemon, toClient, statusCount>>
      /\ UNCHANGED <<owner, clientMap, batch, pc, handled>>
  BY DEF Connect, daemon
<1>1. ReadyGrows /\ AcceptFD \in Range(ready') /\ ready' \in Seq(FDs)
  BY <1>0, ReadyAdds DEF FDs, ReadyGrows
<1>2. c \notin Range(backlog) /\ \A f \in Fd : owner[f] # c
  BY <1>0 DEF LoopInv, OneConnection
<1>3. /\ backlog' \in Seq(Client) /\ IsInjective(backlog')
      /\ Range(backlog') = Range(backlog) \cup {c}
  <2>1. backlog' = Ready(backlog, c)
    BY <1>0, <1>2 DEF Ready
  <2>2. backlog \in Seq(Client) /\ IsInjective(backlog)
    BY DEF LoopInv, TypeOK, OneConnection
  <2> QED BY <2>1, <2>2, ReadyList
<1>4. phase \in [Client -> {"idle", "connected", "sending", "waiting", "done", "killed"}]
  BY DEF LoopInv, TypeOK
<1>5. TypeOK'
  BY <1>0, <1>1, <1>3, <1>4 DEF LoopInv, TypeOK, FDs
<1>6. OneConnection'
  BY <1>0, <1>2, <1>3, <1>4 DEF LoopInv, OneConnection, Open
<1>7. OneRequest'
  BY <1>0, <1>4 DEF LoopInv, OneRequest
<1>8. PayloadExpected'
  BY <1>0, <1>2, <1>4 DEF LoopInv, PayloadExpected
<1>9. EventsInOrder' /\ GoneIsSeen' /\ NoLostWakeup'
  BY <1>0, <1>1, <1>4, ClientSeen
<1> QED BY <1>5, <1>6, <1>7, <1>8, <1>9 DEF LoopInv

\* Header and payload, in this order.
LEMMA AppendSecond ==
  ASSUME NEW a, NEW b PROVE Append(<<a>>, b) = <<a, b>>
<1> DEFINE T == {a, b}
<1>0. a \in T /\ b \in T
  OBVIOUS
<1> HIDE DEF T
<1>1. <<a>> \in Seq(T) /\ Len(<<a>>) = 1 /\ <<a>>[1] = a
  BY <1>0
<1>2. <<a, b>> \in Seq(T) /\ Len(<<a, b>>) = 2 /\ <<a, b>>[1] = a /\ <<a, b>>[2] = b
  BY <1>0
<1>3. ASSUME NEW s \in Seq(T), Len(s) = 1, s[1] = a
      PROVE  Append(s, b) \in Seq(T) /\ Len(Append(s, b)) = 2 /\ Append(s, b)[1] = a /\ Append(s, b)[2] = b
  <2>0. Append(s, b) \in Seq(T) /\ Len(Append(s, b)) = Len(s) + 1
    BY <1>0
  <2>1. Len(Append(s, b)) = 2
    BY <1>3, <2>0
  <2>2. Append(s, b)[Len(s) + 1] = b
    OBVIOUS
  <2>3. Append(s, b)[2] = b
    BY <1>3, <2>2
  <2>4. \A i \in 1 .. Len(s) : Append(s, b)[i] = s[i]
    OBVIOUS
  <2>5. 1 \in 1 .. Len(s)
    BY <1>3
  <2>6. Append(s, b)[1] = s[1]
    BY <2>4, <2>5
  <2> QED BY <1>3, <2>0, <2>1, <2>3, <2>6
<1>4. ASSUME NEW s \in Seq(T), NEW t \in Seq(T), Len(s) = 2, Len(t) = 2, s[1] = t[1], s[2] = t[2]
      PROVE  s = t
  <2>1. \A i \in 1 .. 2 : i = 1 \/ i = 2
    OBVIOUS
  <2>2. \A i \in 1 .. Len(s) : s[i] = t[i]
    BY <1>4, <2>1
  <2> QED BY <1>4, <2>2, SeqEqual
<1> QED BY <1>1, <1>2, <1>3, <1>4

LEMMA SendStep ==
  ASSUME LoopInv, NEW c \in Client, SendHeader(c) \/ SendPayload(c) PROVE LoopInv'
<1> DEFINE packet == IF phase[c] = "connected" THEN "header" ELSE "payload"
           after == IF phase[c] = "connected" /\ HasPayload(kind[c]) THEN "sending" ELSE "waiting"
<1>0. /\ phase[c] \in {"connected", "sending"} /\ phase' = [phase EXCEPT ![c] = after]
      /\ toDaemon' = [toDaemon EXCEPT ![c] = Append(@, packet)]
      /\ Wake(c)
      /\ UNCHANGED <<kind, last, toClient, backlog, statusCount>>
      /\ UNCHANGED <<owner, clientMap, batch, pc, handled>>
  BY DEF SendHeader, SendPayload, Send, daemon
<1>1. ReadyGrows /\ ready' \in Seq(FDs) /\ \A fd \in Fd : owner[fd] = c => fd \in Range(ready')
  BY <1>0, WakeSeen DEF ReadyGrows
<1>2. /\ phase \in [Client -> {"idle", "connected", "sending", "waiting", "done", "killed"}]
      /\ toDaemon \in [Client -> Seq({"header", "payload"})]
  BY DEF LoopInv, TypeOK
<1>3. \/ toDaemon[c] = <<>>
      \/ toDaemon[c] = <<"header">> /\ phase[c] = "sending"
  BY <1>0 DEF LoopInv, OneRequest
<1>3a. phase[c] = "sending" => HasPayload(kind[c])
  BY DEF LoopInv, OneRequest
<1>4. /\ toDaemon'[c] = Append(toDaemon[c], packet)
      /\ \A d \in Client \ {c} : toDaemon'[d] = toDaemon[d] /\ phase'[d] = phase[d]
      /\ phase'[c] = after
  BY <1>0, <1>2
<1>5. \/ phase[c] = "connected" /\ toDaemon[c] = <<>> /\ toDaemon'[c] = <<"header">>
      \/ phase[c] = "sending" /\ toDaemon[c] = <<>> /\ toDaemon'[c] = <<"payload">>
      \/ phase[c] = "sending" /\ toDaemon[c] = <<"header">> /\ toDaemon'[c] = <<"header", "payload">>
  <2>1. CASE phase[c] = "connected"
    <3>1. toDaemon[c] = <<>>
      BY <2>1 DEF LoopInv, OneRequest
    <3>2. toDaemon'[c] = Append(toDaemon[c], "header")
      BY <1>4, <2>1
    <3>3. Append(<<>>, "header") = <<"header">>
      OBVIOUS
    <3> QED BY <2>1, <3>1, <3>2, <3>3
  <2>2. CASE phase[c] = "sending"
    <3>1. toDaemon'[c] = Append(toDaemon[c], "payload")
      BY <1>4, <2>2
    <3>2. Append(<<>>, "payload") = <<"payload">>
      OBVIOUS
    <3>3. Append(<<"header">>, "payload") = <<"header", "payload">>
      BY AppendSecond, Zenon
    <3> QED BY <1>3, <2>2, <3>1, <3>2, <3>3
  <2> QED BY <1>0, <2>1, <2>2
<1>6. TypeOK'
  <2>1. toDaemon' \in [Client -> Seq({"header", "payload"})]
    BY <1>0, <1>2
  <2>2. Len(<<"header">>) = 1 /\ Len(<<"payload">>) = 1 /\ Len(<<"header", "payload">>) = 2
    OBVIOUS
  <2>3. Len(toDaemon'[c]) \in {1, 2}
    BY <1>5, <2>2
  <2>4. \A d \in Client : Len(toDaemon'[d]) <= 2 /\ Len(toClient'[d]) <= MaxQueued
    BY <1>0, <1>4, <2>3 DEF LoopInv, TypeOK
  <2> QED BY <1>0, <1>1, <1>2, <2>1, <2>4 DEF LoopInv, TypeOK, FDs
<1>7. OneConnection'
  BY <1>0, <1>2 DEF LoopInv, OneConnection, Open
<1>8. OneRequest'
  <2>1. phase[c] = "connected" => toDaemon'[c] = <<"header">>
    BY <1>5
  <2>2. phase'[c] = "sending" => HasPayload(kind[c]) /\ toDaemon'[c] = <<"header">>
    BY <1>4, <2>1
  <2>3. ~HasPayload(kind[c]) => toDaemon'[c] = <<"header">>
    BY <1>0, <1>3a, <2>1
  <2>4. phase'[c] \notin {"idle", "connected"}
    BY <1>4
  <2>5. \A d \in Client \ {c} : 
          /\ toDaemon'[d] \in {<<>>, <<"header">>, <<"payload">>, <<"header", "payload">>}
          /\ ~HasPayload(kind[d]) => toDaemon'[d] \in {<<>>, <<"header">>}
          /\ phase'[d] \in {"idle", "connected"} => toDaemon'[d] = <<>>
          /\ phase'[d] = "sending" => HasPayload(kind[d]) /\ toDaemon'[d] \in {<<>>, <<"header">>}
    BY <1>4 DEF LoopInv, OneRequest
  <2> QED BY <1>0, <1>5, <2>2, <2>3, <2>4, <2>5 DEF OneRequest, HasPayload
<1>9. PayloadExpected'
  <2> SUFFICES ASSUME pc = "payload"
               PROVE  /\ batch[1].fd \in Fd
                      /\ ~batch[1].hup
                      /\ phase'[owner[batch[1].fd]] \notin {"idle", "connected"}
                      /\ toDaemon'[owner[batch[1].fd]] \in {<<>>, <<"payload">>}
    BY <1>0 DEF PayloadExpected
  <2>1. /\ batch[1].fd \in Fd
        /\ ~batch[1].hup
        /\ phase[owner[batch[1].fd]] \notin {"idle", "connected"}
        /\ toDaemon[owner[batch[1].fd]] \in {<<>>, <<"payload">>}
    BY DEF LoopInv, PayloadExpected
  <2>2. owner[batch[1].fd] \in Client
    <3>1. batch # <<>> /\ batch \in Seq(Event)
      BY ListTypes DEF LoopInv, EventsInOrder
    <3>2. 1 \in DOMAIN batch
      BY <3>1
    <3> QED BY <2>1, <3>2 DEF LoopInv, TypeOK, EventsInOrder, Open
  <2>3. CASE owner[batch[1].fd] # c
    BY <1>4, <2>1, <2>2, <2>3
  <2>4. CASE owner[batch[1].fd] = c
    <3>1. phase[c] = "sending" /\ toDaemon[c] = <<>>
      BY <1>0, <1>3, <2>1, <2>4
    <3>2. toDaemon'[c] = <<"payload">>
      BY <1>4, <3>1
    <3> QED BY <1>4, <2>1, <2>4, <3>2
  <2> QED BY <2>3, <2>4
<1>10. EventsInOrder' /\ GoneIsSeen' /\ NoLostWakeup'
  <2>1. phase'[c] \notin {"done", "killed"}
    BY <1>4
  <2> QED BY <1>0, <1>1, <1>4, <2>1, ClientSeen
<1> QED BY <1>6, <1>7, <1>8, <1>9, <1>10 DEF LoopInv

\* A client that reads a packet or is killed.
LEMMA LeaveStep ==
  ASSUME LoopInv, NEW c \in Client, Receive(c) \/ Kill(c) PROVE LoopInv'
<1>0. /\ \/ phase' = phase /\ UNCHANGED ready
         \/ /\ phase[c] \notin {"idle", "done", "killed"} /\ Wake(c)
            /\ \E end \in {"done", "killed"} : phase' = [phase EXCEPT ![c] = end]
      /\ UNCHANGED <<kind, toDaemon, backlog, statusCount>>
      /\ UNCHANGED <<owner, clientMap, batch, pc, handled>>
  BY DEF Receive, Kill, daemon
<1>1. ReadyGrows /\ ready' \in Seq(FDs)
  BY <1>0, WakeSeen, ReadyKept DEF ReadyGrows
<1>2. \/ phase' = phase
      \/ \A fd \in Fd : owner[fd] = c => fd \in Range(ready')
  BY <1>0, WakeSeen
<1>3. phase \in [Client -> {"idle", "connected", "sending", "waiting", "done", "killed"}]
  BY DEF LoopInv, TypeOK
<1>4. \A d \in Client : phase'[d] = phase[d] \/ (d = c /\ phase'[d] \in {"done", "killed"})
  BY <1>0, <1>3
<1>5. TypeOK'
  <2>1. phase' \in [Client -> {"idle", "connected", "sending", "waiting", "done", "killed"}]
    BY <1>0, <1>3
  <2>2. /\ last' \in [Client -> {"none", "DAEMON_STATUS"} \cup Kinds]
        /\ toClient' \in [Client -> Seq({"DAEMON_STATUS"} \cup Kinds)]
        /\ \A d \in Client : Len(toClient'[d]) <= MaxQueued
    <3>1. CASE Kill(c)
      BY <3>1 DEF Kill, LoopInv, TypeOK
    <3>2. CASE Receive(c)
      <4>1. /\ toClient[c] \in Seq({"DAEMON_STATUS"} \cup Kinds) /\ toClient[c] # <<>>
            /\ last' = [last EXCEPT ![c] = Head(toClient[c])]
            /\ toClient' = [toClient EXCEPT ![c] = Tail(toClient[c])]
        BY <3>2 DEF Receive, LoopInv, TypeOK
      <4>2. /\ Head(toClient[c]) \in {"DAEMON_STATUS"} \cup Kinds
            /\ Tail(toClient[c]) \in Seq({"DAEMON_STATUS"} \cup Kinds)
            /\ Len(Tail(toClient[c])) = Len(toClient[c]) - 1
            /\ Len(toClient[c]) \in Nat
        BY <4>1
      <4>3. MaxQueued \in Nat
        BY EventLoopAssumption
      <4>4. Len(Tail(toClient[c])) <= MaxQueued
        BY <4>2, <4>3 DEF LoopInv, TypeOK
      <4> QED BY <4>1, <4>2, <4>4 DEF LoopInv, TypeOK
    <3> QED BY <3>1, <3>2
  <2> QED BY <1>0, <1>1, <2>1, <2>2 DEF LoopInv, TypeOK, FDs
<1>6. OneConnection'
  BY <1>0, <1>4 DEF LoopInv, OneConnection, Open
<1>7. OneRequest'
  BY <1>0, <1>4 DEF LoopInv, OneRequest, HasPayload
<1>8. PayloadExpected'
  <2>1. pc = "payload" => owner[batch[1].fd] \in Client
    <3>1. pc = "payload" => batch # <<>> /\ batch \in Seq(Event)
      BY ListTypes DEF LoopInv, EventsInOrder
    <3>2. pc = "payload" => 1 \in DOMAIN batch
      BY <3>1
    <3> QED BY <3>2 DEF LoopInv, TypeOK, EventsInOrder, PayloadExpected, Open
  <2> QED BY <1>0, <1>4, <2>1 DEF LoopInv, PayloadExpected
<1>9. EventsInOrder' /\ GoneIsSeen' /\ NoLostWakeup'
  BY <1>0, <1>1, <1>2, <1>4, ClientSeen
<1> QED BY <1>5, <1>6, <1>7, <1>8, <1>9 DEF LoopInv

(***************************************************************************)
(* Steps of the loop.                                                      *)
(***************************************************************************)
\* The event that is handled, and whose it is.
LEMMA FirstEvent ==
  ASSUME LoopInv, pc # "wait"
  PROVE  /\ 1 \in DOMAIN batch /\ batch[1] \in Event
         /\ batch[1].fd \in Fd => owner[batch[1].fd] \in Client
<1>1. batch \in Seq(Event) /\ batch # <<>>
  BY ListTypes DEF LoopInv, EventsInOrder
<1>2. 1 \in DOMAIN batch /\ batch[1] \in Event
  BY <1>1
<1>3. batch[1].fd \in Fd => owner[batch[1].fd] \in Client
  BY <1>2 DEF LoopInv, TypeOK, EventsInOrder, Open
<1> QED BY <1>2, <1>3

\* A handled event is no longer among what the loop is going to look at, unless
\* its descriptor is on the ready list again.
LEMMA EventDone ==
  ASSUME LoopInv, pc # "wait", NextEvent,
         Range(ready) \ {batch[1].fd} \subseteq Range(ready')
  PROVE  /\ Pending \ {batch[1].fd} \subseteq Pending'
         /\ ToClose \ {batch[1].fd} \subseteq ToClose'
         /\ Range(ready') \subseteq Pending' /\ ToClose' \subseteq Pending'
         /\ Range(ready) \subseteq Range(ready') /\ ~batch[1].hup => ToClose \subseteq ToClose'
<1>1. Pending = Range(ready) \cup EventFds /\ ToClose = Range(ready) \cup HupFds
  BY ListTypes
<1>2. Pending' = Range(ready') \cup EventFds' /\ ToClose' = Range(ready') \cup HupFds'
  BY DEF Pending, ToClose, EventFds, HupFds
<1>3. HupFds' \subseteq EventFds'
  BY DEF EventFds, HupFds
<1> HIDE DEF EventFds, HupFds
<1> QED BY <1>1, <1>2, <1>3, PoppedFds

\* An event of a connection has been dealt with, and no packet is left there
\* unless the client has gone.
LEMMA RequestDone ==
  ASSUME LoopInv, pc # "wait", NextEvent, ReadyGrows, batch[1].fd \in Fd, ~batch[1].hup,
         UNCHANGED <<phase, owner, clientMap, backlog>>,
         statusCount' => statusCount \/ StatusFD \in Range(ready'),
         \A d \in Client : toDaemon'[d] # <<>> =>
           toDaemon[d] # <<>> /\ (d = owner[batch[1].fd] => Gone(d))
  PROVE  EventsInOrder' /\ PayloadExpected' /\ GoneIsSeen' /\ NoLostWakeup'
<1>1. /\ Pending \ {batch[1].fd} \subseteq Pending' /\ ToClose \subseteq ToClose'
      /\ Range(ready') \subseteq Pending' /\ ToClose' \subseteq Pending'
  BY EventDone DEF ReadyGrows
<1>2. EventsInOrder' /\ PayloadExpected'
  BY BatchPopped DEF ReadyGrows, LoopInv, EventsInOrder, EventsReachOwner, Open
<1>3. GoneIsSeen'
  BY <1>1 DEF LoopInv, GoneIsSeen, Open, Gone
<1>4. NoLostWakeup'
  <2>1. AcceptFD # batch[1].fd /\ StatusFD # batch[1].fd
    BY EventLoopAssumption
  <2>2. backlog' # <<>> => AcceptFD \in Pending'
    BY <1>1, <2>1 DEF LoopInv, NoLostWakeup
  <2>3. statusCount' => StatusFD \in Pending'
    BY <1>1, <2>1 DEF LoopInv, NoLostWakeup
  <2>4. ASSUME NEW fd \in Fd, Open(fd), Gone(owner[fd]) PROVE fd \in Pending'
    BY <1>1, <2>4 DEF LoopInv, GoneIsSeen
  <2>5. ASSUME NEW fd \in Fd, Open(fd), ~Gone(owner[fd]), toDaemon'[owner[fd]] # <<>>
        PROVE  fd \in Pending'
    <3>1. owner[fd] \in Client
      BY <2>5 DEF LoopInv, TypeOK, Open
    <3>2. toDaemon[owner[fd]] # <<>> /\ fd # batch[1].fd
      BY <2>5, <3>1
    <3> QED BY <1>1, <2>5, <3>2 DEF LoopInv, NoLostWakeup
  <2> QED BY <2>2, <2>3, <2>4, <2>5 DEF NoLostWakeup, Open, Gone
<1> QED BY <1>2, <1>3, <1>4

LEMMA DeliveredList ==
  ASSUME LoopInv, NEW c \in Client, NEW packet \in {"DAEMON_STATUS"} \cup Kinds
  PROVE  /\ Delivered(c, packet) \in Seq({"DAEMON_STATUS"} \cup Kinds)
         /\ Len(Delivered(c, packet)) <= MaxQueued
<1>1. /\ toClient[c] \in Seq({"DAEMON_STATUS"} \cup Kinds) /\ Len(toClient[c]) <= MaxQueued
      /\ Len(toClient[c]) \in Nat /\ MaxQueued \in Nat
  BY EventLoopAssumption DEF LoopInv, TypeOK
<1>2. /\ Append(toClient[c], packet) \in Seq({"DAEMON_STATUS"} \cup Kinds)
      /\ Len(Append(toClient[c], packet)) = Len(toClient[c]) + 1
  BY <1>1
<1> QED BY <1>1, <1>2 DEF Delivered

LEMMA DispatchStep ==
  ASSUME LoopInv, NEW c \in Client, Dispatch(c)
  PROVE  /\ toClient' \in [Client -> Seq({"DAEMON_STATUS"} \cup Kinds)]
         /\ \A d \in Client : Len(toClient'[d]) <= MaxQueued
         /\ handled' \in SUBSET Client /\ statusCount' \in BOOLEAN
         /\ ReadyGrows /\ NextEvent
         /\ statusCount' => statusCount \/ StatusFD \in Range(ready')
<1>1. kind[c] \in Kinds /\ toClient \in [Client -> Seq({"DAEMON_STATUS"} \cup Kinds)]
  BY DEF LoopInv, TypeOK
<1>2. toClient' = toClient \/ toClient' = [toClient EXCEPT ![c] = Delivered(c, kind[c])]
  BY DEF Dispatch, SendAll
<1>3. /\ toClient' \in [Client -> Seq({"DAEMON_STATUS"} \cup Kinds)]
      /\ \A d \in Client : Len(toClient'[d]) <= MaxQueued
  <2>1. /\ Delivered(c, kind[c]) \in Seq({"DAEMON_STATUS"} \cup Kinds)
        /\ Len(Delivered(c, kind[c])) <= MaxQueued
    BY <1>1, DeliveredList
  <2> HIDE DEF Delivered
  <2> QED BY <1>1, <1>2, <2>1 DEF LoopInv, TypeOK
<1>4. \/ statusCount' = TRUE /\ ready' = Ready(ready, StatusFD)
      \/ statusCount' = statusCount /\ ready' = ready
  BY DEF Dispatch, TriggerStatusSend
<1>5. /\ ReadyGrows /\ statusCount' \in BOOLEAN
      /\ statusCount' => statusCount \/ StatusFD \in Range(ready')
  <2>1. CASE statusCount' = TRUE /\ ready' = Ready(ready, StatusFD)
    BY <2>1, ReadyAdds DEF FDs
  <2>2. CASE statusCount' = statusCount /\ ready' = ready
    BY <2>2, ReadyKept DEF LoopInv, TypeOK
  <2> QED BY <1>4, <2>1, <2>2
<1> QED BY <1>3, <1>5 DEF Dispatch, LoopInv, TypeOK

LEMMA TailPackets ==
  ASSUME NEW a, NEW b PROVE Tail(<<a>>) = <<>> /\ Tail(<<a, b>>) = <<b>>
  OBVIOUS

\* The daemon reads a packet.
LEMMA PacketRead ==
  ASSUME LoopInv, NEW c \in Client, toDaemon[c] # <<>>,
         toDaemon' = [toDaemon EXCEPT ![c] = Tail(@)], UNCHANGED <<phase, kind>>
  PROVE  /\ toDaemon' \in [Client -> Seq({"header", "payload"})]
         /\ \A d \in Client : Len(toDaemon'[d]) <= 2
         /\ \A d \in Client : toDaemon'[d] # <<>> => toDaemon[d] # <<>>
         /\ OneRequest'
         /\ toDaemon'[c] \in {<<>>, <<"payload">>} /\ phase[c] \notin {"idle", "connected"}
         /\ Head(toDaemon[c]) # "header" => toDaemon'[c] = <<>>
         /\ ~HasPayload(kind[c]) => toDaemon'[c] = <<>>
         /\ toDaemon[c] = <<"payload">> => toDaemon'[c] = <<>>
<1>1. /\ toDaemon \in [Client -> Seq({"header", "payload"})]
      /\ \A d \in Client : Len(toDaemon[d]) <= 2
  BY DEF LoopInv, TypeOK
<1>2. /\ toDaemon'[c] = Tail(toDaemon[c])
      /\ \A d \in Client \ {c} : toDaemon'[d] = toDaemon[d]
  BY <1>1
<1>3. \/ toDaemon[c] = <<"header">> /\ toDaemon'[c] = <<>>
      \/ toDaemon[c] = <<"payload">> /\ toDaemon'[c] = <<>>
      \/ toDaemon[c] = <<"header", "payload">> /\ toDaemon'[c] = <<"payload">>
  <2>1. toDaemon[c] \in {<<"header">>, <<"payload">>, <<"header", "payload">>}
    BY DEF LoopInv, OneRequest
  <2>2. Tail(<<"header">>) = <<>> /\ Tail(<<"payload">>) = <<>>
        /\ Tail(<<"header", "payload">>) = <<"payload">>
    BY TailPackets, Zenon
  <2> QED BY <1>2, <2>1, <2>2
<1>4. Len(<<>>) = 0 /\ Len(<<"payload">>) = 1
  OBVIOUS
<1>5. toDaemon' \in [Client -> Seq({"header", "payload"})]
  BY <1>1
<1>6. \A d \in Client : Len(toDaemon'[d]) <= 2
  BY <1>1, <1>2, <1>3, <1>4
<1>7. \A d \in Client : toDaemon'[d] # <<>> => toDaemon[d] # <<>>
  BY <1>2
<1>8. Head(<<"header">>) = "header" /\ Head(<<"header", "payload">>) = "header"
  OBVIOUS
<1>9. HasPayload(kind[c]) \/ toDaemon[c] = <<"header">>
  BY DEF LoopInv, OneRequest
<1>10. phase[c] \notin {"idle", "connected"}
  BY DEF LoopInv, OneRequest
<1>11. <<"header", "payload">> # <<"header">> /\ <<"payload">> # <<"header">>
       /\ <<"header", "payload">> # <<"payload">>
  <2>1. Len(<<"header">>) = 1 /\ Len(<<"payload">>) = 1 /\ Len(<<"header", "payload">>) = 2
    OBVIOUS
  <2>2. <<"header">>[1] = "header" /\ <<"payload">>[1] = "payload"
    OBVIOUS
  <2> QED BY <2>1, <2>2
<1>12. OneRequest'
  <2>1. ASSUME NEW d \in Client
        PROVE  /\ toDaemon'[d] \in {<<>>, <<"header">>, <<"payload">>, <<"header", "payload">>}
               /\ ~HasPayload(kind[d]) => toDaemon'[d] \in {<<>>, <<"header">>}
               /\ phase[d] \in {"idle", "connected"} => toDaemon'[d] = <<>>
               /\ phase[d] = "sending" => HasPayload(kind[d]) /\ toDaemon'[d] \in {<<>>, <<"header">>}
    <3>1. CASE d # c
      BY <1>2, <3>1 DEF LoopInv, OneRequest
    <3>2. CASE d = c
      <4>1. phase[c] = "sending" => HasPayload(kind[c]) /\ toDaemon[c] = <<"header">>
        BY DEF LoopInv, OneRequest
      <4> QED BY <1>3, <1>9, <1>10, <1>11, <3>2, <4>1
    <3> QED BY <3>1, <3>2
  <2> QED BY <2>1 DEF OneRequest, HasPayload
<1> QED BY <1>3, <1>5, <1>6, <1>7, <1>8, <1>9, <1>10, <1>11, <1>12

\* The types that a step of the event loop, but for Turn and for the packets,
\* cannot disturb.
LEMMA PoppedTypes ==
  ASSUME LoopInv, pc # "wait", NextEvent
  PROVE  /\ batch' \in Seq([fd : Fd \cup {AcceptFD, StatusFD}, hup : BOOLEAN,
                            conn : Client \cup {NoClient}])
         /\ Len(batch') <= MaxEvents /\ pc' \in {"wait", "events", "payload"}
<1>1. batch' \in Seq(Event) /\ Len(batch') <= Len(batch) /\ pc' \in {"wait", "events"}
  BY Popped
<1>2. Len(batch) <= MaxEvents /\ Len(batch) \in Nat /\ Len(batch') \in Nat /\ MaxEvents \in Nat
  BY <1>1, ListTypes, EventLoopAssumption DEF LoopInv, TypeOK
<1> QED BY <1>1, <1>2 DEF Event, FDs

LEMMA ProcessClientRequestStep ==
  ASSUME LoopInv, NEW fd \in Fd, ProcessClientRequest(fd) PROVE LoopInv'
<1> DEFINE c == owner[fd]
<1>0. /\ pc = "events" /\ batch[1].fd = fd /\ ~batch[1].hup
      /\ UNCHANGED <<phase, kind, last, backlog, owner, clientMap>>
  BY DEF ProcessClientRequest, At, clients
<1>1. /\ c \in Client /\ c = owner[batch[1].fd] /\ 1 \in DOMAIN batch
      /\ batch[1] \in Event /\ batch[1].fd \in Fd
  BY <1>0, FirstEvent
<1>2. OneConnection'
  BY <1>0 DEF LoopInv, OneConnection, Open
<1>3. CASE ReadFails(c)
  <2>1. /\ toDaemon[c] = <<>> \/ Gone(c)
        /\ NextEvent /\ UNCHANGED <<toDaemon, toClient, statusCount, ready, handled>>
    BY <1>1, <1>3, EventLoopAssumption DEF ReadFails
  <2>2. ReadyGrows
    BY <2>1, ReadyKept
  <2>3. EventsInOrder' /\ PayloadExpected' /\ GoneIsSeen' /\ NoLostWakeup'
    BY <1>0, <1>1, <2>1, <2>2, RequestDone
  <2>4. TypeOK'
    BY <1>0, <2>1, PoppedTypes DEF LoopInv, TypeOK
  <2>5. OneRequest'
    BY <1>0, <2>1 DEF LoopInv, OneRequest, HasPayload
  <2> QED BY <1>2, <2>3, <2>4, <2>5 DEF LoopInv
<1>4. CASE /\ toDaemon[c] # <<>> /\ toDaemon' = [toDaemon EXCEPT ![c] = Tail(@)]
           /\ Head(toDaemon[c]) # "header"
           /\ NextEvent /\ UNCHANGED <<toClient, statusCount, ready, handled>>
  <2>1. /\ toDaemon' \in [Client -> Seq({"header", "payload"})]
        /\ \A d \in Client : Len(toDaemon'[d]) <= 2
        /\ \A d \in Client : toDaemon'[d] # <<>> => toDaemon[d] # <<>>
        /\ OneRequest' /\ toDaemon'[c] = <<>>
    BY <1>0, <1>1, <1>4, PacketRead
  <2>2. ReadyGrows
    BY <1>4, ReadyKept
  <2>3. EventsInOrder' /\ PayloadExpected' /\ GoneIsSeen' /\ NoLostWakeup'
    BY <1>0, <1>1, <1>4, <2>1, <2>2, RequestDone
  <2>4. TypeOK'
    BY <1>0, <1>4, <2>1, PoppedTypes DEF LoopInv, TypeOK
  <2> QED BY <1>2, <2>1, <2>3, <2>4 DEF LoopInv
<1>5. CASE /\ toDaemon[c] # <<>> /\ toDaemon' = [toDaemon EXCEPT ![c] = Tail(@)]
           /\ pc' = "payload"
           /\ UNCHANGED <<batch, toClient, statusCount, ready, handled>>
  <2>1. /\ toDaemon' \in [Client -> Seq({"header", "payload"})]
        /\ \A d \in Client : Len(toDaemon'[d]) <= 2
        /\ \A d \in Client : toDaemon'[d] # <<>> => toDaemon[d] # <<>>
        /\ OneRequest' /\ toDaemon'[c] \in {<<>>, <<"payload">>}
        /\ phase[c] \notin {"idle", "connected"}
    BY <1>0, <1>1, <1>5, PacketRead
  <2>2. EventsInOrder' /\ Pending \subseteq Pending' /\ ToClose \subseteq ToClose'
    BY <1>0, <1>5, ReadyKept, BatchKept
  <2>3. GoneIsSeen'
    BY <1>0, <2>2 DEF LoopInv, GoneIsSeen, Open, Gone
  <2>4. NoLostWakeup'
    <3>1. ASSUME NEW f \in Fd, Open(f) PROVE owner[f] \in Client
      BY <3>1 DEF LoopInv, TypeOK, Open
    <3> QED BY <1>0, <1>5, <2>1, <2>2, <3>1 DEF LoopInv, NoLostWakeup, Open, Gone
  <2>5. PayloadExpected'
    BY <1>0, <1>1, <1>5, <2>1 DEF PayloadExpected
  <2>6. TypeOK'
    BY <1>0, <1>5, <2>1 DEF LoopInv, TypeOK
  <2> QED BY <1>2, <2>1, <2>2, <2>3, <2>4, <2>5, <2>6 DEF LoopInv
<1>6. CASE /\ toDaemon[c] # <<>> /\ toDaemon' = [toDaemon EXCEPT ![c] = Tail(@)]
           /\ ~HasPayload(kind[c]) /\ Dispatch(c)
  <2>1. /\ toDaemon' \in [Client -> Seq({"header", "payload"})]
        /\ \A d \in Client : Len(toDaemon'[d]) <= 2
        /\ \A d \in Client : toDaemon'[d] # <<>> => toDaemon[d] # <<>>
        /\ OneRequest' /\ toDaemon'[c] = <<>>
    BY <1>0, <1>1, <1>6, PacketRead
  <2>2. /\ toClient' \in [Client -> Seq({"DAEMON_STATUS"} \cup Kinds)]
        /\ \A d \in Client : Len(toClient'[d]) <= MaxQueued
        /\ handled' \in SUBSET Client /\ statusCount' \in BOOLEAN
        /\ ReadyGrows /\ NextEvent
        /\ statusCount' => statusCount \/ StatusFD \in Range(ready')
    BY <1>1, <1>6, DispatchStep
  <2>3. EventsInOrder' /\ PayloadExpected' /\ GoneIsSeen' /\ NoLostWakeup'
    BY <1>0, <1>1, <2>1, <2>2, RequestDone
  <2>4. ready' \in Seq(Fd \cup {AcceptFD, StatusFD})
    BY <2>2 DEF ReadyGrows, FDs
  <2>5. TypeOK'
    BY <1>0, <2>1, <2>2, <2>4, PoppedTypes DEF LoopInv, TypeOK
  <2> QED BY <1>2, <2>1, <2>3, <2>5 DEF LoopInv
<1>7. \/ Head(toDaemon[c]) = "header" /\ HasPayload(kind[c])
      \/ ~HasPayload(kind[c])
      \/ Head(toDaemon[c]) # "header"
  OBVIOUS
<1> QED BY <1>3, <1>4, <1>5, <1>6, <1>7 DEF ProcessClientRequest

LEMMA RcvPayloadStep == ASSUME LoopInv, RcvPayload PROVE LoopInv'
<1> DEFINE c == owner[batch[1].fd]
<1>0. /\ pc = "payload"
      /\ UNCHANGED <<phase, kind, last, backlog, owner, clientMap>>
  BY DEF RcvPayload, clients
<1>1. /\ batch[1].fd \in Fd /\ ~batch[1].hup /\ toDaemon[c] \in {<<>>, <<"payload">>}
      /\ 1 \in DOMAIN batch /\ c \in Client
  BY <1>0, FirstEvent DEF LoopInv, PayloadExpected
<1>2. OneConnection'
  BY <1>0 DEF LoopInv, OneConnection, Open
<1>3. CASE Gone(c) /\ ReadFails(c)
  <2>1. NextEvent /\ UNCHANGED <<toDaemon, toClient, statusCount, ready, handled>>
    BY <1>3 DEF ReadFails
  <2>2. ReadyGrows
    BY <2>1, ReadyKept
  <2>3. EventsInOrder' /\ PayloadExpected' /\ GoneIsSeen' /\ NoLostWakeup'
    BY <1>0, <1>1, <1>3, <2>1, <2>2, RequestDone
  <2>4. TypeOK'
    BY <1>0, <2>1, PoppedTypes DEF LoopInv, TypeOK
  <2>5. OneRequest'
    BY <1>0, <2>1 DEF LoopInv, OneRequest, HasPayload
  <2> QED BY <1>2, <2>3, <2>4, <2>5 DEF LoopInv
<1>4. CASE toDaemon[c] # <<>> /\ toDaemon' = [toDaemon EXCEPT ![c] = Tail(@)] /\ Dispatch(c)
  <2>1. /\ toDaemon' \in [Client -> Seq({"header", "payload"})]
        /\ \A d \in Client : Len(toDaemon'[d]) <= 2
        /\ \A d \in Client : toDaemon'[d] # <<>> => toDaemon[d] # <<>>
        /\ OneRequest' /\ toDaemon'[c] = <<>>
    BY <1>0, <1>1, <1>4, PacketRead
  <2>2. /\ toClient' \in [Client -> Seq({"DAEMON_STATUS"} \cup Kinds)]
        /\ \A d \in Client : Len(toClient'[d]) <= MaxQueued
        /\ handled' \in SUBSET Client /\ statusCount' \in BOOLEAN
        /\ ReadyGrows /\ NextEvent
        /\ statusCount' => statusCount \/ StatusFD \in Range(ready')
    BY <1>1, <1>4, DispatchStep
  <2>3. EventsInOrder' /\ PayloadExpected' /\ GoneIsSeen' /\ NoLostWakeup'
    BY <1>0, <1>1, <2>1, <2>2, RequestDone
  <2>4. ready' \in Seq(Fd \cup {AcceptFD, StatusFD})
    BY <2>2 DEF ReadyGrows, FDs
  <2>5. TypeOK'
    BY <1>0, <2>1, <2>2, <2>4, PoppedTypes DEF LoopInv, TypeOK
  <2> QED BY <1>2, <2>1, <2>3, <2>5 DEF LoopInv
<1> QED BY <1>3, <1>4 DEF RcvPayload

LEMMA HandleStatusStep == ASSUME LoopInv, HandleStatus PROVE LoopInv'
<1>0. /\ pc = "events" /\ batch[1].fd = StatusFD /\ statusCount' = FALSE /\ NextEvent
      /\ UNCHANGED <<phase, kind, last, toDaemon, backlog, handled, clientMap, owner, ready>>
      /\ toClient' = [d \in Client |-> IF \E fd \in clientMap : owner[fd] = d
                                         THEN Delivered(d, "DAEMON_STATUS") ELSE toClient[d]]
  BY DEF HandleStatus, At, SendStatusPacket, clients
<1>1. /\ Pending \ {StatusFD} \subseteq Pending' /\ ToClose \ {StatusFD} \subseteq ToClose'
  BY <1>0, EventDone
<1>2. StatusFD \notin Fd /\ AcceptFD # StatusFD
  BY EventLoopAssumption
<1>3. EventsInOrder' /\ PayloadExpected'
  BY <1>0, ListTypes, BatchPopped DEF LoopInv, EventsInOrder, EventsReachOwner, Open
<1>4. GoneIsSeen'
  BY <1>0, <1>1, <1>2 DEF LoopInv, GoneIsSeen, Open, Gone
<1>5. NoLostWakeup'
  BY <1>0, <1>1, <1>2 DEF LoopInv, NoLostWakeup, Open, Gone
<1>6. /\ toClient' \in [Client -> Seq({"DAEMON_STATUS"} \cup Kinds)]
      /\ \A d \in Client : Len(toClient'[d]) <= MaxQueued
  <2>1. \A d \in Client : /\ Delivered(d, "DAEMON_STATUS") \in Seq({"DAEMON_STATUS"} \cup Kinds)
                          /\ Len(Delivered(d, "DAEMON_STATUS")) <= MaxQueued
    BY DeliveredList
  <2> HIDE DEF Delivered
  <2> QED BY <1>0, <2>1 DEF LoopInv, TypeOK
<1>7. TypeOK'
  BY <1>0, <1>6, PoppedTypes DEF LoopInv, TypeOK
<1>8. OneConnection' /\ OneRequest'
  BY <1>0 DEF LoopInv, OneConnection, OneRequest, HasPayload, Open
<1> QED BY <1>3, <1>4, <1>5, <1>7, <1>8 DEF LoopInv

LEMMA CloseClientConnectionStep ==
  ASSUME LoopInv, NEW fd \in Fd, CloseClientConnection(fd) PROVE LoopInv'
<1>0. /\ pc = "events" /\ batch[1].fd = fd /\ NextEvent
      /\ clientMap' = clientMap \ {fd} /\ owner' = [owner EXCEPT ![fd] = NoClient]
      /\ ready' = Without(ready, {fd})
      /\ UNCHANGED <<phase, kind, last, toDaemon, toClient, backlog, statusCount, handled>>
  BY DEF CloseClientConnection, At, clients
<1>1. /\ ready' \in Seq(FDs) /\ IsInjective(ready') /\ Range(ready') = Range(ready) \ {fd}
  BY <1>0, ListTypes, WithoutList
<1>2. /\ Pending \ {fd} \subseteq Pending' /\ ToClose \ {fd} \subseteq ToClose'
  BY <1>0, <1>1, EventDone
<1>3. /\ owner' \in [Fd -> Client \cup {NoClient}] /\ owner'[fd] = NoClient
      /\ \A f \in Fd \ {fd} : owner'[f] = owner[f]
  BY <1>0 DEF LoopInv, TypeOK
<1>4. AcceptFD # fd /\ StatusFD # fd /\ NoClient \notin Client
  BY EventLoopAssumption
<1>5. clientMap' = {f \in Fd : owner'[f] # NoClient}
  BY <1>0, <1>3 DEF LoopInv, EventsInOrder, EventsReachOwner, Open
<1>6. EventsInOrder' /\ PayloadExpected'
  BY <1>0, <1>1, <1>3, <1>5, BatchPopped
<1>7. GoneIsSeen'
  <2> SUFFICES ASSUME NEW f \in Fd, owner'[f] # NoClient, Gone(owner[f]), f # fd
               PROVE  f \in ToClose'
    BY <1>0, <1>3 DEF GoneIsSeen, Open, Gone
  <2> QED BY <1>2, <1>3 DEF LoopInv, GoneIsSeen, Open
<1>8. NoLostWakeup'
  <2>1. backlog' # <<>> => AcceptFD \in Pending'
    BY <1>0, <1>2, <1>4 DEF LoopInv, NoLostWakeup
  <2>2. statusCount' => StatusFD \in Pending'
    BY <1>0, <1>2, <1>4 DEF LoopInv, NoLostWakeup
  <2>3. ASSUME NEW f \in Fd, owner'[f] # NoClient, Gone(owner[f]) \/ toDaemon[owner[f]] # <<>>,
               f # fd
        PROVE  f \in Pending'
    BY <1>2, <1>3, <2>3 DEF LoopInv, NoLostWakeup, Open
  <2> QED BY <1>0, <1>3, <2>1, <2>2, <2>3 DEF NoLostWakeup, Open, Gone
<1>9. OneConnection'
  <2>1. NoClient \notin Range(backlog)
    <3>1. backlog \in Seq(Client)
      BY DEF LoopInv, TypeOK
    <3> QED BY <1>4, <3>1 DEF Range
  <2>2. \A c \in Client : c # NoClient
    BY <1>4
  <2> QED BY <1>0, <1>3, <2>1, <2>2 DEF LoopInv, OneConnection, Open
<1>10. OneRequest'
  BY <1>0 DEF LoopInv, OneRequest, HasPayload
<1>11. TypeOK'
  BY <1>0, <1>1, <1>3, PoppedTypes DEF LoopInv, TypeOK, FDs
<1> QED BY <1>6, <1>7, <1>8, <1>9, <1>10, <1>11 DEF LoopInv

LEMMA LowestOf ==
  ASSUME NEW P \in SUBSET Nat, P # {}
  PROVE  \E i \in P : \A j \in P : i <= j
<1>1. PICK i \in P : \A j \in P : <<j, i>> \notin OpToRel(<, Nat)
  BY NatLessThanWellFounded, WFMin
<1>2. \A j \in P : ~ (j < i)
  BY <1>1 DEF OpToRel
<1> QED BY <1>2

\* There is a descriptor for a client that waits in the backlog.
LEMMA FreeDescriptor ==
  ASSUME LoopInv, NEW c \in Client, c \in Range(backlog)
  PROVE  \E f \in Fd : ~Open(f) /\ \A g \in Fd : g < f => Open(g)
<1>1. Fd \subseteq Nat /\ IsFiniteSet(Client) /\ IsFiniteSet(Fd) /\ Cardinality(Client) <= Cardinality(Fd)
  BY EventLoopAssumption
<1>2. ASSUME \A f \in Fd : Open(f) PROVE FALSE
  <2>1. owner \in Injection(Fd, Client)
    BY <1>2 DEF LoopInv, TypeOK, OneConnection, Open, Injection, IsInjective
  <2>2. /\ Cardinality(Fd) <= Cardinality(Client)
        /\ Cardinality(Fd) = Cardinality(Client) <=> owner \in Surjection(Fd, Client)
    BY <1>1, <2>1, FS_Injection
  <2>3. Cardinality(Fd) \in Nat /\ Cardinality(Client) \in Nat
    BY <1>1, FS_CardinalityType
  <2>4. owner \in Surjection(Fd, Client)
    BY <1>1, <2>2, <2>3
  <2>5. PICK f \in Fd : owner[f] = c
    BY <2>4 DEF Surjection
  <2> QED BY <2>5 DEF LoopInv, OneConnection
<1> DEFINE free == {f \in Fd : ~Open(f)}
<1>3. free # {} /\ free \in SUBSET Nat
  BY <1>1, <1>2
<1>4. PICK f \in free : \A g \in free : f <= g
  BY <1>3, LowestOf
<1>5. \A g \in Fd : g < f => Open(g)
  BY <1>1, <1>4
<1> QED BY <1>4, <1>5

LEMMA ProcessNewClientConnectionsStep ==
  ASSUME LoopInv, ProcessNewClientConnections PROVE LoopInv'
<1>0. /\ pc = "events" /\ batch[1].fd = AcceptFD
      /\ UNCHANGED <<phase, kind, last, toDaemon, toClient, statusCount, handled>>
  BY DEF ProcessNewClientConnections, At, clients
<1>1. 1 \in DOMAIN batch
  BY <1>0, FirstEvent
<1>2. OneRequest'
  BY <1>0 DEF LoopInv, OneRequest, HasPayload
<1>3. CASE backlog = <<>>
  <2>1. NextEvent /\ UNCHANGED <<owner, clientMap, ready, backlog>>
    BY <1>3 DEF ProcessNewClientConnections
  <2>2. /\ Pending \ {AcceptFD} \subseteq Pending' /\ ToClose \ {AcceptFD} \subseteq ToClose'
    BY <1>0, <2>1, EventDone
  <2>3. AcceptFD \notin Fd /\ AcceptFD # StatusFD
    BY EventLoopAssumption
  <2>4. EventsInOrder' /\ PayloadExpected'
    BY <1>0, <2>1, ListTypes, BatchPopped DEF LoopInv, EventsInOrder, EventsReachOwner, Open
  <2>5. GoneIsSeen'
    BY <1>0, <2>1, <2>2, <2>3 DEF LoopInv, GoneIsSeen, Open, Gone
  <2>6. NoLostWakeup'
    BY <1>0, <1>3, <2>1, <2>2, <2>3 DEF LoopInv, NoLostWakeup, Open, Gone
  <2>7. TypeOK'
    BY <1>0, <2>1, PoppedTypes DEF LoopInv, TypeOK
  <2>8. OneConnection'
    BY <1>0, <2>1 DEF LoopInv, OneConnection, Open
  <2> QED BY <1>2, <2>4, <2>5, <2>6, <2>7, <2>8 DEF LoopInv
<1>4. CASE backlog # <<>>
  <2> DEFINE c == Head(backlog)
             fd == CHOOSE f \in Fd : ~Open(f) /\ \A g \in Fd : g < f => Open(g)
  <2>1. /\ owner' = [owner EXCEPT ![fd] = c] /\ clientMap' = clientMap \cup {fd}
        /\ ready' = IF toDaemon[c] # <<>> \/ Gone(c) THEN Ready(ready, fd) ELSE ready
        /\ backlog' = Tail(backlog) /\ UNCHANGED <<batch, pc>>
    BY <1>4 DEF ProcessNewClientConnections, Accept
  <2>2. backlog \in Seq(Client) /\ IsInjective(backlog)
    BY DEF LoopInv, TypeOK, OneConnection
  <2>3. /\ DOMAIN backlog = 1 .. Len(backlog) /\ Len(backlog) \in Nat \ {0}
        /\ c = backlog[1] /\ backlog' \in Seq(Client)
        /\ DOMAIN backlog' = 1 .. Len(backlog) - 1
        /\ \A i \in 1 .. Len(backlog) - 1 : backlog'[i] = backlog[i + 1]
    BY <1>4, <2>1, <2>2
  <2>4. c \in Client /\ c \in Range(backlog)
    BY <2>2, <2>3 DEF Range
  <2>5. fd \in Fd /\ ~Open(fd)
    BY <2>4, FreeDescriptor
  <2> HIDE DEF c, fd
  <2>6. /\ owner' \in [Fd -> Client \cup {NoClient}] /\ owner'[fd] = c
        /\ \A f \in Fd \ {fd} : owner'[f] = owner[f]
    BY <2>1, <2>4, <2>5 DEF LoopInv, TypeOK
  <2>7. IsInjective(backlog') /\ Range(backlog') \subseteq Range(backlog) \ {c}
    <3>1. ASSUME NEW i \in DOMAIN backlog' PROVE backlog'[i] \in Range(backlog) \ {c}
      <4>1. i + 1 \in DOMAIN backlog /\ i + 1 # 1 /\ 1 \in DOMAIN backlog
        BY <2>3
      <4>2. i + 1 \in 1 .. Len(backlog) /\ backlog'[i] = backlog[i + 1]
        BY <2>3, <4>1
      <4>3. backlog[i + 1] # backlog[1]
        BY <2>2, <4>1 DEF IsInjective
      <4>4. backlog[i + 1] \in Range(backlog)
        BY <4>1 DEF Range
      <4> QED BY <2>3, <4>2, <4>3, <4>4
    <3>2. ASSUME NEW i \in DOMAIN backlog', NEW j \in DOMAIN backlog', backlog'[i] = backlog'[j]
          PROVE  i = j
      <4>1. i + 1 \in DOMAIN backlog /\ j + 1 \in DOMAIN backlog
        BY <2>3
      <4>2. i + 1 = j + 1
        BY <2>2, <2>3, <3>2, <4>1 DEF IsInjective
      <4> QED BY <2>3, <4>2
    <3>3. IsInjective(backlog')
      BY <3>2 DEF IsInjective
    <3>4. Range(backlog') \subseteq Range(backlog) \ {c}
      BY <3>1 DEF Range
    <3> QED BY <3>3, <3>4
  <2>8. ReadyGrows /\ (toDaemon[c] # <<>> \/ Gone(c) => fd \in Range(ready'))
    <3>1. CASE toDaemon[c] # <<>> \/ Gone(c)
      BY <2>1, <2>5, <3>1, ReadyAdds DEF FDs
    <3>2. CASE ~ (toDaemon[c] # <<>> \/ Gone(c))
      BY <2>1, <3>2, ReadyKept
    <3> QED BY <3>1, <3>2
  <2>9. NoClient \notin Client /\ c # NoClient
    BY <2>4, EventLoopAssumption
  <2>10. /\ Pending \subseteq Pending' /\ ToClose \subseteq ToClose'
         /\ Range(ready') \subseteq Pending' /\ Range(ready') \subseteq ToClose'
         /\ AcceptFD \in Pending'
    BY <1>0, <1>1, <2>1, <2>8 DEF ReadyGrows, Pending, ToClose
  <2>11. EventsInOrder'
    <3>1. \A i \in DOMAIN batch : batch[i].fd \in Fd =>
            owner'[batch[i].fd] # NoClient /\ owner'[batch[i].fd] = batch[i].conn
      BY <2>5, <2>6 DEF LoopInv, EventsInOrder, EventsReachOwner, Open
    <3>2. clientMap' = {f \in Fd : owner'[f] # NoClient}
      BY <2>1, <2>5, <2>6, <2>9 DEF LoopInv, EventsInOrder, EventsReachOwner, Open
    <3> QED BY <2>1, <2>8, <3>1, <3>2
            DEF LoopInv, EventsInOrder, EventsReachOwner, Open, ReadyGrows
  <2>12. PayloadExpected'
    BY <1>0, <2>1 DEF PayloadExpected
  <2>13. GoneIsSeen'
    <3> SUFFICES ASSUME NEW f \in Fd, owner'[f] # NoClient, Gone(owner'[f])
                 PROVE  f \in ToClose'
      BY <1>0 DEF GoneIsSeen, Open, Gone
    <3>1. CASE f = fd
      BY <2>6, <2>8, <2>10, <3>1
    <3>2. CASE f # fd
      BY <2>6, <2>10, <3>2 DEF LoopInv, GoneIsSeen, Open
    <3> QED BY <3>1, <3>2
  <2>14. NoLostWakeup'
    <3>1. ASSUME NEW f \in Fd, owner'[f] # NoClient, Gone(owner'[f]) \/ toDaemon[owner'[f]] # <<>>
          PROVE  f \in Pending'
      <4>1. CASE f = fd
        BY <2>6, <2>8, <2>10, <3>1, <4>1
      <4>2. CASE f # fd
        BY <2>6, <2>10, <3>1, <4>2 DEF LoopInv, NoLostWakeup, Open
      <4> QED BY <4>1, <4>2
    <3>2. statusCount' => StatusFD \in Pending'
      BY <1>0, <2>10 DEF LoopInv, NoLostWakeup
    <3> QED BY <1>0, <2>10, <3>1, <3>2 DEF NoLostWakeup, Open, Gone
  <2>15. OneConnection'
    <3>1. ASSUME NEW f \in Fd, NEW g \in Fd, owner'[f] # NoClient, owner'[f] = owner'[g]
          PROVE  f = g
      BY <2>4, <2>6, <3>1 DEF LoopInv, OneConnection, Open
    <3>2. \A f \in Fd : owner'[f] \notin Range(backlog')
      BY <2>6, <2>7 DEF LoopInv, OneConnection
    <3>3. ASSUME NEW d \in Client, phase[d] = "idle"
          PROVE  d \notin Range(backlog') /\ \A f \in Fd : owner'[f] # d
      BY <2>4, <2>6, <2>7, <3>3 DEF LoopInv, OneConnection
    <3> QED BY <1>0, <2>7, <3>1, <3>2, <3>3 DEF OneConnection, Open
  <2>16. TypeOK'
    BY <1>0, <2>1, <2>3, <2>5, <2>6, <2>8 DEF LoopInv, TypeOK, ReadyGrows, FDs
  <2> QED BY <1>2, <2>11, <2>12, <2>13, <2>14, <2>15, <2>16 DEF LoopInv
<1> QED BY <1>3, <1>4

\* What epoll_wait leaves on the ready list.
LEMMA RestOf ==
  ASSUME NEW T, NEW list \in Seq(T), IsInjective(list), NEW n \in 0 .. Len(list)
  PROVE  LET rest == SubSeq(list, n + 1, Len(list))
         IN  /\ rest \in Seq(T) /\ IsInjective(rest)
             /\ \A i \in n + 1 .. Len(list) : list[i] \in Range(rest)
<1> DEFINE rest == SubSeq(list, n + 1, Len(list))
<1>1. Len(list) \in Nat /\ DOMAIN list = 1 .. Len(list)
  OBVIOUS
<1>2. \A i \in n + 1 .. Len(list) : list[i] \in T
  BY <1>1
<1>3. /\ rest \in Seq(T) /\ Len(rest) = Len(list) - n
      /\ \A i \in 1 .. Len(list) - n : rest[i] = list[n + i]
  <2> DEFINE m == n + 1
             k == Len(list)
  <2>1. m \in Int /\ k \in Int /\ \A i \in m .. k : list[i] \in T
    BY <1>1, <1>2
  <2>2. n \in Nat /\ m = n + 1 /\ k \in Nat /\ k = Len(list) /\ n <= k
    BY <1>1
  <2>3. rest = SubSeq(list, m, k)
    OBVIOUS
  <2> HIDE DEF m, k, rest
  <2>4. /\ rest \in Seq(T)
        /\ Len(rest) = IF m <= k THEN k - m + 1 ELSE 0
        /\ \A i \in 1 .. k - m + 1 : rest[i] = list[m + i - 1]
    BY <2>1, <2>3, SubSeqProperties
  <2>5. k - m + 1 = k - n /\ (m <= k \/ k - n = 0)
    BY <2>2
  <2>6. \A i \in Nat : m + i - 1 = n + i
    BY <2>2
  <2>7. Len(rest) = k - n
    BY <2>4, <2>5
  <2>8. \A i \in 1 .. k - n : rest[i] = list[n + i]
    BY <2>2, <2>4, <2>5, <2>6
  <2> QED BY <2>2, <2>4, <2>7, <2>8
<1>4. DOMAIN rest = 1 .. Len(list) - n
  BY <1>3
<1> HIDE DEF rest
<1>5. IsInjective(rest)
  <2>1. ASSUME NEW i \in DOMAIN rest, NEW j \in DOMAIN rest, rest[i] = rest[j] PROVE i = j
    <3>1. n + i \in DOMAIN list /\ n + j \in DOMAIN list
      BY <1>1, <1>4
    <3>2. n + i = n + j
      BY <1>3, <1>4, <2>1, <3>1 DEF IsInjective
    <3> QED BY <1>4, <3>2
  <2> QED BY <2>1 DEF IsInjective
<1>6. ASSUME NEW i \in n + 1 .. Len(list) PROVE list[i] \in Range(rest)
  <2>0. i - n \in 1 .. Len(list) - n /\ n + (i - n) = i
    BY <1>1
  <2>1. i - n \in DOMAIN rest /\ rest[i - n] = list[i]
    BY <1>3, <1>4, <2>0
  <2> QED BY <2>1 DEF Range
<1> QED BY <1>3, <1>5, <1>6 DEF rest

LEMMA TurnStep == ASSUME LoopInv, Turn PROVE LoopInv'
<1> DEFINE found == Entries(ready, {i \in DOMAIN ready : Readable(ready[i])})
           n == IF Len(found) < MaxEvents THEN Len(found) ELSE MaxEvents
           rest == SubSeq(found, n + 1, Len(found))
<1>0. /\ pc = "wait" /\ batch' = [i \in 1 .. n |-> EventOf(found[i])]
      /\ pc' = IF n = 0 THEN "wait" ELSE "events"
      /\ \/ ready' = rest /\ UNCHANGED statusCount
         \/ ready' = Ready(rest, StatusFD) /\ statusCount' = TRUE
      /\ UNCHANGED <<phase, kind, last, toDaemon, toClient, backlog, owner, clientMap, handled>>
  BY DEF Turn, clients
<1>1. /\ found \in Seq(FDs) /\ IsInjective(found)
      /\ Range(found) = {fd \in Range(ready) : Readable(fd)}
  <2> DEFINE at == {i \in DOMAIN ready : Readable(ready[i])}
  <2>1. /\ Entries(ready, at) \in Seq(FDs)
        /\ Range(Entries(ready, at)) = {ready[i] : i \in at}
        /\ IsInjective(ready) => IsInjective(Entries(ready, at))
    BY ListTypes, EntriesOfList
  <2>2. {ready[i] : i \in at} = {fd \in Range(ready) : Readable(fd)}
    BY DEF Range
  <2> QED BY <2>1, <2>2, ListTypes
<1> HIDE DEF found
<1>2. /\ Len(found) \in Nat /\ DOMAIN found = 1 .. Len(found) /\ n \in 0 .. Len(found)
      /\ n \in Nat /\ n <= MaxEvents /\ 1 .. n \subseteq DOMAIN found
  BY <1>1, EventLoopAssumption
<1> HIDE DEF n
<1>3. /\ rest \in Seq(FDs) /\ IsInjective(rest)
      /\ \A i \in n + 1 .. Len(found) : found[i] \in Range(rest)
  BY <1>1, <1>2, RestOf
<1> HIDE DEF rest
<1>4. /\ ready' \in Seq(FDs) /\ IsInjective(ready') /\ Range(rest) \subseteq Range(ready')
      /\ statusCount' \in BOOLEAN
      /\ statusCount' => statusCount \/ StatusFD \in Range(ready')
  <2>1. CASE ready' = rest /\ UNCHANGED statusCount
    BY <1>3, <2>1 DEF LoopInv, TypeOK
  <2>2. CASE ready' = Ready(rest, StatusFD) /\ statusCount' = TRUE
    <3>1. StatusFD \in FDs
      BY DEF FDs
    <3> QED BY <1>3, <2>2, <3>1, ReadyList
  <2> QED BY <1>0, <2>1, <2>2
<1>5. \A i \in 1 .. n : found[i] \in FDs /\ Readable(found[i])
  BY <1>1, <1>2 DEF Range
<1>6. \A fd \in FDs : /\ EventOf(fd) \in Event /\ EventOf(fd).fd = fd
                      /\ fd \in Fd => /\ EventOf(fd).conn = owner[fd]
                                      /\ Gone(owner[fd]) => EventOf(fd).hup
  <2>1. ASSUME NEW fd \in Fd
        PROVE  /\ EventOf(fd) \in Event /\ EventOf(fd).fd = fd
               /\ EventOf(fd).conn = owner[fd] /\ (Gone(owner[fd]) => EventOf(fd).hup)
    <3>1. EventOf(fd) = [fd |-> fd, hup |-> Gone(owner[fd]), conn |-> owner[fd]]
      BY DEF EventOf
    <3>2. owner[fd] \in Client \cup {NoClient} /\ Gone(owner[fd]) \in BOOLEAN
      BY DEF LoopInv, TypeOK, Gone
    <3> QED BY <3>1, <3>2 DEF Event, FDs
  <2>2. ASSUME NEW fd \in FDs \ Fd
        PROVE  EventOf(fd) \in Event /\ EventOf(fd).fd = fd
    BY DEF EventOf, Event
  <2> QED BY <2>1, <2>2
<1>7. /\ DOMAIN batch' = 1 .. n /\ \A i \in 1 .. n : batch'[i] = EventOf(found[i])
      /\ batch' \in Seq(Event) /\ Len(batch') = n
  BY <1>0, <1>2, <1>5, <1>6
<1>8. ASSUME NEW fd \in Range(ready), Readable(fd)
      PROVE  /\ fd \in Pending'
             /\ fd \in Fd /\ Gone(owner[fd]) => fd \in ToClose'
  <2>1. PICK i \in DOMAIN found : found[i] = fd
    BY <1>1, <1>8 DEF Range
  <2>2. CASE i \in 1 .. n
    <3>1. i \in DOMAIN batch' /\ batch'[i] = EventOf(fd) /\ batch'[i].fd = fd
      BY <1>5, <1>6, <1>7, <2>1, <2>2
    <3>2. fd \in Fd /\ Gone(owner[fd]) => batch'[i].hup
      BY <1>6, <3>1 DEF FDs
    <3> QED BY <3>1, <3>2 DEF Pending, ToClose
  <2>3. CASE i \notin 1 .. n
    <3>1. i \in n + 1 .. Len(found)
      BY <1>2, <2>1, <2>3
    <3>2. fd \in Range(ready')
      BY <1>3, <1>4, <2>1, <3>1
    <3> QED BY <3>2 DEF Pending, ToClose
  <2> QED BY <2>2, <2>3
<1>9. Pending = Range(ready) /\ ToClose = Range(ready)
  <2>1. batch = <<>>
    BY <1>0 DEF LoopInv, EventsInOrder
  <2> QED BY <2>1 DEF Pending, ToClose
<1>10. /\ AcceptFD \notin Fd /\ StatusFD \notin Fd /\ AcceptFD # StatusFD
       /\ NoClient \notin Client
  BY EventLoopAssumption
<1>11. /\ Readable(AcceptFD) <=> backlog # <<>>
       /\ Readable(StatusFD) <=> statusCount
       /\ \A fd \in Fd :
            Readable(fd) <=> Open(fd) /\ (toDaemon[owner[fd]] # <<>> \/ Gone(owner[fd]))
  <2>1. Readable(AcceptFD) <=> backlog # <<>>
    BY <1>10 DEF Readable
  <2>2. Readable(StatusFD) <=> statusCount
    BY <1>10 DEF Readable
  <2>3. \A fd \in Fd :
          Readable(fd) <=> Open(fd) /\ (toDaemon[owner[fd]] # <<>> \/ Gone(owner[fd]))
    BY <1>10 DEF Readable
  <2> QED BY <2>1, <2>2, <2>3
<1>12. EventsInOrder'
  <2>1. pc' = "wait" <=> batch' = <<>>
    <3>1. pc' = "wait" <=> n = 0
      BY <1>0
    <3>2. n = 0 <=> batch' = <<>>
      BY <1>7
    <3> QED BY <3>1, <3>2
  <2>2. ASSUME NEW i \in DOMAIN batch', NEW j \in DOMAIN batch', batch'[i].fd = batch'[j].fd
        PROVE  i = j
    <3>1. found[i] = found[j]
      BY <1>5, <1>6, <1>7, <2>2
    <3> QED BY <1>1, <1>2, <1>7, <3>1 DEF IsInjective
  <2>3. ASSUME NEW i \in DOMAIN batch', batch'[i].fd \in Fd
        PROVE  owner[batch'[i].fd] # NoClient /\ owner[batch'[i].fd] = batch'[i].conn
    <3>1. batch'[i] = EventOf(found[i]) /\ batch'[i].fd = found[i] /\ Readable(found[i])
          /\ found[i] \in FDs
      BY <1>5, <1>6, <1>7
    <3> QED BY <1>6, <1>11, <2>3, <3>1 DEF Open
  <2> QED BY <1>0, <1>4, <2>1, <2>2, <2>3
          DEF LoopInv, EventsInOrder, EventsReachOwner, Open
<1>13. PayloadExpected'
  BY <1>0 DEF PayloadExpected
<1>14. GoneIsSeen'
  <2> SUFFICES ASSUME NEW fd \in Fd, Open(fd), Gone(owner[fd]) PROVE fd \in ToClose'
    BY <1>0 DEF GoneIsSeen, Open, Gone
  <2>1. fd \in Range(ready)
    BY <1>9 DEF LoopInv, GoneIsSeen
  <2> QED BY <1>8, <1>11, <2>1
<1>15. NoLostWakeup'
  <2>1. backlog # <<>> => AcceptFD \in Pending'
    <3>1. backlog # <<>> => AcceptFD \in Range(ready) /\ Readable(AcceptFD)
      BY <1>9, <1>11 DEF LoopInv, NoLostWakeup
    <3> QED BY <1>8, <3>1
  <2>2. statusCount' => StatusFD \in Pending'
    <3>1. statusCount => StatusFD \in Range(ready) /\ Readable(StatusFD)
      BY <1>9, <1>11 DEF LoopInv, NoLostWakeup
    <3>2. Range(ready') \subseteq Pending'
      BY DEF Pending
    <3> QED BY <1>4, <1>8, <3>1, <3>2
  <2>3. ASSUME NEW fd \in Fd, Open(fd), Gone(owner[fd]) \/ toDaemon[owner[fd]] # <<>>
        PROVE  fd \in Pending'
    <3>1. fd \in Range(ready)
      BY <1>9, <2>3 DEF LoopInv, NoLostWakeup
    <3> QED BY <1>8, <1>11, <2>3, <3>1
  <2> QED BY <1>0, <2>1, <2>2, <2>3 DEF NoLostWakeup, Open, Gone
<1>16. OneConnection' /\ OneRequest'
  BY <1>0 DEF LoopInv, OneConnection, OneRequest, HasPayload, Open
<1>17. TypeOK'
  <2>1. Len(batch') <= MaxEvents /\ pc' \in {"wait", "events", "payload"}
    BY <1>0, <1>2, <1>7
  <2>2. batch' \in Seq([fd : Fd \cup {AcceptFD, StatusFD}, hup : BOOLEAN,
                        conn : Client \cup {NoClient}])
    BY <1>7 DEF Event, FDs
  <2> QED BY <1>0, <1>4, <2>1, <2>2 DEF LoopInv, TypeOK, FDs
<1> QED BY <1>12, <1>13, <1>14, <1>15, <1>16, <1>17 DEF LoopInv

(***************************************************************************)
(* The theorems.                                                           *)
(***************************************************************************)
LEMMA LoopInvInit == Init => LoopInv
<1> SUFFICES ASSUME Init PROVE LoopInv
  OBVIOUS
<1>1. NoClient \notin Client /\ MaxQueued \in Nat /\ MaxEvents \in Nat
  BY EventLoopAssumption
<1>2. Len(<<>>) = 0 /\ \A T : <<>> \in Seq(T)
  OBVIOUS
<1>3. Range(<<>>) = {} /\ IsInjective(<<>>)
  BY DEF Range, IsInjective
<1>4. TypeOK
  <2>1. \A c \in Client : Len(toDaemon[c]) <= 2 /\ Len(toClient[c]) <= MaxQueued
    BY <1>1, <1>2 DEF Init
  <2>2. toDaemon \in [Client -> Seq({"header", "payload"})]
    BY <1>2 DEF Init
  <2>3. toClient \in [Client -> Seq({"DAEMON_STATUS"} \cup Kinds)]
    BY <1>2 DEF Init
  <2>4. /\ backlog \in Seq(Client) /\ ready \in Seq(Fd \cup {AcceptFD, StatusFD})
        /\ batch \in Seq([fd : Fd \cup {AcceptFD, StatusFD}, hup : BOOLEAN,
                          conn : Client \cup {NoClient}])
        /\ Len(batch) <= MaxEvents
    BY <1>1, <1>2 DEF Init
  <2>5. /\ phase \in [Client -> {"idle", "connected", "sending", "waiting", "done", "killed"}]
        /\ kind \in [Client -> Kinds]
        /\ last \in [Client -> {"none", "DAEMON_STATUS"} \cup Kinds]
        /\ owner \in [Fd -> Client \cup {NoClient}]
    BY DEF Init
  <2>6. /\ clientMap \in SUBSET Fd /\ handled \in SUBSET Client /\ statusCount \in BOOLEAN
        /\ pc \in {"wait", "events", "payload"}
    BY DEF Init
  <2> QED BY <2>1, <2>2, <2>3, <2>4, <2>5, <2>6 DEF TypeOK
<1>5. OneConnection /\ OneRequest
  BY <1>1, <1>3 DEF Init, OneConnection, OneRequest, Open
<1>6. EventsInOrder /\ PayloadExpected
  BY <1>3 DEF Init, EventsInOrder, EventsReachOwner, PayloadExpected, Open
<1>7. GoneIsSeen /\ NoLostWakeup
  BY DEF Init, GoneIsSeen, NoLostWakeup, Open
<1> QED BY <1>4, <1>5, <1>6, <1>7 DEF LoopInv

LEMMA LoopInvStep == LoopInv /\ [Next]_vars => LoopInv'
<1> SUFFICES ASSUME LoopInv, [Next]_vars PROVE LoopInv'
  OBVIOUS
<1>1. CASE UNCHANGED vars
  BY <1>1 DEF vars, clients, daemon, LoopInv, TypeOK, OneConnection, OneRequest, HasPayload,
              EventsInOrder, EventsReachOwner, PayloadExpected, GoneIsSeen, ToClose,
              NoLostWakeup, Pending, Open, Gone
<1>2. CASE Turn
  BY <1>2, TurnStep
<1>3. CASE HandleStatus
  BY <1>3, HandleStatusStep
<1>4. CASE ProcessNewClientConnections
  BY <1>4, ProcessNewClientConnectionsStep
<1>5. ASSUME NEW fd \in Fd, CloseClientConnection(fd) PROVE LoopInv'
  BY <1>5, CloseClientConnectionStep
<1>6. ASSUME NEW fd \in Fd, ProcessClientRequest(fd) PROVE LoopInv'
  BY <1>6, ProcessClientRequestStep
<1>7. CASE RcvPayload
  BY <1>7, RcvPayloadStep
<1>8. ASSUME NEW c \in Client, Connect(c) PROVE LoopInv'
  BY <1>8, ConnectStep
<1>9. ASSUME NEW c \in Client, SendHeader(c) \/ SendPayload(c) PROVE LoopInv'
  BY <1>9, SendStep
<1>10. ASSUME NEW c \in Client, Receive(c) \/ Kill(c) PROVE LoopInv'
  BY <1>10, LeaveStep
<1> QED BY <1>1, <1>2, <1>3, <1>4, <1>5, <1>6, <1>7, <1>8, <1>9, <1>10
        DEF Next, LoopStep, ClientStep

LEMMA LoopInvAlways == Spec => []LoopInv
BY LoopInvInit, LoopInvStep, PTL DEF Spec

\* A client's socket holds no more packets than it has room for, a turn handles
\* no more than MAXEVENTS events, and every request is a header or a header and
\* its payload.
THEOREM EventLoopTypeOK == Spec => []TypeOK
<1>1. LoopInv => TypeOK
  BY DEF LoopInv
<1> QED BY <1>1, LoopInvAlways, PTL

\* Though descriptors are closed and their numbers used again between the
\* events of one turn (epoll_wait, closeClientConnection,
\* processNewClientConnections), each event is handled on the connection it was
\* reported for, and clientMap has exactly the open connections.
THEOREM EventLoopEventsReachOwner == Spec => []EventsReachOwner
<1>1. LoopInv => EventsReachOwner
  BY DEF LoopInv, EventsInOrder
<1> QED BY <1>1, LoopInvAlways, PTL

\* Edge-triggered events are each reported once, MAXEVENTS of them at a time,
\* and one request is read per event; no connection, status, request or
\* departed client is left that no event leads the loop to.
THEOREM EventLoopNoLostWakeup == Spec => []NoLostWakeup
<1>1. LoopInv => NoLostWakeup
  BY DEF LoopInv
<1> QED BY <1>1, LoopInvAlways, PTL

(***************************************************************************)
(* That the loop keeps what RequestService promises.                       *)
(***************************************************************************)
\* An event with EPOLLHUP is of a connection whose client has left.
HupsGone ==
  \A i \in DOMAIN batch : batch[i].hup => batch[i].fd \in Fd /\ Gone(owner[batch[i].fd])

\* Nothing resets the eventfd between its event and sendStatusPacket.
StatusEventDue == statusCount \/ \A i \in DOMAIN batch : batch[i].fd # StatusFD

\* Of a request that was dispatched nothing is left to read, and whoever sent
\* it keeps its connection until it leaves.
ServedAtRest ==
  \A c \in handled :
    /\ toDaemon[c] = <<>> /\ ~Awaited(c)
    /\ phase[c] \in {"waiting", "done", "killed"}
    /\ Gone(c) \/ \E fd \in Fd : owner[fd] = c

AllHup(c) ==
  \A i \in DOMAIN batch : batch[i].fd \in Fd /\ owner[batch[i].fd] = c => batch[i].hup

\* The loop has read a header only if it waits for the payload or the client
\* has left, and then it does not read what follows.
HalfRead ==
  \A c \in Client :
    /\ toDaemon[c] = <<"payload">> =>
         Awaited(c) \/ (Gone(c) /\ AllHup(c))
    /\ phase[c] = "sending" => toDaemon[c] = <<"header">> \/ Awaited(c)
    /\ phase[c] = "waiting" => c \in handled \/ OnItsWay(c)

RequestInv == HupsGone /\ StatusEventDue /\ ServedAtRest /\ HalfRead

LEMMA PacketsDistinct ==
  /\ <<"header">> # <<>> /\ <<"payload">> # <<>> /\ <<"header", "payload">> # <<>>
  /\ <<"header">> # <<"payload">> /\ <<"header", "payload">> # <<"header">>
  /\ <<"header", "payload">> # <<"payload">>
<1>1. /\ Len(<<>>) = 0 /\ Len(<<"header">>) = 1 /\ Len(<<"payload">>) = 1
      /\ Len(<<"header", "payload">>) = 2
  OBVIOUS
<1>2. <<"header">>[1] = "header" /\ <<"payload">>[1] = "payload"
  OBVIOUS
<1> QED BY <1>1, <1>2

LEMMA RequestCases ==
  ASSUME NEW c \in Client
  PROVE  /\ c \in handled => RequestOf(c) = "served"
         /\ c \notin handled /\ OnItsWay(c) => RequestOf(c) = "pending"
         /\ c \notin handled /\ toDaemon[c] = <<"payload">> /\ ~Awaited(c) =>
              RequestOf(c) = "dropped"
         /\ c \notin handled /\ toDaemon[c] = <<>> => RequestOf(c) = "none"
         /\ /\ c \notin handled /\ toDaemon[c] = <<"header">>
            /\ HasPayload(kind[c])
            => RequestOf(c) = "none"
BY PacketsDistinct DEF RequestOf, OnItsWay

LEMMA RequestCasesNext ==
  ASSUME NEW c \in Client
  PROVE  /\ c \in handled' => RequestOf(c)' = "served"
         /\ c \notin handled' /\ OnItsWay(c)' => RequestOf(c)' = "pending"
         /\ c \notin handled' /\ toDaemon'[c] = <<"payload">> /\ ~Awaited(c)' =>
              RequestOf(c)' = "dropped"
         /\ c \notin handled' /\ toDaemon'[c] = <<>> => RequestOf(c)' = "none"
         /\ /\ c \notin handled' /\ toDaemon'[c] = <<"header">>
            /\ HasPayload(kind[c])'
            => RequestOf(c)' = "none"
BY PacketsDistinct DEF RequestOf, OnItsWay, HasPayload

LEMMA RequestSame ==
  ASSUME NEW c \in Client, toDaemon'[c] = toDaemon[c], kind' = kind,
         Awaited(c)' <=> Awaited(c), c \in handled' <=> c \in handled
  PROVE  RequestOf(c)' = RequestOf(c) /\ (OnItsWay(c)' <=> OnItsWay(c))
<1>1. OnItsWay(c)' <=> OnItsWay(c)
  BY DEF OnItsWay, HasPayload
<1> QED BY <1>1 DEF RequestOf

\* The event of a connection has a client.
LEMMA EventOwner ==
  ASSUME LoopInv, NEW i \in DOMAIN batch, batch[i].fd \in Fd
  PROVE  owner[batch[i].fd] \in Client
BY DEF LoopInv, TypeOK, EventsInOrder, Open

LEMMA ClientsKeep ==
  ASSUME LoopInv, RequestInv, UNCHANGED <<batch, pc, owner, statusCount>>,
         \A c \in Client : Gone(c) => Gone(c)'
  PROVE  /\ HupsGone' /\ StatusEventDue'
         /\ \A c : (Awaited(c)' <=> Awaited(c)) /\ (AllHup(c)' <=> AllHup(c))
<1>1. HupsGone'
  BY EventOwner DEF RequestInv, HupsGone
<1> QED BY <1>1 DEF RequestInv, StatusEventDue, Awaited, AllHup

\* The loop goes on to the next event.
LEMMA LoopGoesOn ==
  ASSUME LoopInv, RequestInv, pc # "wait", NextEvent, UNCHANGED phase,
         \A fd \in Fd \ {batch[1].fd} : owner'[fd] = owner[fd],
         statusCount => statusCount' \/ batch[1].fd = StatusFD
  PROVE  /\ HupsGone' /\ StatusEventDue'
         /\ \A c : ~Awaited(c)' /\ (AllHup(c) => AllHup(c)')
         /\ \A c : batch[1].fd \in Fd /\ owner[batch[1].fd] = c => AllHup(c)'
<1>1. \A i \in DOMAIN batch' : /\ i + 1 \in DOMAIN batch /\ batch'[i] = batch[i + 1]
                              /\ batch'[i].fd # batch[1].fd
  BY Popped
<1>2. HupsGone'
  BY <1>1 DEF RequestInv, HupsGone, Gone
<1>3. StatusEventDue'
  BY <1>1 DEF RequestInv, StatusEventDue
<1>4. \A c : ~Awaited(c)'
  BY Popped DEF Awaited
<1>5. ASSUME NEW c, AllHup(c) PROVE AllHup(c)'
  BY <1>1, <1>5 DEF AllHup
<1>6. ASSUME NEW c, batch[1].fd \in Fd, owner[batch[1].fd] = c PROVE AllHup(c)'
  <2> SUFFICES ASSUME NEW i \in DOMAIN batch', batch'[i].fd \in Fd, owner'[batch'[i].fd] = c
               PROVE  FALSE
    BY DEF AllHup
  <2>1. owner[batch'[i].fd] = owner[batch[1].fd] /\ batch'[i].fd # batch[1].fd
    BY <1>1, <1>6
  <2>2. Open(batch[1].fd)
    BY FirstEvent, <1>6 DEF LoopInv, EventsInOrder
  <2> QED BY <1>6, <2>1, <2>2 DEF LoopInv, OneConnection, Open
<1> QED BY <1>2, <1>3, <1>4, <1>5, <1>6

LEMMA ConnectServes ==
  ASSUME LoopInv, RequestInv, NEW c \in Client, Connect(c)
  PROVE  RequestInv' /\ UNCHANGED Service!vars
<1>0. /\ phase[c] = "idle" /\ phase' = [phase EXCEPT ![c] = "connected"]
      /\ UNCHANGED <<kind, toDaemon, toClient, statusCount, batch, pc, owner, handled>>
  BY DEF Connect, daemon
<1>1. \A d \in Client : phase'[d] = phase[d] \/ (phase[d] = "idle" /\ phase'[d] = "connected")
  BY <1>0 DEF LoopInv, TypeOK
<1>2. \A d \in Client : Gone(d)' <=> Gone(d)
  BY <1>1 DEF Gone
<1>3. /\ HupsGone' /\ StatusEventDue'
      /\ \A d : (Awaited(d)' <=> Awaited(d)) /\ (AllHup(d)' <=> AllHup(d))
  BY <1>0, <1>2, ClientsKeep
<1>4. \A d \in Client : RequestOf(d)' = RequestOf(d) /\ (OnItsWay(d)' <=> OnItsWay(d))
  BY <1>0, <1>3, RequestSame
<1>5. ServedAtRest'
  BY <1>0, <1>1, <1>2, <1>3 DEF LoopInv, TypeOK, RequestInv, ServedAtRest
<1>6. HalfRead'
  BY <1>0, <1>1, <1>2, <1>3, <1>4 DEF RequestInv, HalfRead
<1> QED BY <1>0, <1>2, <1>3, <1>4, <1>5, <1>6 DEF RequestInv, Service!vars

LEMMA SendServes ==
  ASSUME LoopInv, RequestInv, NEW c \in Client, SendHeader(c) \/ SendPayload(c)
  PROVE  RequestInv' /\ [Service!Next]_Service!vars
<1>0. /\ \/ /\ phase[c] = "connected"
            /\ phase' = [phase EXCEPT ![c] = IF HasPayload(kind[c]) THEN "sending" ELSE "waiting"]
            /\ toDaemon' = [toDaemon EXCEPT ![c] = Append(@, "header")]
         \/ /\ phase[c] = "sending"
            /\ phase' = [phase EXCEPT ![c] = "waiting"]
            /\ toDaemon' = [toDaemon EXCEPT ![c] = Append(@, "payload")]
      /\ UNCHANGED <<kind, toClient, statusCount, batch, pc, owner, handled>>
  BY DEF SendHeader, SendPayload, Send, daemon
<1>1. /\ \A d \in Client \ {c} : phase'[d] = phase[d] /\ toDaemon'[d] = toDaemon[d]
      /\ phase'[c] = IF phase[c] = "connected" /\ HasPayload(kind[c]) THEN "sending" ELSE "waiting"
      /\ toDaemon'[c] = Append(toDaemon[c], IF phase[c] = "connected" THEN "header" ELSE "payload")
  BY <1>0 DEF LoopInv, TypeOK
<1>2. \A d \in Client : Gone(d)' <=> Gone(d)
  BY <1>0, <1>1 DEF Gone
<1>3. /\ HupsGone' /\ StatusEventDue'
      /\ \A d : (Awaited(d)' <=> Awaited(d)) /\ (AllHup(d)' <=> AllHup(d))
  BY <1>0, <1>2, ClientsKeep
<1>4. \A d \in Client \ {c} : RequestOf(d)' = RequestOf(d) /\ (OnItsWay(d)' <=> OnItsWay(d))
  BY <1>0, <1>1, <1>3, RequestSame
<1>5. c \notin handled /\ ~Gone(c)
  BY <1>0 DEF RequestInv, ServedAtRest, Gone
<1>6. \/ phase[c] = "connected" /\ toDaemon[c] = <<>> /\ toDaemon'[c] = <<"header">>
      \/ /\ phase[c] = "sending" /\ toDaemon[c] = <<"header">>
         /\ toDaemon'[c] = <<"header", "payload">> /\ HasPayload(kind[c])
      \/ /\ phase[c] = "sending" /\ Awaited(c) /\ toDaemon[c] = <<>>
         /\ toDaemon'[c] = <<"payload">>
  <2>1. /\ Append(<<>>, "header") = <<"header">> /\ Append(<<>>, "payload") = <<"payload">>
        /\ Append(<<"header">>, "payload") = <<"header", "payload">>
    BY AppendSecond
  <2>2. phase[c] = "connected" => toDaemon[c] = <<>>
    BY DEF LoopInv, OneRequest
  <2>3. phase[c] = "sending" => /\ HasPayload(kind[c]) /\ toDaemon[c] \in {<<>>, <<"header">>}
                                /\ toDaemon[c] = <<"header">> \/ Awaited(c)
    BY DEF LoopInv, OneRequest, RequestInv, HalfRead
  <2> QED BY <1>0, <1>1, <2>1, <2>2, <2>3
<1>7. RequestOf(c) = "none"
  BY <1>5, <1>6, RequestCases
<1>8. CASE phase[c] = "connected" /\ HasPayload(kind[c])
  <2>1. toDaemon'[c] = <<"header">> /\ phase'[c] = "sending" /\ HasPayload(kind[c])'
    BY <1>0, <1>1, <1>6, <1>8 DEF HasPayload
  <2>2. RequestOf(c)' = "none"
    BY <1>0, <1>5, <2>1, RequestCasesNext
  <2>3. HalfRead'
    BY <1>0, <1>1, <1>2, <1>3, <1>4, <2>1, PacketsDistinct DEF RequestInv, HalfRead
  <2>4. \A d \in Client : RequestOf(d)' = RequestOf(d)
    BY <1>4, <1>7, <2>2
  <2>5. UNCHANGED Service!vars
    BY <1>0, <1>2, <2>4 DEF Service!vars
  <2>6. ServedAtRest'
    BY <1>0, <1>1, <1>2, <1>3, <1>5 DEF LoopInv, TypeOK, RequestInv, ServedAtRest
  <2> QED BY <1>3, <2>3, <2>5, <2>6 DEF RequestInv
<1>9. CASE ~(phase[c] = "connected" /\ HasPayload(kind[c]))
  <2>1. phase'[c] = "waiting" /\ OnItsWay(c)'
    BY <1>0, <1>1, <1>3, <1>6, <1>9 DEF OnItsWay, HasPayload
  <2>2. RequestOf(c)' = "pending"
    BY <1>0, <1>5, <2>1, RequestCasesNext
  <2>3. toDaemon'[c] = <<"payload">> => Awaited(c)'
    BY <1>3, <1>6, PacketsDistinct
  <2>4. HalfRead'
    BY <1>0, <1>1, <1>2, <1>3, <1>4, <2>1, <2>3 DEF RequestInv, HalfRead
  <2>5. ServedAtRest'
    BY <1>0, <1>1, <1>2, <1>3, <1>5 DEF LoopInv, TypeOK, RequestInv, ServedAtRest
  <2>6. [d \in Client |-> RequestOf(d)]' =
          [[d \in Client |-> RequestOf(d)] EXCEPT ![c] = "pending"]
    BY <1>4, <2>2
  <2>7. {d \in Client : Gone(d)}' = {d \in Client : Gone(d)}
    BY <1>2
  <2>8. Service!Ask(c)
    BY <1>0, <1>5, <1>7, <2>6, <2>7 DEF Service!Ask
  <2> QED BY <1>3, <2>4, <2>5, <2>8 DEF RequestInv, Service!Next
<1> QED BY <1>8, <1>9

LEMMA LeaveServes ==
  ASSUME LoopInv, RequestInv, NEW c \in Client, Receive(c) \/ Kill(c)
  PROVE  RequestInv' /\ [Service!Next]_Service!vars
<1> DEFINE gone == {d \in Client : Gone(d)}
<1>0. /\ \/ phase' = phase
         \/ \E end \in {"done", "killed"} : phase' = [phase EXCEPT ![c] = end]
      /\ phase[c] \notin {"idle", "done", "killed"}
      /\ UNCHANGED <<kind, toDaemon, statusCount, batch, pc, owner, handled>>
  BY DEF Receive, Kill, daemon
<1>1. /\ \A d \in Client \ {c} : phase'[d] = phase[d]
      /\ phase'[c] = phase[c] \/ phase'[c] \in {"done", "killed"}
  BY <1>0 DEF LoopInv, TypeOK
<1>2. ~Gone(c) /\ \A d \in Client : (Gone(d) => Gone(d)') /\ (d # c => (Gone(d)' <=> Gone(d)))
  BY <1>0, <1>1 DEF Gone
<1>3. /\ HupsGone' /\ StatusEventDue'
      /\ \A d : (Awaited(d)' <=> Awaited(d)) /\ (AllHup(d)' <=> AllHup(d))
  BY <1>0, <1>2, ClientsKeep
<1>4. \A d \in Client : RequestOf(d)' = RequestOf(d) /\ (OnItsWay(d)' <=> OnItsWay(d))
  BY <1>0, <1>3, RequestSame
<1>5. ServedAtRest'
  BY <1>0, <1>1, <1>2, <1>3 DEF LoopInv, TypeOK, RequestInv, ServedAtRest
<1>6. HalfRead'
  BY <1>0, <1>1, <1>2, <1>3, <1>4 DEF RequestInv, HalfRead
<1>7. [d \in Client |-> RequestOf(d)]' = [d \in Client |-> RequestOf(d)]
  BY <1>4
<1>8. CASE Kill(c)
  <2>1. Gone(c)' /\ toClient' = toClient
    BY <1>8 DEF Kill, Gone, LoopInv, TypeOK
  <2>2. {d \in Client : Gone(d)}' = {d \in Client : Gone(d)} \cup {c}
    BY <1>2, <2>1
  <2>3. Service!Leave(c)
    BY <1>0, <1>2, <1>7, <2>1, <2>2 DEF Service!Leave
  <2> QED BY <1>3, <1>5, <1>6, <2>3 DEF RequestInv, Service!Next
<1>9. CASE Receive(c)
  <2>1. /\ phase[c] = "waiting" /\ toClient[c] # <<>>
        /\ toClient' = [toClient EXCEPT ![c] = Tail(@)]
        /\ IF Quits(c, Head(toClient[c])) THEN phase' = [phase EXCEPT ![c] = "done"]
                                          ELSE phase' = phase
    BY <1>9 DEF Receive
  <2>2. RequestOf(c) \in {"pending", "served"}
    BY <2>1, RequestCases DEF RequestInv, HalfRead
  <2>3. Gone(c)' <=> Quits(c, Head(toClient[c]))
    BY <1>2, <2>1 DEF Gone, LoopInv, TypeOK
  <2>4. {d \in Client : Gone(d)}' =
          IF c \notin Monitors /\ Head(toClient[c]) \in {"DAEMON_STATUS", kind[c]}
            THEN {d \in Client : Gone(d)} \cup {c} ELSE {d \in Client : Gone(d)}
    BY <1>2, <2>3 DEF Quits
  <2>5. Service!Read(c)
    BY <1>0, <1>2, <1>7, <2>1, <2>2, <2>4 DEF Service!Read
  <2> QED BY <1>3, <1>5, <1>6, <2>5 DEF RequestInv, Service!Next
<1> QED BY <1>8, <1>9

\* A step of the loop that leaves the packets to the daemon where they are.
LEMMA LoopKeeps ==
  ASSUME LoopInv, RequestInv, pc = "events", NextEvent,
         UNCHANGED <<phase, kind, toDaemon, handled>>,
         \A fd \in Fd \ {batch[1].fd} : owner'[fd] = owner[fd],
         batch[1].fd \in Fd => owner' = owner \/ Gone(owner[batch[1].fd]),
         statusCount => statusCount' \/ batch[1].fd = StatusFD
  PROVE  RequestInv' /\ [d \in Client |-> RequestOf(d)]' = [d \in Client |-> RequestOf(d)]
<1>1. /\ HupsGone' /\ StatusEventDue'
      /\ \A d : ~Awaited(d)' /\ (AllHup(d) => AllHup(d)')
  BY LoopGoesOn
<1>2. \A d : ~Awaited(d)
  BY DEF Awaited
<1>3. \A d \in Client : RequestOf(d)' = RequestOf(d) /\ (OnItsWay(d)' <=> OnItsWay(d))
  BY <1>1, <1>2, RequestSame
<1>4. ServedAtRest'
  <2>1. \A d \in Client, fd \in Fd : owner[fd] = d /\ ~Gone(d) => owner'[fd] = d
    OBVIOUS
  <2> QED BY <1>1, <2>1 DEF LoopInv, TypeOK, RequestInv, ServedAtRest, Gone
<1>5. HalfRead'
  BY <1>1, <1>2, <1>3 DEF RequestInv, HalfRead, Gone
<1> QED BY <1>1, <1>3, <1>4, <1>5 DEF RequestInv

LEMMA TurnServes ==
  ASSUME LoopInv, RequestInv, Turn
  PROVE  RequestInv' /\ [Service!Next]_Service!vars
<1> DEFINE found == Entries(ready, {i \in DOMAIN ready : Readable(ready[i])})
           n == IF Len(found) < MaxEvents THEN Len(found) ELSE MaxEvents
<1>0. /\ pc = "wait" /\ batch' = [i \in 1 .. n |-> EventOf(found[i])]
      /\ pc' \in {"wait", "events"}
      /\ UNCHANGED statusCount \/ statusCount' = TRUE
      /\ UNCHANGED <<phase, kind, toDaemon, toClient, owner, handled>>
  BY DEF Turn, clients
<1>1. /\ found \in Seq(FDs)
      /\ Range(found) = {fd \in Range(ready) : Readable(fd)}
  <2> DEFINE at == {i \in DOMAIN ready : Readable(ready[i])}
  <2>1. /\ Entries(ready, at) \in Seq(FDs)
        /\ Range(Entries(ready, at)) = {ready[i] : i \in at}
    BY ListTypes, EntriesOfList
  <2>2. {ready[i] : i \in at} = {fd \in Range(ready) : Readable(fd)}
    BY DEF Range
  <2> QED BY <2>1, <2>2
<1> HIDE DEF found
<1>2. DOMAIN batch' = 1 .. n /\ 1 .. n \subseteq DOMAIN found
  BY <1>0, <1>1, EventLoopAssumption
<1>3. ASSUME NEW i \in DOMAIN batch'
      PROVE  /\ batch'[i] = EventOf(found[i]) /\ found[i] \in FDs /\ Readable(found[i])
             /\ batch'[i].fd = found[i]
  <2>1. batch'[i] = EventOf(found[i]) /\ i \in DOMAIN found
    BY <1>0, <1>2
  <2>2. found[i] \in FDs /\ Readable(found[i])
    BY <1>1, <2>1 DEF Range
  <2>3. EventOf(found[i]).fd = found[i]
    BY DEF EventOf
  <2> QED BY <2>1, <2>2, <2>3
<1>4. \A d : ~Awaited(d) /\ ~Awaited(d)'
  BY <1>0 DEF Awaited
<1>5. HupsGone'
  <2> SUFFICES ASSUME NEW i \in DOMAIN batch', batch'[i].hup
               PROVE  batch'[i].fd \in Fd /\ Gone(owner[batch'[i].fd])
    BY <1>0 DEF HupsGone, Gone
  <2> QED BY <1>3 DEF EventOf
<1>6. StatusEventDue'
  <2> SUFFICES ASSUME NEW i \in DOMAIN batch', batch'[i].fd = StatusFD PROVE statusCount'
    BY DEF StatusEventDue
  <2>1. Readable(StatusFD) <=> statusCount
    BY EventLoopAssumption DEF Readable
  <2>2. found[i] = StatusFD /\ Readable(found[i])
    BY <1>3
  <2>3. statusCount = TRUE
    BY <2>1, <2>2 DEF LoopInv, TypeOK
  <2> QED BY <1>0, <2>3
<1>7. \A d \in Client : RequestOf(d)' = RequestOf(d) /\ (OnItsWay(d)' <=> OnItsWay(d))
  BY <1>0, <1>4, RequestSame
<1>8. ServedAtRest'
  BY <1>0, <1>4 DEF RequestInv, ServedAtRest, Gone
<1>9. HalfRead'
  <2>1. ASSUME NEW d \in Client, Gone(d) PROVE AllHup(d)'
    <3> SUFFICES ASSUME NEW i \in DOMAIN batch', batch'[i].fd \in Fd, owner[batch'[i].fd] = d
                 PROVE  batch'[i].hup
      BY <1>0 DEF AllHup
    <3> QED BY <1>3, <2>1 DEF EventOf
  <2>2. ASSUME NEW d \in Client
        PROVE  /\ toDaemon[d] = <<"payload">> => Gone(d) /\ AllHup(d)'
               /\ phase[d] = "sending" => toDaemon[d] = <<"header">>
               /\ phase[d] = "waiting" => d \in handled \/ OnItsWay(d)'
    BY <1>4, <1>7, <2>1 DEF RequestInv, HalfRead
  <2> QED BY <1>0, <2>2 DEF HalfRead, Gone
<1>10. /\ [d \in Client |-> RequestOf(d)]' = [d \in Client |-> RequestOf(d)]
       /\ {d \in Client : Gone(d)}' = {d \in Client : Gone(d)}
  BY <1>0, <1>7 DEF Gone
<1>11. UNCHANGED Service!vars \/ Service!TimeForStatus
  BY <1>0, <1>10 DEF Service!vars, Service!TimeForStatus
<1> QED BY <1>5, <1>6, <1>8, <1>9, <1>11 DEF RequestInv, Service!Next

LEMMA HandleStatusServes ==
  ASSUME LoopInv, RequestInv, HandleStatus
  PROVE  RequestInv' /\ [Service!Next]_Service!vars
<1>0. /\ pc = "events" /\ batch[1].fd = StatusFD /\ statusCount' = FALSE /\ NextEvent
      /\ UNCHANGED <<phase, kind, toDaemon, handled, owner>>
      /\ toClient' = [d \in Client |-> IF \E fd \in clientMap : owner[fd] = d
                                         THEN Delivered(d, "DAEMON_STATUS") ELSE toClient[d]]
  BY DEF HandleStatus, At, SendStatusPacket, clients
<1>1. statusCount
  BY <1>0, FirstEvent DEF RequestInv, StatusEventDue
<1>2. StatusFD \notin Fd
  BY EventLoopAssumption
<1>3. RequestInv' /\ [d \in Client |-> RequestOf(d)]' = [d \in Client |-> RequestOf(d)]
  BY <1>0, <1>2, LoopKeeps
<1>4. {d \in Client : Gone(d)}' = {d \in Client : Gone(d)}
  BY <1>0 DEF Gone
<1> DEFINE to == {d \in Client : \E fd \in clientMap : owner[fd] = d}
<1>5. \A d \in Client : ~Gone(d) /\ RequestOf(d) = "served" => d \in to
  <2>1. \A d \in Client : RequestOf(d) = "served" => d \in handled
    BY DEF RequestOf
  <2>2. clientMap = {fd \in Fd : Open(fd)}
    BY DEF LoopInv, EventsInOrder, EventsReachOwner
  <2>3. NoClient \notin Client
    BY EventLoopAssumption
  <2> QED BY <2>1, <2>2, <2>3 DEF RequestInv, ServedAtRest, Open
<1>6. \A d \in Client : Delivered(d, "DAEMON_STATUS") = Service!Delivered(d, "DAEMON_STATUS")
  BY DEF Delivered, Service!Delivered
<1>7. toClient' = [d \in Client |-> IF d \in to THEN Service!Delivered(d, "DAEMON_STATUS")
                                               ELSE toClient[d]]
  BY <1>0, <1>6
<1>8. /\ to \in SUBSET Client
      /\ \A c \in Client \ {d \in Client : Gone(d)} :
           [d \in Client |-> RequestOf(d)][c] = "served" => c \in to
  BY <1>5
<1> HIDE DEF to
<1>9. Service!Broadcast
  BY <1>0, <1>1, <1>3, <1>4, <1>7, <1>8 DEF Service!Broadcast
<1> QED BY <1>3, <1>9 DEF Service!Next

LEMMA CloseServes ==
  ASSUME LoopInv, RequestInv, NEW fd \in Fd, CloseClientConnection(fd)
  PROVE  RequestInv' /\ UNCHANGED Service!vars
<1>0. /\ pc = "events" /\ batch[1].fd = fd /\ batch[1].hup /\ NextEvent
      /\ owner' = [owner EXCEPT ![fd] = NoClient]
      /\ UNCHANGED <<phase, kind, toDaemon, toClient, statusCount, handled>>
  BY DEF CloseClientConnection, At, clients
<1>1. \A f \in Fd \ {fd} : owner'[f] = owner[f]
  BY <1>0 DEF LoopInv, TypeOK
<1>2. Gone(owner[fd])
  BY <1>0, FirstEvent DEF RequestInv, HupsGone
<1>3. RequestInv' /\ [d \in Client |-> RequestOf(d)]' = [d \in Client |-> RequestOf(d)]
  BY <1>0, <1>1, <1>2, LoopKeeps
<1>4. {d \in Client : Gone(d)}' = {d \in Client : Gone(d)}
  BY <1>0 DEF Gone
<1> QED BY <1>0, <1>3, <1>4 DEF Service!vars

LEMMA AcceptServes ==
  ASSUME LoopInv, RequestInv, ProcessNewClientConnections
  PROVE  RequestInv' /\ UNCHANGED Service!vars
<1>0. /\ pc = "events" /\ batch[1].fd = AcceptFD
      /\ UNCHANGED <<phase, kind, toDaemon, toClient, statusCount, handled>>
  BY DEF ProcessNewClientConnections, At, clients
<1>1. {d \in Client : Gone(d)}' = {d \in Client : Gone(d)}
  BY <1>0 DEF Gone
<1>2. AcceptFD \notin Fd /\ NoClient \notin Client
  BY EventLoopAssumption
<1>3. CASE backlog = <<>>
  <2>1. NextEvent /\ UNCHANGED owner
    BY <1>3 DEF ProcessNewClientConnections
  <2>2. RequestInv' /\ [d \in Client |-> RequestOf(d)]' = [d \in Client |-> RequestOf(d)]
    BY <1>0, <1>2, <2>1, LoopKeeps
  <2> QED BY <1>0, <1>1, <2>2 DEF Service!vars
<1>4. CASE backlog # <<>>
  <2> DEFINE fd == CHOOSE f \in Fd : ~Open(f) /\ \A g \in Fd : g < f => Open(g)
  <2>1. owner' = [owner EXCEPT ![fd] = Head(backlog)] /\ UNCHANGED <<batch, pc>>
    BY <1>4 DEF ProcessNewClientConnections, Accept
  <2>2. Head(backlog) \in Range(backlog) /\ Head(backlog) \in Client
    <3>1. backlog \in Seq(Client)
      BY DEF LoopInv, TypeOK
    <3> QED BY <1>4, <3>1 DEF Range
  <2>3. fd \in Fd /\ ~Open(fd)
    BY <2>2, FreeDescriptor
  <2> HIDE DEF fd
  <2>4. owner'[fd] = Head(backlog) /\ \A f \in Fd \ {fd} : owner'[f] = owner[f]
    BY <2>1, <2>3 DEF LoopInv, TypeOK
  <2>5. \A i \in DOMAIN batch : batch[i].fd \in Fd =>
          batch[i].fd # fd /\ owner'[batch[i].fd] = owner[batch[i].fd]
    BY <2>3, <2>4 DEF LoopInv, EventsInOrder
  <2>6. HupsGone' /\ StatusEventDue'
    BY <1>0, <2>1, <2>5 DEF RequestInv, HupsGone, StatusEventDue, Gone
  <2>7. \A d : ~Awaited(d) /\ ~Awaited(d)' /\ (AllHup(d)' <=> AllHup(d))
    BY <1>0, <2>1, <2>5 DEF Awaited, AllHup
  <2>8. \A d \in Client : RequestOf(d)' = RequestOf(d) /\ (OnItsWay(d)' <=> OnItsWay(d))
    BY <1>0, <2>7, RequestSame
  <2>9. ServedAtRest'
    <3>1. \A d \in Client, f \in Fd : owner[f] = d => owner'[f] = d
      BY <1>2, <2>3, <2>4 DEF Open
    <3> QED BY <1>0, <2>7, <3>1 DEF LoopInv, TypeOK, RequestInv, ServedAtRest, Gone
  <2>10. HalfRead'
    BY <1>0, <2>7, <2>8 DEF RequestInv, HalfRead, Gone
  <2> QED BY <1>0, <1>1, <2>6, <2>8, <2>9, <2>10 DEF RequestInv, Service!vars
<1> QED BY <1>3, <1>4

\* A request all of which has been read is dispatched: it was pending.
LEMMA DispatchServes ==
  ASSUME LoopInv, RequestInv, NEW c \in Client, pc # "wait", Dispatch(c),
         batch[1].fd \in Fd, owner[batch[1].fd] = c, pc = "payload" => Awaited(c),
         OnItsWay(c), toDaemon[c] # <<>>, toDaemon'[c] = <<>>,
         \A d \in Client \ {c} : toDaemon'[d] = toDaemon[d],
         UNCHANGED <<phase, kind, owner>>
  PROVE  RequestInv' /\ [Service!Next]_Service!vars
<1>0. /\ handled' = handled \cup {c} /\ NextEvent
      /\ IF kind[c] = "status" THEN UNCHANGED toClient ELSE SendAll(c, kind[c])
      /\ \/ TriggersStatus(kind[c]) /\ statusCount' = TRUE
         \/ kind[c] \notin {"status", "cancel"} /\ UNCHANGED statusCount
  BY DEF Dispatch, TriggerStatusSend
<1>1. c \notin handled /\ phase[c] \notin {"idle", "connected", "sending"}
  <2>1. c \notin handled
    BY DEF RequestInv, ServedAtRest
  <2>2. phase[c] \notin {"idle", "connected"}
    BY DEF LoopInv, OneRequest
  <2>3. phase[c] = "sending" => FALSE
    <3> SUFFICES ASSUME phase[c] = "sending" PROVE FALSE
      OBVIOUS
    <3>1. HasPayload(kind[c]) /\ toDaemon[c] = <<"header">>
      BY DEF LoopInv, OneRequest
    <3> QED BY <3>1, PacketsDistinct DEF OnItsWay
  <2> QED BY <2>1, <2>2, <2>3
<1>2. /\ HupsGone' /\ StatusEventDue'
      /\ \A d : ~Awaited(d)' /\ (AllHup(d) => AllHup(d)')
  BY <1>0, LoopGoesOn DEF LoopInv, TypeOK
<1>3. \A d \in Client \ {c} : ~Awaited(d)
  BY DEF Awaited
<1>4. \A d \in Client \ {c} : RequestOf(d)' = RequestOf(d) /\ (OnItsWay(d)' <=> OnItsWay(d))
  BY <1>0, <1>2, <1>3, RequestSame
<1>5. RequestOf(c) = "pending" /\ RequestOf(c)' = "served"
  BY <1>0, <1>1, RequestCases, RequestCasesNext
<1>6. ServedAtRest'
  <2>1. phase[c] \in {"waiting", "done", "killed"}
    BY <1>1 DEF LoopInv, TypeOK
  <2>2. handled \subseteq Client
    BY DEF LoopInv, TypeOK
  <2> QED BY <1>0, <1>2, <2>1, <2>2 DEF RequestInv, ServedAtRest, Gone
<1>7. HalfRead'
  BY <1>0, <1>1, <1>2, <1>3, <1>4, PacketsDistinct DEF RequestInv, HalfRead, Gone
<1>8. [d \in Client |-> RequestOf(d)]' = [[d \in Client |-> RequestOf(d)] EXCEPT ![c] = "served"]
  BY <1>4, <1>5
<1>9. {d \in Client : Gone(d)}' = {d \in Client : Gone(d)}
  BY DEF Gone
<1>10. kind[c] \in Kind
  BY EventLoopAssumption DEF LoopInv, TypeOK
<1>11. toClient' = IF kind[c] \in {"status"}
                     THEN toClient
                     ELSE [toClient EXCEPT ![c] = Service!Delivered(c, kind[c])]
  <2>1. Delivered(c, kind[c]) = Service!Delivered(c, kind[c])
    BY DEF Delivered, Service!Delivered
  <2> QED BY <1>0, <2>1 DEF SendAll
<1>12. \/ kind[c] \in {k \in Kind : TriggersStatus(k)} /\ statusCount' = TRUE
       \/ kind[c] \notin {"status", "cancel"} /\ UNCHANGED statusCount
  BY <1>0, <1>10
<1>13. Service!Serve(c)
  BY <1>5, <1>8, <1>9, <1>11, <1>12 DEF Service!Serve
<1> QED BY <1>2, <1>6, <1>7, <1>13 DEF RequestInv, Service!Next

LEMMA ProcessClientRequestServes ==
  ASSUME LoopInv, RequestInv, NEW fd \in Fd, ProcessClientRequest(fd)
  PROVE  RequestInv' /\ [Service!Next]_Service!vars
<1>0. /\ pc = "events" /\ batch[1].fd = fd /\ ~batch[1].hup
      /\ UNCHANGED <<phase, kind, owner>>
  BY DEF ProcessClientRequest, At, clients
<1> PICK c \in Client : c = owner[fd]
  BY <1>0, FirstEvent
<1>1. /\ c = owner[batch[1].fd] /\ 1 \in DOMAIN batch /\ batch[1].fd \in Fd
  BY <1>0, FirstEvent
<1>2. \A d : ~Awaited(d)
  BY <1>0 DEF Awaited
<1>3. toDaemon[c] # <<"payload">>
  <2>1. ~AllHup(c)
    BY <1>0, <1>1 DEF AllHup
  <2> QED BY <1>1, <1>2, <2>1 DEF RequestInv, HalfRead
<1>4. {d \in Client : Gone(d)}' = {d \in Client : Gone(d)}
  BY <1>0 DEF Gone
<1>5. CASE ReadFails(c)
  <2>1. NextEvent /\ UNCHANGED <<toDaemon, toClient, statusCount, handled>>
    BY <1>5 DEF ReadFails
  <2>2. RequestInv' /\ [d \in Client |-> RequestOf(d)]' = [d \in Client |-> RequestOf(d)]
    BY <1>0, <1>1, <2>1, LoopKeeps
  <2>3. UNCHANGED Service!vars
    BY <1>0, <1>4, <2>1, <2>2 DEF Service!vars
  <2> QED BY <2>2, <2>3
<1>6. ASSUME toDaemon[c] # <<>>, toDaemon' = [toDaemon EXCEPT ![c] = Tail(@)]
      PROVE  /\ toDaemon[c] \in {<<"header">>, <<"header", "payload">>}
             /\ toDaemon'[c] = IF toDaemon[c] = <<"header">> THEN <<>> ELSE <<"payload">>
             /\ \A d \in Client \ {c} : toDaemon'[d] = toDaemon[d]
             /\ Head(toDaemon[c]) = "header"
             /\ c \notin handled
  <2>1. toDaemon[c] \in {<<"header">>, <<"header", "payload">>}
    BY <1>1, <1>3, <1>6 DEF LoopInv, OneRequest
  <2>2. toDaemon'[c] = Tail(toDaemon[c]) /\ \A d \in Client \ {c} : toDaemon'[d] = toDaemon[d]
    BY <1>1, <1>6 DEF LoopInv, TypeOK
  <2>3. /\ Tail(<<"header">>) = <<>> /\ Tail(<<"header", "payload">>) = <<"payload">>
    BY TailPackets
  <2>4. Head(<<"header">>) = "header" /\ Head(<<"header", "payload">>) = "header"
    OBVIOUS
  <2>5. toDaemon'[c] = IF toDaemon[c] = <<"header">> THEN <<>> ELSE <<"payload">>
    BY <2>1, <2>2, <2>3
  <2>6. Head(toDaemon[c]) = "header"
    BY <2>1, <2>4
  <2>7. c \notin handled
    BY <1>6 DEF RequestInv, ServedAtRest
  <2> QED BY <2>1, <2>2, <2>5, <2>6, <2>7
<1>7. CASE /\ toDaemon[c] # <<>> /\ toDaemon' = [toDaemon EXCEPT ![c] = Tail(@)]
           /\ HasPayload(kind[c])
           /\ pc' = "payload" /\ UNCHANGED <<batch, toClient, statusCount, handled>>
  <2>1. /\ \/ toDaemon[c] = <<"header">> /\ toDaemon'[c] = <<>>
           \/ toDaemon[c] = <<"header", "payload">> /\ toDaemon'[c] = <<"payload">>
        /\ \A d \in Client \ {c} : toDaemon'[d] = toDaemon[d]
        /\ c \notin handled
    BY <1>6, <1>7, PacketsDistinct
  <2>2. /\ Awaited(c)' /\ \A d : (AllHup(d)' <=> AllHup(d)) /\ (d # c => ~Awaited(d)')
    BY <1>0, <1>1, <1>7 DEF Awaited, AllHup
  <2>3. HupsGone' /\ StatusEventDue'
    BY <1>0, <1>7 DEF RequestInv, HupsGone, StatusEventDue, Gone
  <2>4. \A d \in Client \ {c} : RequestOf(d)' = RequestOf(d) /\ (OnItsWay(d)' <=> OnItsWay(d))
    BY <1>0, <1>2, <1>7, <2>1, <2>2, RequestSame
  <2>5. HasPayload(kind[c])'
    BY <1>0, <1>7 DEF HasPayload
  <2>6. OnItsWay(c)' <=> OnItsWay(c)
    BY <1>7, <2>1, <2>2, <2>5, PacketsDistinct DEF OnItsWay
  <2>7. RequestOf(c)' = RequestOf(c)
    <3>1. CASE toDaemon[c] = <<"header">>
      BY <1>1, <1>7, <2>1, <3>1, PacketsDistinct, RequestCases, RequestCasesNext
    <3>2. CASE toDaemon[c] = <<"header", "payload">>
      <4>1. OnItsWay(c) /\ c \in Client
        BY <1>1, <3>2 DEF OnItsWay
      <4>2. RequestOf(c) = "pending"
        BY <2>1, <4>1, RequestCases
      <4>3. c \notin handled' /\ OnItsWay(c)'
        BY <1>7, <2>1, <2>6, <4>1
      <4>4. RequestOf(c)' = "pending"
        BY <4>1, <4>3, RequestCasesNext
      <4> QED BY <4>2, <4>4
    <3> QED BY <2>1, <3>1, <3>2
  <2>8. ServedAtRest'
    BY <1>0, <1>7, <2>1, <2>2 DEF LoopInv, TypeOK, RequestInv, ServedAtRest, Gone
  <2>9. HalfRead'
    BY <1>0, <1>2, <1>7, <2>1, <2>2, <2>4, <2>6 DEF RequestInv, HalfRead, Gone
  <2>10. UNCHANGED Service!vars
    BY <1>0, <1>4, <1>7, <2>4, <2>7 DEF Service!vars
  <2> QED BY <2>3, <2>8, <2>9, <2>10 DEF RequestInv
<1>8. CASE /\ toDaemon[c] # <<>> /\ toDaemon' = [toDaemon EXCEPT ![c] = Tail(@)]
           /\ ~HasPayload(kind[c]) /\ Dispatch(c)
  <2>1. toDaemon[c] = <<"header">>
    BY <1>1, <1>8 DEF LoopInv, OneRequest
  <2>2. /\ OnItsWay(c) /\ toDaemon'[c] = <<>>
        /\ \A d \in Client \ {c} : toDaemon'[d] = toDaemon[d]
    BY <1>6, <1>8, <2>1 DEF OnItsWay
  <2> QED BY <1>0, <1>1, <1>8, <2>2, DispatchServes
<1>9. toDaemon[c] # <<>> /\ toDaemon' = [toDaemon EXCEPT ![c] = Tail(@)] =>
        Head(toDaemon[c]) = "header"
  BY <1>6
<1> QED BY <1>5, <1>7, <1>8, <1>9 DEF ProcessClientRequest

LEMMA RcvPayloadServes ==
  ASSUME LoopInv, RequestInv, RcvPayload
  PROVE  RequestInv' /\ [Service!Next]_Service!vars
<1>0. pc = "payload" /\ UNCHANGED <<phase, kind, owner>>
  BY DEF RcvPayload, clients
<1> PICK c \in Client : c = owner[batch[1].fd]
  BY <1>0, FirstEvent DEF LoopInv, PayloadExpected
<1>1. /\ batch[1].fd \in Fd /\ toDaemon[c] \in {<<>>, <<"payload">>}
      /\ Awaited(c) /\ c \notin handled
  BY <1>0, FirstEvent DEF LoopInv, PayloadExpected, Awaited, RequestInv, ServedAtRest
<1>2. CASE Gone(c) /\ ReadFails(c)
  <2>1. NextEvent /\ UNCHANGED <<toDaemon, toClient, statusCount, handled>>
    BY <1>2 DEF ReadFails
  <2>2. /\ HupsGone' /\ StatusEventDue'
        /\ \A d : ~Awaited(d)' /\ (AllHup(d) => AllHup(d)')
        /\ \A d : owner[batch[1].fd] = d => AllHup(d)'
    BY <1>0, <1>1, <2>1, LoopGoesOn
  <2>3. \A d \in Client \ {c} : ~Awaited(d)
    BY DEF Awaited
  <2>4. \A d \in Client \ {c} : RequestOf(d)' = RequestOf(d) /\ (OnItsWay(d)' <=> OnItsWay(d))
    BY <1>0, <2>1, <2>2, <2>3, RequestSame
  <2>5. ServedAtRest'
    BY <1>0, <2>1, <2>2 DEF LoopInv, TypeOK, RequestInv, ServedAtRest, Gone
  <2>6. HalfRead'
    <3>1. ASSUME NEW d \in Client
          PROVE  /\ toDaemon[d] = <<"payload">> => Gone(d) /\ AllHup(d)'
                 /\ phase[d] = "sending" => toDaemon[d] = <<"header">>
                 /\ phase[d] = "waiting" => d \in handled \/ OnItsWay(d)'
      <4>1. CASE d = c
        BY <1>2, <2>2, <4>1 DEF Gone
      <4>2. CASE d # c
        BY <2>2, <2>3, <2>4, <4>2 DEF RequestInv, HalfRead
      <4> QED BY <4>1, <4>2
    <3> QED BY <1>0, <2>1, <3>1 DEF HalfRead, Gone
  <2>7. {d \in Client : Gone(d)}' = {d \in Client : Gone(d)}
    BY <1>0 DEF Gone
  <2>8. CASE toDaemon[c] = <<>>
    <3>1. RequestOf(c)' = RequestOf(c)
      BY <1>1, <2>1, <2>8, RequestCases, RequestCasesNext
    <3>2. UNCHANGED Service!vars
      BY <1>0, <2>1, <2>4, <2>7, <3>1 DEF Service!vars
    <3> QED BY <2>2, <2>5, <2>6, <3>2 DEF RequestInv
  <2>9. CASE toDaemon[c] = <<"payload">>
    <3>1. RequestOf(c) = "pending"
      BY <1>1, <2>9, RequestCases DEF OnItsWay
    <3>2. RequestOf(c)' = "dropped"
      BY <1>1, <2>1, <2>2, <2>9, RequestCasesNext
    <3>3. [d \in Client |-> RequestOf(d)]' =
            [[d \in Client |-> RequestOf(d)] EXCEPT ![c] = "dropped"]
      BY <2>4, <3>2
    <3>4. Service!Drop(c)
      BY <1>0, <1>2, <2>1, <2>7, <3>1, <3>3 DEF Service!Drop
    <3> QED BY <2>2, <2>5, <2>6, <3>4 DEF RequestInv, Service!Next
  <2> QED BY <1>1, <2>8, <2>9
<1>3. CASE toDaemon[c] # <<>> /\ toDaemon' = [toDaemon EXCEPT ![c] = Tail(@)] /\ Dispatch(c)
  <2>1. toDaemon[c] = <<"payload">>
    BY <1>1, <1>3
  <2>2. toDaemon'[c] = Tail(<<"payload">>) /\ \A d \in Client \ {c} : toDaemon'[d] = toDaemon[d]
    BY <1>1, <1>3, <2>1 DEF LoopInv, TypeOK
  <2>3. toDaemon'[c] = <<>>
    BY <2>2, TailPackets
  <2>4. OnItsWay(c)
    BY <1>1, <2>1 DEF OnItsWay
  <2> QED BY <1>0, <1>1, <1>3, <2>2, <2>3, <2>4, DispatchServes
<1> QED BY <1>2, <1>3 DEF RcvPayload

LEMMA ServesInit == Init => RequestInv /\ Service!Init
<1> SUFFICES ASSUME Init PROVE RequestInv /\ Service!Init
  OBVIOUS
<1>1. RequestInv
  BY DEF Init, RequestInv, HupsGone, StatusEventDue, ServedAtRest, HalfRead
<1>2. \A c \in Client : RequestOf(c) = "none" /\ ~Gone(c)
  BY RequestCases DEF Init, Gone
<1>3. Service!Init
  BY <1>2 DEF Init, Service!Init
<1> QED BY <1>1, <1>3

LEMMA ServesStep ==
  LoopInv /\ RequestInv /\ [Next]_vars => RequestInv' /\ [Service!Next]_Service!vars
<1> SUFFICES ASSUME LoopInv, RequestInv, [Next]_vars
             PROVE  RequestInv' /\ [Service!Next]_Service!vars
  OBVIOUS
<1>1. CASE UNCHANGED vars
  <2>1. UNCHANGED <<phase, kind, toDaemon, toClient, owner, statusCount, batch, pc, handled>>
    BY <1>1 DEF vars, clients, daemon
  <2>2. /\ HupsGone' /\ StatusEventDue'
        /\ \A d : (Awaited(d)' <=> Awaited(d)) /\ (AllHup(d)' <=> AllHup(d))
    BY <2>1, ClientsKeep DEF Gone
  <2>3. \A d \in Client : RequestOf(d)' = RequestOf(d) /\ (OnItsWay(d)' <=> OnItsWay(d))
    BY <2>1, <2>2, RequestSame
  <2>4. ServedAtRest' /\ HalfRead'
    BY <2>1, <2>2, <2>3 DEF LoopInv, TypeOK, RequestInv, ServedAtRest, HalfRead, Gone
  <2>5. UNCHANGED Service!vars
    BY <2>1, <2>3 DEF Service!vars, Gone
  <2> QED BY <2>2, <2>4, <2>5 DEF RequestInv
<1>2. CASE Turn
  BY <1>2, TurnServes
<1>3. CASE HandleStatus
  BY <1>3, HandleStatusServes
<1>4. CASE ProcessNewClientConnections
  BY <1>4, AcceptServes
<1>5. ASSUME NEW fd \in Fd, CloseClientConnection(fd)
      PROVE  RequestInv' /\ [Service!Next]_Service!vars
  BY <1>5, CloseServes
<1>6. ASSUME NEW fd \in Fd, ProcessClientRequest(fd)
      PROVE  RequestInv' /\ [Service!Next]_Service!vars
  BY <1>6, ProcessClientRequestServes
<1>7. CASE RcvPayload
  BY <1>7, RcvPayloadServes
<1>8. ASSUME NEW c \in Client, Connect(c)
      PROVE  RequestInv' /\ [Service!Next]_Service!vars
  BY <1>8, ConnectServes
<1>9. ASSUME NEW c \in Client, SendHeader(c) \/ SendPayload(c)
      PROVE  RequestInv' /\ [Service!Next]_Service!vars
  BY <1>9, SendServes
<1>10. ASSUME NEW c \in Client, Receive(c) \/ Kill(c)
       PROVE  RequestInv' /\ [Service!Next]_Service!vars
  BY <1>10, LeaveServes
<1> QED BY <1>1, <1>2, <1>3, <1>4, <1>5, <1>6, <1>7, <1>8, <1>9, <1>10
        DEF Next, LoopStep, ClientStep

\* Whatever the interleaving of clients that connect, send, read and are killed
\* with the turns of the loop, the daemon is the service of RequestService: each
\* request is dispatched at most once, and only when all of it was sent; none is
\* dropped while its client lives; an answer is lost only at a full socket or to
\* a client that has left; and every client that was served, and has not left,
\* gets the statuses that follow, which go out only when one is due.
THEOREM EventLoopImplementsService == Spec => ServiceKept
<1>1. Spec => [](LoopInv /\ RequestInv)
  <2>1. Init => LoopInv /\ RequestInv
    BY LoopInvInit, ServesInit
  <2>2. LoopInv /\ RequestInv /\ [Next]_vars => (LoopInv /\ RequestInv)'
    BY LoopInvStep, ServesStep
  <2> QED BY <2>1, <2>2, PTL DEF Spec
<1> QED BY <1>1, ServesInit, ServesStep, PTL DEF Spec, ServiceKept, Service!Spec
=============================================================================
