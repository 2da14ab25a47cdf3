----------------------------- MODULE EventLoop -----------------------------
(***************************************************************************)
(* Who is heard by the daemon, and when: the sockets and the event loop of *)
(* HNSwitchDaemon, the packets of HNSWDPacketDaemon, and the runs of the   *)
(* client program (hnswitchd_client.cpp), each of which connects, sends    *)
(* one request and reads packets until one makes it exit.                  *)
(*                                                                         *)
(* epoll is edge-triggered: a descriptor is put on the ready list when     *)
(* something happens to it, and leaves it when epoll_wait has reported it, *)
(* read or not.  What the requests do is the other modules' part, so all   *)
(* there is of a request here is its kind, whether it is answered and      *)
(* whether it has a status packet sent to all clients.                     *)
(***************************************************************************)
EXTENDS Naturals, Sequences, Functions, FiniteSets

CONSTANTS Client,      \* runs of the client program
          Monitors,    \* those of them with --monitor
          Fd,          \* the daemon's descriptors for connections
          AcceptFD,    \* acceptFD, the listening socket
          StatusFD,    \* m_sendStatusFD, an eventfd
          NoClient,    \* no connection
          Kinds,       \* the requests clients make
          MaxEvents,   \* MAXEVENTS, how many events epoll_wait returns
          MaxQueued    \* packets a client's socket has room for

\* "seqadd" and "schstate" have a payload, a second packet after the header.
\* "reset" is handled like "status", "swinfo" like "health".
Kind == {"status", "health", "seqadd", "cancel", "schstate"}

ASSUME EventLoopAssumption ==
  /\ Monitors \subseteq Client
  /\ NoClient \notin Client
  /\ Fd \subseteq Nat
  \* The daemon does not run out of descriptors.
  /\ IsFiniteSet(Client) /\ IsFiniteSet(Fd) /\ Cardinality(Client) <= Cardinality(Fd)
  /\ {AcceptFD, StatusFD} \subseteq Nat \ Fd
  /\ AcceptFD # StatusFD
  /\ Kinds \subseteq Kind
  /\ MaxEvents \in Nat \ {0}
  /\ MaxQueued \in Nat \ {0}

VARIABLES phase,       \* where each client is
          kind,        \* what it asks for
          last,        \* the last packet it read
          toDaemon,    \* the packets it sent and the daemon has not read
          toClient,    \* the packets sent to it that it has not read
          backlog,     \* connections not yet accepted
          owner,       \* whose connection each descriptor is
          clientMap,   \* keys of clientMap
          statusCount, \* the counter of the eventfd is not zero
          ready,       \* epoll's ready list
          batch,       \* events of this turn still to be handled
          pc,          \* where the loop is
          handled      \* history: clients whose request was dispatched

clients == <<phase, kind, last>>
daemon == <<owner, clientMap, batch, pc, handled>>
vars == <<clients, toDaemon, toClient, backlog, statusCount, ready, daemon>>

Answer == [k \in Kind |-> IF k = "status" THEN "DAEMON_STATUS" ELSE k]
HasPayload(k) == k \in {"seqadd", "schstate"}
TriggersStatus(k) == k \in {"status", "seqadd", "cancel"}

\* The client's end of its connection is closed.
Gone(c) == phase[c] \in {"done", "killed"}

Open(fd) == owner[fd] # NoClient

\* The entries of a list at some positions, in their order.
Entries(list, at) ==
  LET nth(k) == CHOOSE i \in at : Cardinality({j \in at : j <= i}) = k
  IN [k \in 1 .. Cardinality(at) |-> list[nth(k)]]

Without(list, fds) == Entries(list, {i \in DOMAIN list : list[i] \notin fds})

\* A descriptor on the ready list is not put on it again.
Ready(list, fd) == IF fd \in Range(list) THEN list ELSE Append(list, fd)

\* Something happened to c's socket.  One that is not accepted yet is not in
\* the epoll set.
Wake(c) ==
  ready' = IF \E fd \in Fd : owner[fd] = c
             THEN Ready(ready, CHOOSE fd \in Fd : owner[fd] = c)
             ELSE ready
-----------------------------------------------------------------------------
(* The client program *)

Connect(c) ==
  /\ phase[c] = "idle"
  /\ phase' = [phase EXCEPT ![c] = "connected"]
  /\ backlog' = Append(backlog, c)
  /\ ready' = Ready(ready, AcceptFD)
  /\ UNCHANGED <<kind, last, toDaemon, toClient, statusCount, daemon>>

Send(c, packet) ==
  /\ toDaemon' = [toDaemon EXCEPT ![c] = Append(@, packet)]
  /\ Wake(c)
  /\ UNCHANGED <<kind, last, toClient, backlog, statusCount, daemon>>

SendHeader(c) ==
  /\ phase[c] = "connected"
  /\ phase' = [phase EXCEPT ![c] = IF HasPayload(kind[c]) THEN "sending" ELSE "waiting"]
  /\ Send(c, "header")

SendPayload(c) ==
  /\ phase[c] = "sending"
  /\ phase' = [phase EXCEPT ![c] = "waiting"]
  /\ Send(c, "payload")

\* A status packet ends every run, an answer only the run that asked for it.
Quits(c, packet) ==
  /\ c \notin Monitors
  /\ packet \in {"DAEMON_STATUS", kind[c]}

Receive(c) ==
  /\ phase[c] = "waiting" /\ toClient[c] # <<>>
  /\ last' = [last EXCEPT ![c] = Head(toClient[c])]
  /\ toClient' = [toClient EXCEPT ![c] = Tail(@)]
  /\ IF Quits(c, Head(toClient[c]))
       THEN phase' = [phase EXCEPT ![c] = "done"] /\ Wake(c)
       ELSE UNCHANGED <<phase, ready>>
  /\ UNCHANGED <<kind, toDaemon, backlog, statusCount, daemon>>

Kill(c) ==
  /\ phase[c] \in {"connected", "sending", "waiting"}
  /\ phase' = [phase EXCEPT ![c] = "killed"]
  /\ Wake(c)
  /\ UNCHANGED <<kind, last, toDaemon, toClient, backlog, statusCount, daemon>>
-----------------------------------------------------------------------------
(* Sending.  Nobody looks at the result of sendAll. *)

\* Variant: a full socket's packets kept for later.
DeliveredKept(c, packet) ==
  IF Gone(c) THEN toClient[c] ELSE Append(toClient[c], packet)

\* The packets to c after one more was sent: none when c is gone or its socket
\* is full.
Delivered(c, packet) ==
  IF Gone(c) \/ Len(toClient[c]) = MaxQueued THEN toClient[c]
                                              ELSE Append(toClient[c], packet)

SendAll(c, packet) == toClient' = [toClient EXCEPT ![c] = Delivered(c, packet)]

TriggerStatusSend ==
  /\ statusCount' = TRUE
  /\ ready' = Ready(ready, StatusFD)

\* Variant: a client whose send fails is dropped there and then.
SendStatusPacketDropping ==
  LET dead == {fd \in clientMap : Gone(owner[fd])} IN
  /\ toClient' = [c \in Client |-> IF \E fd \in clientMap : owner[fd] = c
                                     THEN Delivered(c, "DAEMON_STATUS") ELSE toClient[c]]
  /\ clientMap' = clientMap \ dead
  /\ owner' = [fd \in Fd |-> IF fd \in dead THEN NoClient ELSE owner[fd]]
  /\ ready' = Without(ready, dead)

SendStatusPacket ==
  /\ toClient' = [c \in Client |-> IF \E fd \in clientMap : owner[fd] = c
                                     THEN Delivered(c, "DAEMON_STATUS") ELSE toClient[c]]
  /\ UNCHANGED <<clientMap, owner, ready>>
-----------------------------------------------------------------------------
(* The event loop *)

\* What epoll finds when it looks at a descriptor of the ready list.
Readable(fd) ==
  CASE fd = AcceptFD -> backlog # <<>>
    [] fd = StatusFD -> statusCount
    [] OTHER -> Open(fd) /\ (toDaemon[owner[fd]] # <<>> \/ Gone(owner[fd]))

EventOf(fd) ==
  IF fd \in Fd THEN [fd |-> fd, hup |-> Gone(owner[fd]), conn |-> owner[fd]]
               ELSE [fd |-> fd, hup |-> FALSE, conn |-> NoClient]

\* epoll_wait returns, with no events after a second, and the turn is made;
\* every ten seconds or so it asks for a status.
Turn ==
  LET found == Entries(ready, {i \in DOMAIN ready : Readable(ready[i])})
      n == IF Len(found) < MaxEvents THEN Len(found) ELSE MaxEvents
      rest == SubSeq(found, n + 1, Len(found))
  IN /\ pc = "wait"
     /\ batch' = [i \in 1 .. n |-> EventOf(found[i])]
     /\ pc' = IF n = 0 THEN "wait" ELSE "events"
     /\ \/ ready' = rest /\ UNCHANGED statusCount
        \/ ready' = Ready(rest, StatusFD) /\ statusCount' = TRUE
     /\ UNCHANGED <<clients, toDaemon, toClient, backlog, owner, clientMap, handled>>

\* The for loop goes on to the next event, or ends.
NextEvent ==
  /\ batch' = Tail(batch)
  /\ pc' = IF Len(batch) = 1 THEN "wait" ELSE "events"

At(fd) == pc = "events" /\ batch[1].fd = fd

HandleStatus ==
  /\ At(StatusFD)
  /\ statusCount' = FALSE
  /\ SendStatusPacket
  /\ NextEvent
  /\ UNCHANGED <<clients, toDaemon, backlog, handled>>

\* The connection of the client in front of the backlog, at the lowest free
\* descriptor.
Accept(c) ==
  LET fd == CHOOSE f \in Fd : ~Open(f) /\ \A g \in Fd : g < f => Open(g)
  IN /\ owner' = [owner EXCEPT ![fd] = c]
     /\ clientMap' = clientMap \cup {fd}
     /\ ready' = IF toDaemon[c] # <<>> \/ Gone(c) THEN Ready(ready, fd) ELSE ready
     /\ backlog' = Tail(backlog)

\* Variant: one connection per event.
ProcessNewClientConnectionsOne ==
  /\ At(AcceptFD) /\ backlog # <<>>
  /\ Accept(Head(backlog))
  /\ NextEvent
  /\ UNCHANGED <<clients, toDaemon, toClient, statusCount, handled>>

ProcessNewClientConnections ==
  /\ At(AcceptFD)
  /\ IF backlog # <<>>
       THEN Accept(Head(backlog)) /\ UNCHANGED <<batch, pc>>
       ELSE NextEvent /\ UNCHANGED <<owner, clientMap, ready, backlog>>
  /\ UNCHANGED <<clients, toDaemon, toClient, statusCount, handled>>

\* A descriptor that is closed leaves the epoll set.
CloseClientConnection(fd) ==
  /\ At(fd) /\ batch[1].hup
  /\ clientMap' = clientMap \ {fd}
  /\ owner' = [owner EXCEPT ![fd] = NoClient]
  /\ ready' = Without(ready, {fd})
  /\ NextEvent
  /\ UNCHANGED <<clients, toDaemon, toClient, backlog, statusCount, handled>>

\* The switch over the packet type.  A sequence that is not accepted is
\* answered all the same, but no status is sent.
Dispatch(c) ==
  /\ handled' = handled \cup {c}
  /\ IF kind[c] = "status" THEN UNCHANGED toClient ELSE SendAll(c, kind[c])
  /\ \/ TriggersStatus(kind[c]) /\ TriggerStatusSend
     \/ kind[c] \notin {"status", "cancel"} /\ UNCHANGED <<statusCount, ready>>
  /\ NextEvent

\* Reading fails when nothing is there, and may fail when the client has gone.
ReadFails(c) ==
  /\ c = NoClient \/ toDaemon[c] = <<>> \/ Gone(c)
  /\ NextEvent
  /\ UNCHANGED <<toDaemon, toClient, statusCount, ready, handled>>

\* A packet that is no header is read and dropped.
ProcessClientRequest(fd) ==
  LET c == owner[fd] IN
  /\ At(fd) /\ ~batch[1].hup
  /\ \/ ReadFails(c)
     \/ /\ c # NoClient /\ toDaemon[c] # <<>>
        /\ toDaemon' = [toDaemon EXCEPT ![c] = Tail(@)]
        /\ CASE Head(toDaemon[c]) # "header" ->
                  NextEvent /\ UNCHANGED <<toClient, statusCount, ready, handled>>
             [] Head(toDaemon[c]) = "header" /\ HasPayload(kind[c]) ->
                  /\ pc' = "payload"
                  /\ UNCHANGED <<batch, toClient, statusCount, ready, handled>>
             [] OTHER -> Dispatch(c)
  /\ UNCHANGED <<clients, backlog, owner, clientMap>>

\* Variant: a payload that is not there yet is not waited for.
RcvPayloadOnce ==
  LET c == owner[batch[1].fd] IN
  /\ pc = "payload"
  /\ IF toDaemon[c] # <<>>
       THEN toDaemon' = [toDaemon EXCEPT ![c] = Tail(@)] /\ Dispatch(c)
       ELSE NextEvent /\ UNCHANGED <<toDaemon, toClient, statusCount, ready, handled>>
  /\ UNCHANGED <<clients, backlog, owner, clientMap>>

\* Variant: the end of the connection taken for a payload that is not there yet.
RcvPayloadIgnoringEnd ==
  LET c == owner[batch[1].fd] IN
  /\ pc = "payload"
  /\ IF toDaemon[c] # <<>>
       THEN /\ toDaemon' = [toDaemon EXCEPT ![c] = Tail(@)]
            /\ Dispatch(c)
            /\ UNCHANGED <<clients, backlog, owner, clientMap>>
       ELSE UNCHANGED vars

\* rcvPayload tries until the payload is there or the client is gone, and the
\* whole loop with it.
RcvPayload ==
  LET c == owner[batch[1].fd] IN
  /\ pc = "payload"
  /\ \/ /\ toDaemon[c] # <<>>
        /\ toDaemon' = [toDaemon EXCEPT ![c] = Tail(@)]
        /\ Dispatch(c)
     \/ Gone(c) /\ ReadFails(c)
  /\ UNCHANGED <<clients, backlog, owner, clientMap>>
-----------------------------------------------------------------------------
Init ==
  /\ phase = [c \in Client |-> "idle"]
  /\ kind \in [Client -> Kinds]
  /\ last = [c \in Client |-> "none"]
  /\ toDaemon = [c \in Client |-> <<>>]
  /\ toClient = [c \in Client |-> <<>>]
  /\ backlog = <<>>
  /\ owner = [fd \in Fd |-> NoClient]
  /\ clientMap = {}
  /\ statusCount = FALSE
  /\ ready = <<>>
  /\ batch = <<>>
  /\ pc = "wait"
  /\ handled = {}

ClientStep(c) == SendHeader(c) \/ SendPayload(c) \/ Receive(c)

LoopStep ==
  \/ Turn
  \/ HandleStatus
  \/ ProcessNewClientConnections
  \/ \E fd \in Fd : CloseClientConnection(fd) \/ ProcessClientRequest(fd)
  \/ RcvPayload

Next == LoopStep \/ \E c \in Client : Connect(c) \/ ClientStep(c) \/ Kill(c)

Spec == Init /\ [][Next]_vars

\* The daemon's process runs, and so does a client's unless it is killed.
FairSpec ==
  /\ Spec
  /\ WF_vars(LoopStep)
  /\ \A c \in Client : WF_vars(ClientStep(c))
-----------------------------------------------------------------------------
(* Safety *)

TypeOK ==
  /\ phase \in [Client -> {"idle", "connected", "sending", "waiting", "done", "killed"}]
  /\ kind \in [Client -> Kinds]
  /\ last \in [Client -> {"none", "DAEMON_STATUS"} \cup Kinds]
  /\ toDaemon \in [Client -> Seq({"header", "payload"})]
  /\ toClient \in [Client -> Seq({"DAEMON_STATUS"} \cup Kinds)]
  /\ \A c \in Client : Len(toDaemon[c]) <= 2 /\ Len(toClient[c]) <= MaxQueued
  /\ backlog \in Seq(Client)
  /\ owner \in [Fd -> Client \cup {NoClient}]
  /\ clientMap \in SUBSET Fd
  /\ statusCount \in BOOLEAN
  /\ ready \in Seq(Fd \cup {AcceptFD, StatusFD})
  /\ batch \in Seq([fd : Fd \cup {AcceptFD, StatusFD}, hup : BOOLEAN,
                    conn : Client \cup {NoClient}])
  /\ Len(batch) <= MaxEvents
  /\ pc \in {"wait", "events", "payload"}
  /\ handled \in SUBSET Client

\* Descriptors are closed, and their numbers given to new connections, between
\* the events of a turn: each event is still about the connection it was
\* reported for, and the clients a status goes to are the open connections.
EventsReachOwner ==
  /\ \A i \in DOMAIN batch : batch[i].fd \in Fd => owner[batch[i].fd] = batch[i].conn
  /\ clientMap = {fd \in Fd : Open(fd)}

\* The descriptors the loop is going to look at without anything new
\* happening to them.
Pending == Range(ready) \cup {batch[i].fd : i \in DOMAIN batch}

\* No wakeup is lost: though each event is reported once, and the loop reads
\* one request per event, it leaves no connection, no status to send, no
\* request and no departed client behind that no event will lead it to.
NoLostWakeup ==
  /\ backlog # <<>> => AcceptFD \in Pending
  /\ statusCount => StatusFD \in Pending
  /\ \A fd \in Fd :
       Open(fd) /\ (Gone(owner[fd]) \/ toDaemon[owner[fd]] # <<>>) => fd \in Pending

\* The loop is waiting for c's payload.
Awaited(c) == pc = "payload" /\ owner[batch[1].fd] = c

\* All of c's request is on its way to the daemon, or what the loop waits for.
OnItsWay(c) ==
  \/ toDaemon[c] = <<"header">> /\ ~HasPayload(kind[c])
  \/ toDaemon[c] = <<"header", "payload">>
  \/ toDaemon[c] = <<"payload">> /\ Awaited(c)

\* What has become of c's request.
RequestOf(c) ==
  CASE c \in handled -> "served"
    [] c \notin handled /\ OnItsWay(c) -> "pending"
    [] c \notin handled /\ toDaemon[c] = <<"payload">> /\ ~Awaited(c) -> "dropped"
    [] OTHER -> "none"

Service == INSTANCE RequestService WITH
  Kind <- Kinds,
  Unanswered <- {"status"},
  MayRefresh <- {k \in Kind : TriggersStatus(k)},
  MustRefresh <- {"status", "cancel"},
  Status <- "DAEMON_STATUS",
  Room <- MaxQueued,
  request <- [c \in Client |-> RequestOf(c)],
  inbox <- toClient,
  left <- {c \in Client : Gone(c)},
  due <- statusCount

\* Edge-triggered events, two packets to a request, batches, clients that are
\* killed anywhere and descriptors used again keep what RequestService promises:
\* a request is dispatched once and only when all of it was sent, none is lost
\* while its client lives, and who was served stays connected for the statuses.
ServiceKept == Service!Spec

(* Liveness *)

\* Every request sent in full is dispatched, or its client leaves.
RequestHandled ==
  \A c \in Client : phase[c] = "waiting" ~> c \in handled \/ Gone(c)

\* A client that sends a header and dies does not stop the loop, and the
\* switches with it.
LoopReturns == pc # "wait" ~> pc = "wait"

(* What the comments of the client say and the code does not do. *)

\* "Exit if we received the expected response and monitoring wasn't requested".
ExitsOnExpected ==
  \A c \in Client : phase[c] = "done" => last[c] = Answer[kind[c]]
=============================================================================
