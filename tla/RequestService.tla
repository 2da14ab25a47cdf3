--------------------------- MODULE RequestService ---------------------------
(***************************************************************************)
(* What the switch daemon promises the programs that send it requests,     *)
(* leaving out sockets, descriptors and packets that are only half there.  *)
(* A request sent in full is served, once; only a client that has left may *)
(* find its request dropped.  What a client asks for is answered, in order *)
(* with the statuses, into a buffer with room for a few packets; and every *)
(* client that was served hears the statuses that follow.                  *)
(***************************************************************************)
EXTENDS Naturals, Sequences

CONSTANTS Client,
          Monitors,       \* clients that read on after their answer
          Kind,           \* what clients ask for
          Unanswered,     \* kinds whose only answer is the status
          MayRefresh,     \* kinds after which a status may be due
          MustRefresh,    \* kinds after which one is due
          Status,         \* the packet with the status
          Room            \* how many packets a client's buffer has room for

VARIABLES kind,     \* what each client asks for
          request,  \* "none", "pending", "served" or "dropped"
          inbox,    \* the packets each client has not read
          left,     \* the clients that have left
          due       \* a status is due

vars == <<kind, request, inbox, left, due>>

Init ==
  /\ kind \in [Client -> Kind]
  /\ request = [c \in Client |-> "none"]
  /\ inbox = [c \in Client |-> <<>>]
  /\ left = {}
  /\ due = FALSE

Ask(c) ==
  /\ request[c] = "none" /\ c \notin left
  /\ request' = [request EXCEPT ![c] = "pending"]
  /\ UNCHANGED <<kind, inbox, left, due>>

\* A packet is lost only when nobody reads it or there is no room for it.
Delivered(c, packet) ==
  IF c \in left \/ Len(inbox[c]) = Room THEN inbox[c] ELSE Append(inbox[c], packet)

Serve(c) ==
  /\ request[c] = "pending"
  /\ request' = [request EXCEPT ![c] = "served"]
  /\ inbox' = IF kind[c] \in Unanswered
                THEN inbox ELSE [inbox EXCEPT ![c] = Delivered(c, kind[c])]
  /\ \/ kind[c] \in MayRefresh /\ due' = TRUE
     \/ kind[c] \notin MustRefresh /\ UNCHANGED due
  /\ UNCHANGED <<kind, left>>

Drop(c) ==
  /\ request[c] = "pending" /\ c \in left
  /\ request' = [request EXCEPT ![c] = "dropped"]
  /\ UNCHANGED <<kind, inbox, left, due>>

\* Every few seconds a status is due that nobody asked for.
TimeForStatus == due' = TRUE /\ UNCHANGED <<kind, request, inbox, left>>

\* Clients that are connected and not served yet may hear it too.
Broadcast ==
  /\ due /\ due' = FALSE
  /\ \E to \in SUBSET Client :
       /\ \A c \in Client \ left : request[c] = "served" => c \in to
       /\ inbox' = [c \in Client |-> IF c \in to THEN Delivered(c, Status) ELSE inbox[c]]
  /\ UNCHANGED <<kind, request, left>>

\* A client leaves at its answer or at a status, unless it monitors.
Read(c) ==
  /\ request[c] \in {"pending", "served"} /\ c \notin left
  /\ inbox[c] # <<>>
  /\ inbox' = [inbox EXCEPT ![c] = Tail(@)]
  /\ left' = IF c \notin Monitors /\ Head(inbox[c]) \in {Status, kind[c]}
               THEN left \cup {c} ELSE left
  /\ UNCHANGED <<kind, request, due>>

Leave(c) ==
  /\ c \notin left
  /\ left' = left \cup {c}
  /\ UNCHANGED <<kind, request, inbox, due>>

Next ==
  \/ TimeForStatus \/ Broadcast
  \/ \E c \in Client : Ask(c) \/ Serve(c) \/ Drop(c) \/ Read(c) \/ Leave(c)

Spec == Init /\ [][Next]_vars
=============================================================================
