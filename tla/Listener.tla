------------------------------- MODULE Listener -------------------------------
(***************************************************************************)
(* The event loop of the chat server below its handlers: process_connection*)
(* and accept_client of server.cpp, with the part of epoll they rely on.   *)
(*                                                                         *)
(* The listening socket is registered with EPOLLIN | EPOLLET, the accepted *)
(* sockets with EPOLLIN.  epoll keeps a ready list: an edge-triggered      *)
(* descriptor leaves it when it is reported, a level-triggered one goes to *)
(* its tail and leaves when it is found not readable.  A wakeup puts a     *)
(* descriptor on the list unless it is there: two connections that arrive  *)
(* before one report are one event, for which the loop accepts once.       *)
(***************************************************************************)
EXTENDS Integers, Sequences, FiniteSets

CONSTANTS
  Conns,      (* connections that peers make                               *)
  Listen,     (* the listening socket                                      *)
  Backlog,    (* bound of the accept queue, the 5 of listen()              *)
  MaxFds,     (* descriptors left to the process                           *)
  MaxEvents   (* MAX_EVENTS, the length of the events array                *)

ASSUME ListenAssumption == Listen \notin Conns
ASSUME BoundAssumption ==
  Backlog \in Nat \ {0} /\ MaxFds \in Nat /\ MaxEvents \in Nat \ {0}

VARIABLES
  conn,      (* conn[c]: how far the server is with the connection         *)
  input,     (* connections with bytes the server has not read             *)
  closed,    (* connections that the peer closed                           *)
  backlog,   (* the accept queue of the kernel                             *)
  ready,     (* the ready list of epoll                                    *)
  events,    (* what is left of the events array                           *)
  stranded   (* history: connections queued for which no event will come   *)

vars == <<conn, input, closed, backlog, ready, events, stranded>>

ConnStates == {"none", "queued", "open", "dead"}

On(seq, fd) == \E i \in DOMAIN seq : seq[i] = fd

(* recv on c returns: there are bytes, or the end of file.                 *)
Readable(c) == conn[c] \in {"open", "dead"} /\ (c \in input \/ c \in closed)

(* What epoll_wait finds when it polls a descriptor of its list.           *)
Reports(fd) == IF fd = Listen THEN backlog # <<>> ELSE Readable(fd)

Wake(list, fd) == IF On(list, fd) THEN list ELSE Append(list, fd)

OpenFds == {c \in Conns : conn[c] \in {"open", "dead"}}

Init ==
  /\ conn = [c \in Conns |-> "none"]
  /\ input = {} /\ closed = {}
  /\ backlog = <<>> /\ ready = <<>> /\ events = <<>>
  /\ stranded = 0
-----------------------------------------------------------------------------
(* The peers.                                                              *)

Connect(c) ==
  /\ conn[c] = "none"
  /\ Len(backlog) < Backlog
  /\ conn' = [conn EXCEPT ![c] = "queued"]
  /\ backlog' = Append(backlog, c)
  /\ ready' = Wake(ready, Listen)
  /\ stranded' = IF On(ready, Listen) THEN stranded + 1 ELSE stranded
  /\ UNCHANGED <<input, closed, events>>

WakeIfOpen(c) ==
  ready' = IF conn[c] \in {"open", "dead"} THEN Wake(ready, c) ELSE ready

Send(c) ==
  /\ conn[c] # "none" /\ c \notin closed
  /\ input' = input \cup {c}
  /\ WakeIfOpen(c)
  /\ UNCHANGED <<conn, closed, backlog, events, stranded>>

Close(c) ==
  /\ conn[c] # "none" /\ c \notin closed
  /\ closed' = closed \cup {c}
  /\ WakeIfOpen(c)
  /\ UNCHANGED <<conn, input, backlog, events, stranded>>
-----------------------------------------------------------------------------
(* The loop.                                                               *)

Prefix(seq, n) == SubSeq(seq, 1, IF Len(seq) < n THEN Len(seq) ELSE n)

(* The elements of seq at the positions P, in their order.  (SelectSeq is  *)
(* recursive, and so beyond proofs.)                                       *)
Sublist(seq, P) ==
  LET position(k) == CHOOSE i \in P : Cardinality({j \in P : j <= i}) = k
  IN  [k \in 1 .. Cardinality(P) |-> seq[position(k)]]

Found == Sublist(ready, {i \in DOMAIN ready : Reports(ready[i])})

LevelTriggered(seq) == Sublist(seq, {i \in DOMAIN seq : seq[i] # Listen})

(* A fault of EpollWait: the accepted sockets are registered with EPOLLET  *)
(* as well, and handle_client still calls recv once.                       *)
EpollWaitAllEdge ==
  /\ events = <<>>
  /\ events' = Prefix(Found, MaxEvents)
  /\ ready' = SubSeq(Found, Len(Prefix(Found, MaxEvents)) + 1, Len(Found))
  /\ UNCHANGED <<conn, input, closed, backlog, stranded>>

(* epoll_wait with a timeout of 0, after the events of the last call are   *)
(* all handled.                                                            *)
EpollWait ==
  LET taken == Prefix(Found, MaxEvents) IN
  /\ events = <<>>
  /\ events' = taken
  /\ ready' = SubSeq(Found, Len(taken) + 1, Len(Found)) \o LevelTriggered(taken)
  /\ UNCHANGED <<conn, input, closed, backlog, stranded>>

(* Two faults of AcceptClient: it handles the new connection at once; it   *)
(* leaves a connection in the queue whose peer is gone.                    *)
AcceptAndHandle ==
  /\ events # <<>> /\ Head(events) = Listen
  /\ IF backlog # <<>> /\ Cardinality(OpenFds) < MaxFds
       THEN /\ conn' = [conn EXCEPT ![Head(backlog)] = "open"]
            /\ backlog' = Tail(backlog)
            /\ events' = <<Head(backlog)>> \o Tail(events)
            /\ UNCHANGED stranded
       ELSE /\ events' = Tail(events)
            /\ stranded' = stranded + 1
            /\ UNCHANGED <<conn, backlog>>
  /\ UNCHANGED <<input, closed, ready>>

AcceptOnlyLive ==
  /\ events # <<>> /\ Head(events) = Listen
  /\ events' = Tail(events)
  /\ IF Head(backlog) \notin closed /\ Cardinality(OpenFds) < MaxFds
       THEN /\ conn' = [conn EXCEPT ![Head(backlog)] = "open"]
            /\ backlog' = Tail(backlog)
       ELSE UNCHANGED <<conn, backlog>>
  /\ UNCHANGED <<input, closed, ready, stranded>>

(* accept_client: one accept for one event.  The new socket joins the      *)
(* epoll set and is ready at once if the peer sent or closed before.  When *)
(* the process is out of descriptors, accept fails, the connection stays   *)
(* in the queue, and nothing reports it again.                             *)
AcceptClient ==
  /\ events # <<>> /\ Head(events) = Listen
  /\ events' = Tail(events)
  /\ IF Cardinality(OpenFds) < MaxFds
       THEN LET c == Head(backlog) IN
            /\ conn' = [conn EXCEPT ![c] = "open"]
            /\ backlog' = Tail(backlog)
            /\ ready' = IF c \in input \cup closed THEN Wake(ready, c) ELSE ready
            /\ UNCHANGED stranded
       ELSE /\ stranded' = stranded + 1
            /\ UNCHANGED <<conn, backlog, ready>>
  /\ UNCHANGED <<input, closed>>

(* handle_client: one recv.  Bytes come before the end of file, and at the *)
(* end of file the descriptor stays open and registered.                   *)
HandleClient ==
  LET c == Head(events) IN
  /\ events # <<>> /\ c # Listen
  /\ events' = Tail(events)
  /\ IF c \in input
       THEN input' = input \ {c} /\ UNCHANGED conn
       ELSE /\ c \in closed
            /\ conn' = [conn EXCEPT ![c] = "dead"]
            /\ UNCHANGED input
  /\ UNCHANGED <<closed, backlog, ready, stranded>>

Loop == EpollWait \/ AcceptClient \/ HandleClient

Next ==
  \/ \E c \in Conns : Connect(c) \/ Send(c) \/ Close(c)
  \/ Loop

Spec == Init /\ [][Next]_vars

(* The thread of the loop keeps running.                                   *)
FairSpec == Spec /\ WF_vars(Loop)
-----------------------------------------------------------------------------
(* Properties.                                                             *)

(* Every variable has its type; the ready list holds no descriptor twice.  *)
TypeOK ==
  /\ conn \in [Conns -> ConnStates]
  /\ input \subseteq Conns /\ closed \subseteq Conns
  /\ backlog \in Seq(Conns) /\ Len(backlog) <= Backlog
  /\ ready \in Seq(Conns \cup {Listen}) /\ events \in Seq(Conns \cup {Listen})
  /\ stranded \in Nat
  /\ \A i, j \in DOMAIN ready : ready[i] = ready[j] => i = j

(* The accepted sockets are blocking (accept_client does not call          *)
(* set_nonblocking), and yet the loop never blocks in recv or accept:      *)
(* whatever is in the events array is still true when its turn comes.      *)
EventsAreCurrent ==
  \A i \in DOMAIN events : Reports(events[i])

(* Every connection in the accept queue has an event of its own to come or *)
(* in the array, but for those whose event was coalesced with another one  *)
(* or whose accept failed; and these are never made up for: the loop       *)
(* accepts once for each event (server.cpp:138, 255).                      *)
BacklogAccounted ==
  Len(backlog) = stranded + (IF On(ready, Listen) THEN 1 ELSE 0)
                          + (IF On(events, Listen) THEN 1 ELSE 0)

(* No socket starves, however many dead ones are reported in every round   *)
(* because they are never closed: bytes are read, and the end of file is.  *)
EverySocketIsServed ==
  \A c \in Conns :
    /\ (conn[c] = "open" /\ c \in input) ~> c \notin input
    /\ (conn[c] = "open" /\ c \in closed) ~> conn[c] = "dead"

(* A connection is accepted unless an event was lost before.               *)
AcceptedUnlessStranded ==
  \A c \in Conns : conn[c] = "queued" ~> (conn[c] # "queued" \/ stranded > 0)
=============================================================================
