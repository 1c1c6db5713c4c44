---------------------------- MODULE IpcConnector ----------------------------
(***************************************************************************)
(* IpcConnector with IpcConnectorUnix: binds the sockets, accepts clients  *)
(* in its thread and closes everything when it is stopped.  Its epoll is   *)
(* edge triggered and every event is answered by one accept.               *)
(***************************************************************************)
EXTENDS IpcSockets

CONSTANT MaxStarts    \* bound: calls of Start that are not ignored

ASSUME MaxStartsAssumption == MaxStarts \in Nat

VARIABLES
  isReady,      \* IpcConnector::isReady: the thread runs
  accepting,    \* events epoll_wait returned and the loop has still to handle
  starts

connectorVars == <<isReady, accepting, starts>>

ConnectorTypeOK ==
  /\ isReady \in BOOLEAN
  /\ accepting \subseteq Sockets
  /\ starts \in 0..MaxStarts

ConnectorInit == isReady = FALSE /\ accepting = {} /\ starts = 0

\* bindSocket for the sockets in bound; a socket that was bound before gets a
\* new descriptor, and whoever waited at the old one waits for ever.
Bind(bound) ==
  /\ listening' = listening \cup bound
  /\ backlog' = [s \in Sockets |-> IF s \in bound THEN <<>> ELSE backlog[s]]

Start ==
  /\ ~isReady /\ starts < MaxStarts
  /\ starts' = starts + 1
  /\ Bind(Sockets)
  /\ arrived' = {} /\ isReady' = TRUE
  /\ UNCHANGED <<conns, streams, clients, accepting>>

\* Start throws: after some of the sockets were bound, or because of epoll.
StartFails ==
  /\ ~isReady /\ starts < MaxStarts
  /\ starts' = starts + 1
  /\ \E bound \in SUBSET Sockets : Bind(bound) /\ arrived' = arrived \ bound
  /\ UNCHANGED <<conns, streams, clients, isReady, accepting>>

\* closeSocket for every socket: the clients on its list are closed, those
\* that still wait are reset, and the list is cleared.
closeSockets ==
  LET shut == {c \in Clients : \E s \in Sockets :
                 fd[c] \in clients[s] \/ c \in ToSet(backlog[s])}
  IN /\ phase' = [c \in Clients |-> IF c \in shut THEN "shut" ELSE phase[c]]
     /\ fd' = [c \in Clients |-> IF c \in shut THEN None ELSE fd[c]]
     /\ polled' = polled \ shut /\ edge' = edge \ shut
     /\ listening' = {} /\ arrived' = {}
     /\ backlog' = [s \in Sockets |-> <<>>]
     /\ clients' = [s \in Sockets |-> {}]

\* Stop, once the thread is joined.
Stop ==
  /\ isReady /\ accepting = {} /\ starts < MaxStarts
  /\ closeSockets
  /\ isReady' = FALSE
  /\ UNCHANGED <<sock, hungup, unread, accepting, starts>>

\* Mutant of AwaitConnections: the events of the wait are lost.
AwaitNothing ==
  /\ isReady /\ accepting = {} /\ arrived # {}
  /\ arrived' = {}
  /\ UNCHANGED <<conns, streams, listening, backlog, clients, connectorVars>>

\* epoll_wait with an event.
AwaitConnections ==
  /\ isReady /\ accepting = {} /\ arrived # {}
  /\ accepting' = arrived
  /\ arrived' = {}
  /\ UNCHANGED <<conns, streams, listening, backlog, clients, isReady, starts>>

\* Mutant of Accept: the connection is not taken off the queue.
AcceptTwice(s) ==
  /\ s \in accepting
  /\ accepting' = accepting \ {s}
  /\ \E n \in FreeFds : LET c == Head(backlog[s])
                        IN /\ phase' = [phase EXCEPT ![c] = "served"]
                           /\ fd' = [fd EXCEPT ![c] = n]
                           /\ addClientDescriptor(s, n)
  /\ UNCHANGED <<sock, streams, backlog, listening, arrived, isReady, starts>>

\* The handler of one event.  accept returns a free descriptor, or fails
\* when there is none: the connection stays where it is.
Accept(s) ==
  /\ s \in accepting
  /\ accepting' = accepting \ {s}
  /\ \/ \E n \in FreeFds :
          LET c == Head(backlog[s])
          IN /\ backlog' = [backlog EXCEPT ![s] = Tail(@)]
             /\ phase' = [phase EXCEPT ![c] = "served"]
             /\ fd' = [fd EXCEPT ![c] = n]
             /\ addClientDescriptor(s, n)
     \/ FreeFds = {} /\ UNCHANGED <<backlog, phase, fd, clients>>
  /\ UNCHANGED <<sock, streams, listening, arrived, isReady, starts>>

ConnectorLoop == AwaitConnections \/ \E s \in Sockets : Accept(s)
=============================================================================
