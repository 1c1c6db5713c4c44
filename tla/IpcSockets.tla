----------------------------- MODULE IpcSockets -----------------------------
(***************************************************************************)
(* What the threads of the IPC system share: the IpcSocketUnix objects with*)
(* their lists of client descriptors, and the kernel's connections,        *)
(* descriptors and epoll events behind them.  The clients, processes of    *)
(* their own, are modelled here too.                                       *)
(*                                                                         *)
(* A connection is an element of Clients and is used once.  What a client  *)
(* writes is counted in units; Buffer of them fit into the receiver's      *)
(* buffer.  Both epoll sets are edge triggered (EPOLLET): an event is      *)
(* pending from the moment something arrives until epoll_wait returns it.  *)
(***************************************************************************)
EXTENDS Naturals, Sequences, FiniteSets, SequencesExt

CONSTANTS
  Clients,      \* connections
  Sockets,      \* the IpcSocketUnix objects, with different names and paths
  Fds,          \* descriptors that are free for accepted connections
  Buffer,       \* what one read of the receiver takes
  MaxUnread,    \* bound: what a client writes ahead of the receiver
  Polite,       \* clients wait: for accept before they connect, for room in
                \* the receiver's buffer before they write
  None          \* no socket, no descriptor

ASSUME NoneAssumption == None \notin Sockets \cup Fds
ASSUME BufferAssumption == Buffer \in Nat \ {0} /\ MaxUnread \in Nat

VARIABLES
  sock,         \* the socket a client connected to
  phase,        \* "new", "pending" (not accepted yet), "served", "shut"
  fd,           \* the server's descriptor for the connection
  hungup,       \* the client has closed its end
  unread,       \* written by the client, not read by the receiver
  polled,       \* connections in the receiver's epoll set
  edge,         \* those of them with a pending event
  listening,    \* sockets that are bound and listen
  backlog,      \* connections that wait for accept
  arrived,      \* sockets with a pending event in the connector's epoll set
  clients       \* clientsDescriptor of each socket

conns == <<sock, phase, fd>>
streams == <<hungup, unread, polled, edge>>
doors == <<listening, backlog, arrived>>
sharedVars == <<conns, streams, doors, clients>>

SharedTypeOK ==
  /\ sock \in [Clients -> Sockets \cup {None}]
  /\ phase \in [Clients -> {"new", "pending", "served", "shut"}]
  /\ fd \in [Clients -> Fds \cup {None}]
  /\ hungup \in [Clients -> BOOLEAN]
  /\ unread \in [Clients -> 0..MaxUnread]
  /\ edge \subseteq polled /\ polled \subseteq Clients
  /\ listening \subseteq Sockets /\ arrived \subseteq listening
  /\ backlog \in [Sockets -> Seq(Clients)]
  /\ \A s \in Sockets : \A c \in ToSet(backlog[s]) : phase[c] = "pending" /\ sock[c] = s
  /\ clients \in [Sockets -> SUBSET Fds]

SharedInit ==
  /\ sock = [c \in Clients |-> None]
  /\ phase = [c \in Clients |-> "new"]
  /\ fd = [c \in Clients |-> None]
  /\ hungup = [c \in Clients |-> FALSE]
  /\ unread = [c \in Clients |-> 0]
  /\ polled = {} /\ edge = {}
  /\ listening = {} /\ arrived = {}
  /\ backlog = [s \in Sockets |-> <<>>]
  /\ clients = [s \in Sockets |-> {}]

\* The connections descriptor n stands for: one, or none when n is free.
Holder(n) == {c \in Clients : fd[c] = n}
FreeFds == {n \in Fds : Holder(n) = {}}

\* Something arrived on connection c.
Notify(c) == edge' = IF c \in polled THEN edge \cup {c} ELSE edge

-----------------------------------------------------------------------------
(* IpcGenericSocket: the list, under clientsMutex. *)

addClientDescriptor(s, n) == clients' = [clients EXCEPT ![s] = @ \cup {n}]

removeClientDescriptor(s, n) == clients' = [clients EXCEPT ![s] = @ \ {n}]

-----------------------------------------------------------------------------
(* The clients. *)

\* listen() queues 5 connections and refuses the others.
Connect(c, s) ==
  /\ phase[c] = "new" /\ s \in listening
  /\ Len(backlog[s]) < (IF Polite THEN 1 ELSE 5)
  /\ sock' = [sock EXCEPT ![c] = s]
  /\ phase' = [phase EXCEPT ![c] = "pending"]
  /\ backlog' = [backlog EXCEPT ![s] = Append(@, c)]
  /\ arrived' = arrived \cup {s}
  /\ UNCHANGED <<fd, streams, listening, clients>>

Connected(c) == phase[c] \in {"pending", "served"} /\ ~hungup[c]

ClientWrites(c) ==
  /\ Connected(c)
  /\ unread[c] < MaxUnread /\ (Polite => unread[c] < Buffer)
  /\ unread' = [unread EXCEPT ![c] = @ + 1]
  /\ Notify(c)
  /\ UNCHANGED <<conns, hungup, polled, doors, clients>>

HangUp(c) ==
  /\ Connected(c)
  /\ hungup' = [hungup EXCEPT ![c] = TRUE]
  /\ Notify(c)
  /\ UNCHANGED <<conns, unread, polled, doors, clients>>

ClientNext ==
  \E c \in Clients :
    \/ ClientWrites(c) \/ HangUp(c)
    \/ \E s \in Sockets : Connect(c, s)
=============================================================================
