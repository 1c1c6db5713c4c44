------------------------------ MODULE IpcProofs ------------------------------
(***************************************************************************)
(* The IPC system for any number of clients, sockets, descriptors, sends   *)
(* and restarts: types, what the lists, the epoll set and the managed      *)
(* descriptors have to do with each other, and what a client receives.     *)
(***************************************************************************)
EXTENDS Ipc, TLAPS

(* Connections and doors. *)

\* A connection has a descriptor while it is served, each its own, and the
\* socket it was made to from the start.
Connections ==
  /\ \A c \in Clients : phase[c] = "served" <=> fd[c] # None
  /\ \A c, d \in Clients : fd[c] = fd[d] /\ fd[c] # None => c = d
  /\ \A c \in Clients : phase[c] # "new" => sock[c] \in Sockets

\* A connection waits once, and at most at its own socket.
Waiting ==
  \A s \in Sockets :
    /\ \A i \in DOMAIN backlog[s] : phase[backlog[s][i]] = "pending" /\ sock[backlog[s][i]] = s
    /\ \A i, j \in DOMAIN backlog[s] : backlog[s][i] = backlog[s][j] => i = j

\* An event of a listening socket stands for a connection that waits; one that
\* arrived while another is handled, for a second one.
EventsBacked ==
  /\ \A s \in accepting : isReady /\ backlog[s] # <<>>
  /\ platform = "unix" => \A s \in arrived : /\ backlog[s] # <<>>
                                             /\ s \in accepting => Len(backlog[s]) > 1

\* Descriptor n is that of a connection to socket s.
Serves(n, s) == \E c \in Clients : fd[c] = n /\ sock[c] = s

Listed == \A s \in Sockets : \A n \in clients[s] : Serves(n, s)

ConnInv == Connections /\ Waiting /\ EventsBacked /\ Listed

-----------------------------------------------------------------------------
(* The receiver. *)

\* A descriptor of this turn is not closed before the turn ends: the pairs
\* collected are true ones, and those managed are from then on.
ReceiverUnix ==
  /\ \A p \in collected : p[2] \notin todo /\ Serves(p[1], p[2])
  /\ rx # "collect" => managed = collected /\ todo = {}
  /\ rx # "handle" => events = {} /\ dropped = {}
  /\ \A e \in events : \E c \in Clients : fd[c] = e[1] /\ (e[2] => hungup[c])
  /\ \A n \in dropped : \E c \in Clients : fd[c] = n /\ hungup[c]

ReceiverWindows == polled = {} /\ dropped = {}

ReceiverInv ==
  /\ platform = "unix" => ReceiverUnix
  /\ platform = "windows" => ReceiverWindows

-----------------------------------------------------------------------------
(* The transmitter. *)

Queued(s, m) == \E i \in DOMAIN queue : queue[i] = <<s, m>>

\* The entries of a socket stand in the queue in their order, and from the
\* first of them on none is missing.
QueueOrder ==
  /\ \A i \in DOMAIN queue : queue[i][2] <= sends[queue[i][1]]
  /\ \A i, j \in DOMAIN queue : i < j /\ queue[i][1] = queue[j][1] => queue[i][2] < queue[j][2]
  /\ \A i \in DOMAIN queue : \A m \in 1..MaxSends :
       queue[i][2] <= m /\ m <= sends[queue[i][1]] => Queued(queue[i][1], m)

\* Entry k of socket s was the last to be taken: those after it wait.
Taken(s, k) ==
  /\ k <= sends[s]
  /\ \A m \in 1..MaxSends : Queued(s, m) <=> k < m /\ m <= sends[s]

\* The entry in work goes to connections of its socket.
SendingInv ==
  sending # <<>> =>
    /\ Taken(sending[1][1], sending[1][2])
    /\ \A n \in sending[2] : Serves(n, sending[1][1])

\* The client's descriptor is among those left for the entry in work.
Due(c) == sending # <<>> /\ fd[c] \in sending[2]

\* The number of the last entry a client received.
Latest(c) == got[c][Len(got[c])][2]

\* A client that stays connected has received all but what is due or waits.
UpToDate ==
  \A c \in Clients : phase[c] = "served" /\ ~hungup[c] /\ got[c] # <<>> =>
    IF Due(c) THEN sending[1][2] = Latest(c) + 1
              ELSE Taken(sock[c], Latest(c))

\* Who is not served yet has received nothing.
Unserved == \A c \in Clients : phase[c] \in {"new", "pending"} => got[c] = <<>>

TransmitterInv == QueueOrder /\ SendingInv /\ UpToDate /\ Unserved /\ InOrder

-----------------------------------------------------------------------------
Inv ==
  TypeOK /\ ConnInv /\ StaysListed /\ ReceiverInv /\ EventsManaged /\ TransmitterInv

-----------------------------------------------------------------------------
(* What a step does to the connections, the doors and the lists. *)

Wiring == <<conns, hungup, doors, clients, accepting, isReady>>

HangsUp ==
  /\ \E c \in Clients : hungup' = [hungup EXCEPT ![c] = TRUE]
  /\ UNCHANGED <<conns, doors, clients, accepting, isReady>>

\* Connections that hung up are taken off a list: Purge, or a write that failed.
Delists ==
  /\ \E s \in Sockets, n \in Fds :
       /\ clients' = [clients EXCEPT ![s] = @ \ {n}]
       /\ \A c \in Clients : fd[c] = n => hungup[c]
  /\ UNCHANGED <<conns, hungup, doors, accepting, isReady>>

\* A connection the Windows transmitter closes.
Cuts ==
  /\ platform = "windows" /\ sending # <<>>
  /\ \E c \in Clients :
       /\ fd[c] \in sending[2] /\ CutOff(c)
       /\ sending' = <<sending[1], sending[2] \ {fd[c]}>>
  /\ UNCHANGED <<sock, hungup, doors, accepting, isReady, queue, sends>>

\* Start and its failures.
Opens ==
  /\ ~isReady
  /\ \E bound \in SUBSET Sockets : Bind(bound) /\ arrived' \subseteq arrived \ bound
  /\ UNCHANGED <<conns, hungup, clients, accepting>>

Wired ==
  \/ UNCHANGED Wiring \/ HangsUp \/ Delists \/ Cuts \/ Opens
  \/ Stop /\ Resting
  \/ platform = "unix" /\ AwaitConnections
  \/ platform = "windows" /\ SelectListening
  \/ \E s \in Sockets : Accept(s) \/ AcceptAndClose(s)
  \/ (\E c \in Clients, s \in Sockets : Connect(c, s)) /\ UNCHANGED <<accepting, isReady>>

LEMMA WiredConnector ==
  ASSUME TypeOK, Connector
  PROVE  Wired
<1>1. CASE platform = "unix" /\ ConnectorLoop
  BY <1>1 DEF ConnectorLoop, Wired
<1>2. CASE platform = "windows" /\ ConnectorLoopWindows
  BY <1>2 DEF ConnectorLoopWindows, Wired
<1> QED
  BY <1>1, <1>2 DEF Connector, On

LEMMA PurgeDelists ==
  ASSUME TypeOK, ConnInv, ReceiverInv, platform = "unix", NEW n \in dropped, Purge(n),
         UNCHANGED connectorVars
  PROVE  Delists \/ UNCHANGED Wiring
<1>1. /\ UNCHANGED <<conns, hungup, doors, accepting, isReady>>
      /\ \/ \E s \in Sockets : clients' = [clients EXCEPT ![s] = @ \ {n}]
         \/ UNCHANGED clients
  BY DEF Purge, removeClientDescriptor, streams, connectorVars
<1>2. n \in Fds /\ \A c \in Clients : fd[c] = n => hungup[c]
  <2>1. n \in Fds
    BY DEF TypeOK, ReceiverTypeOK
  <2>2. PICK d \in Clients : fd[d] = n /\ hungup[d]
    BY DEF ReceiverInv, ReceiverUnix
  <2> QED
    BY <2>1, <2>2, NoneAssumption DEF ConnInv, Connections
<1> QED
  BY <1>1, <1>2 DEF Delists, Wiring

LEMMA WiredReceiver ==
  ASSUME TypeOK, ConnInv, ReceiverInv, Receiver
  PROVE  Wired
<1>1. CASE platform = "unix" /\ \E n \in dropped : Purge(n)
  <2>1. UNCHANGED connectorVars
    BY DEF Receiver
  <2> QED
    BY <1>1, <2>1, PurgeDelists DEF Wired
<1>2. CASE \/ \E s \in Sockets : Collect(s)
           \/ ValidateEPoll \/ AwaitData \/ NextTurn \/ SelectReadable
           \/ \E e \in events : Handle(e) \/ Recv(e)
  <2>1. UNCHANGED <<conns, hungup, doors, clients>>
    BY <1>2 DEF Collect, ValidateEPoll, AwaitData, NextTurn, SelectReadable, Handle, Recv,
                sharedVars, streams
  <2>2. UNCHANGED <<accepting, isReady>>
    BY DEF Receiver, connectorVars
  <2> QED
    BY <2>1, <2>2 DEF Wired, Wiring
<1> QED
  BY <1>1, <1>2 DEF Receiver, On, ReceiverLoop, ReceiverLoopWindows

LEMMA WriteWires ==
  ASSUME TypeOK, ConnInv, NEW n \in Fds, Write(n), UNCHANGED connectorVars
  PROVE  Delists \/ UNCHANGED Wiring
<1>1. PICK c \in Holder(n) :
        IF hungup[c] THEN clients' = [clients EXCEPT ![sending[1][1]] = @ \ {n}]
                     ELSE UNCHANGED clients
  BY DEF Write, removeClientDescriptor
<1>2. UNCHANGED <<conns, hungup, doors, accepting, isReady>>
  BY DEF Write, streams, connectorVars
<1>3. c \in Clients /\ fd[c] = n
  BY DEF Holder
<1>4. CASE hungup[c]
  <2>1. \A d \in Clients : fd[d] = n => hungup[d]
    BY <1>3, <1>4, NoneAssumption DEF ConnInv, Connections
  <2>2. sending[1][1] \in Sockets
    BY DEF Write, TypeOK, TransmitterTypeOK, Entries
  <2> QED
    BY <1>1, <1>2, <1>4, <2>1, <2>2 DEF Delists
<1>5. CASE ~hungup[c]
  BY <1>1, <1>2, <1>5 DEF Wiring
<1> QED
  BY <1>4, <1>5

LEMMA SendWires ==
  ASSUME TypeOK, NEW n \in Fds, SendToClient(n), UNCHANGED connectorVars,
         platform = "windows"
  PROVE  Cuts \/ UNCHANGED Wiring
<1>1. PICK c \in Holder(n) : CutOff(c) \/ UNCHANGED <<clients, phase, fd>>
  BY DEF SendToClient
<1>2. /\ sending # <<>> /\ n \in sending[2]
      /\ sending' = <<sending[1], sending[2] \ {n}>>
      /\ UNCHANGED <<sock, hungup, doors, accepting, isReady, queue, sends>>
  BY DEF SendToClient, streams, connectorVars
<1>3. c \in Clients /\ fd[c] = n
  BY DEF Holder
<1>4. CASE CutOff(c)
  BY <1>2, <1>3, <1>4 DEF Cuts
<1>5. CASE UNCHANGED <<clients, phase, fd>>
  BY <1>2, <1>5 DEF Wiring, conns
<1> QED
  BY <1>1, <1>4, <1>5

LEMMA WiredTransmitter ==
  ASSUME TypeOK, ConnInv, Transmitter
  PROVE  Wired
<1>1. UNCHANGED connectorVars
  BY DEF Transmitter
<1>2. CASE Take \/ Written
  BY <1>1, <1>2 DEF Take, Written, Wired, Wiring, sharedVars, streams, connectorVars
<1>3. CASE \E n \in Fds : Write(n)
  BY <1>1, <1>3, WriteWires DEF Wired
<1>4. CASE platform = "windows" /\ \E n \in Fds : SendToClient(n)
  BY <1>1, <1>4, SendWires DEF Wired
<1> QED
  BY <1>2, <1>3, <1>4 DEF Transmitter, On, TransmitterLoop, TransmitterLoopWindows

LEMMA WiredControl ==
  ASSUME TypeOK, Control
  PROVE  Wired
<1>1. CASE Start \/ StartWindows
  <2>1. Start
    BY <1>1 DEF StartWindows
  <2> QED
    BY <2>1 DEF Start, Wired, Opens, streams, connectorVars
<1>2. CASE StartFails
  BY <1>2 DEF StartFails, Wired, Opens, streams
<1>3. CASE StartFailsWindows
  <2>1. PICK bound \in SUBSET (Sockets \ listening) : Bind(bound)
    BY <1>3 DEF StartFailsWindows
  <2>2. arrived' \subseteq arrived \ bound
    BY <1>3 DEF StartFailsWindows, TypeOK, SharedTypeOK
  <2> QED
    BY <1>3, <2>1, <2>2 DEF StartFailsWindows, Wired, Opens, streams
<1>4. CASE Stop /\ Resting
  BY <1>4 DEF Wired
<1>5. CASE (\E s \in Sockets : SendData(s)) /\ UNCHANGED connectorVars
  BY <1>5 DEF SendData, Wired, Wiring, sharedVars, streams, connectorVars
<1> QED
  BY <1>1, <1>2, <1>3, <1>4, <1>5 DEF Control, On

LEMMA WiredClients ==
  ASSUME ClientSteps
  PROVE  Wired
<1>1. UNCHANGED <<accepting, isReady>>
  BY DEF ClientSteps, connectorVars
<1>2. CASE \E c \in Clients : ClientWrites(c)
  BY <1>1, <1>2 DEF ClientWrites, Wired, Wiring
<1>3. CASE \E c \in Clients : HangUp(c)
  BY <1>1, <1>3 DEF HangUp, Wired, HangsUp
<1>4. CASE \E c \in Clients, s \in Sockets : Connect(c, s)
  BY <1>1, <1>4 DEF Wired
<1> QED
  BY <1>2, <1>3, <1>4 DEF ClientSteps, ClientNext

LEMMA AllWired ==
  ASSUME Inv, [Next]_vars
  PROVE  Wired /\ platform' = platform
<1> USE DEF Inv
<1>1. CASE UNCHANGED vars
  BY <1>1 DEF vars, sharedVars, streams, connectorVars, Wired, Wiring
<1>2. CASE Next
  <2>1. Wired
    BY <1>2, WiredConnector, WiredReceiver, WiredTransmitter, WiredControl, WiredClients
       DEF Next
  <2>2. platform' = platform
    BY <1>2 DEF Next, Connector, Receiver, Transmitter, Control, ClientSteps, On
  <2> QED
    BY <2>1, <2>2
<1> QED
  BY <1>1, <1>2

-----------------------------------------------------------------------------
(* Connections, doors and lists: their invariant, one kind of step at a time. *)

WiringTypeOK ==
  /\ sock \in [Clients -> Sockets \cup {None}]
  /\ phase \in [Clients -> {"new", "pending", "served", "shut"}]
  /\ fd \in [Clients -> Fds \cup {None}]
  /\ hungup \in [Clients -> BOOLEAN]
  /\ listening \subseteq Sockets /\ arrived \subseteq listening
  /\ backlog \in [Sockets -> Seq(Clients)]
  /\ clients \in [Sockets -> SUBSET Fds]
  /\ accepting \subseteq Sockets

WiringInv == WiringTypeOK /\ ConnInv /\ StaysListed

LEMMA WiringTyped ==
  ASSUME Inv
  PROVE  WiringInv
BY DEF Inv, TypeOK, SharedTypeOK, ConnectorTypeOK, WiringTypeOK, WiringInv

LEMMA WiringSame ==
  ASSUME WiringInv, UNCHANGED Wiring, platform' = platform
  PROVE  WiringInv'
BY DEF WiringInv, WiringTypeOK, ConnInv, StaysListed, Wiring, conns, doors, Connections,
       Waiting, EventsBacked, Listed, Serves

LEMMA WiringHangsUp ==
  ASSUME WiringInv, HangsUp, platform' = platform
  PROVE  WiringInv'
<1>1. UNCHANGED <<sock, phase, fd, doors, clients, accepting, isReady>>
  BY DEF HangsUp, conns
<1>2. PICK c \in Clients : hungup' = [hungup EXCEPT ![c] = TRUE]
  BY DEF HangsUp
<1>3. WiringTypeOK'
  BY <1>1, <1>2 DEF WiringInv, WiringTypeOK, doors
<1>4. ConnInv'
  BY <1>1 DEF WiringInv, ConnInv, Connections, Waiting, EventsBacked, Listed, Serves, doors
<1>5. StaysListed'
  <2>1. \A d \in Clients : ~hungup'[d] => ~hungup[d]
    BY <1>2 DEF WiringInv, WiringTypeOK
  <2> QED
    BY <1>1, <2>1 DEF WiringInv, StaysListed
<1> QED
  BY <1>3, <1>4, <1>5 DEF WiringInv

LEMMA WiringDelists ==
  ASSUME WiringInv, Delists, platform' = platform
  PROVE  WiringInv'
<1>1. UNCHANGED <<sock, phase, fd, hungup, doors, accepting, isReady>>
  BY DEF Delists, conns
<1>2. PICK s \in Sockets, n \in Fds :
        /\ clients' = [clients EXCEPT ![s] = @ \ {n}]
        /\ \A c \in Clients : fd[c] = n => hungup[c]
  BY DEF Delists
<1>3. clients \in [Sockets -> SUBSET Fds]
  BY DEF WiringInv, WiringTypeOK
<1>4. WiringTypeOK'
  <2>1. clients' \in [Sockets -> SUBSET Fds]
    BY <1>2, <1>3
  <2> QED
    BY <1>1, <2>1 DEF WiringInv, WiringTypeOK, doors
<1>5. ConnInv'
  <2>1. \A t \in Sockets : clients'[t] \subseteq clients[t]
    BY <1>2, <1>3
  <2>2. Listed'
    BY <1>1, <2>1 DEF WiringInv, ConnInv, Listed, Serves
  <2> QED
    BY <1>1, <2>2 DEF WiringInv, ConnInv, Connections, Waiting, EventsBacked, doors
<1>6. StaysListed'
  <2> SUFFICES ASSUME NEW c \in Clients, phase'[c] = "served", ~hungup'[c]
               PROVE  fd'[c] \in clients'[sock'[c]]
    BY DEF StaysListed
  <2>1. fd[c] \in clients[sock[c]] /\ fd[c] # n
    BY <1>1, <1>2 DEF WiringInv, StaysListed
  <2>2. sock[c] \in Sockets
    BY <1>1 DEF WiringInv, ConnInv, Connections
  <2> QED
    BY <1>1, <1>2, <1>3, <2>1, <2>2
<1> QED
  BY <1>4, <1>5, <1>6 DEF WiringInv

LEMMA WiringOpens ==
  ASSUME WiringInv, Opens, platform' = platform
  PROVE  WiringInv'
<1>1. UNCHANGED <<sock, phase, fd, hungup, clients, accepting>>
  BY DEF Opens, conns
<1>2. PICK bound \in SUBSET Sockets : Bind(bound) /\ arrived' \subseteq arrived \ bound
  BY DEF Opens
<1>3. /\ listening' = listening \cup bound
      /\ backlog' = [t \in Sockets |-> IF t \in bound THEN <<>> ELSE backlog[t]]
  BY <1>2 DEF Bind
<1>4. accepting = {}
  BY DEF Opens, WiringInv, ConnInv, EventsBacked
<1>5. WiringTypeOK'
  <2>1. backlog' \in [Sockets -> Seq(Clients)]
    BY <1>3 DEF WiringInv, WiringTypeOK
  <2> QED
    BY <1>1, <1>2, <1>3, <2>1 DEF WiringInv, WiringTypeOK
<1>6. ConnInv'
  <2>1. Waiting'
    <3>1. ASSUME NEW t \in Sockets
          PROVE  /\ \A i \in DOMAIN backlog'[t] :
                      phase[backlog'[t][i]] = "pending" /\ sock[backlog'[t][i]] = t
                 /\ \A i, j \in DOMAIN backlog'[t] : backlog'[t][i] = backlog'[t][j] => i = j
      <4>1. CASE t \in bound
        <5>1. DOMAIN backlog'[t] = {}
          BY <1>3, <4>1
        <5> QED
          BY <5>1
      <4>2. CASE t \notin bound
        <5>1. backlog'[t] = backlog[t]
          BY <1>3, <4>2
        <5> QED
          BY <5>1 DEF WiringInv, ConnInv, Waiting
      <4> QED
        BY <4>1, <4>2
    <3> QED
      BY <1>1, <3>1 DEF Waiting
  <2>2. EventsBacked'
    <3>1. \A t \in arrived' : t \in Sockets /\ t \in arrived /\ backlog'[t] = backlog[t]
      BY <1>2, <1>3 DEF WiringInv, WiringTypeOK
    <3> QED
      BY <1>1, <1>4, <3>1 DEF WiringInv, ConnInv, EventsBacked
  <2> QED
    BY <1>1, <2>1, <2>2 DEF WiringInv, ConnInv, Connections, Listed, Serves
<1>7. StaysListed'
  BY <1>1 DEF WiringInv, StaysListed
<1> QED
  BY <1>5, <1>6, <1>7 DEF WiringInv

LEMMA WiringAwaits ==
  ASSUME WiringInv, \/ platform = "unix" /\ AwaitConnections
                    \/ platform = "windows" /\ SelectListening,
         platform' = platform
  PROVE  WiringInv'
<1>1. UNCHANGED <<sock, phase, fd, hungup, listening, backlog, clients, isReady>> /\ isReady
  BY DEF AwaitConnections, SelectListening, sharedVars, conns, streams, doors
<1>2. \/ platform = "unix" /\ accepting' = arrived /\ arrived' = {}
      \/ /\ platform = "windows" /\ arrived' = arrived
         /\ accepting' = {s \in listening : backlog[s] # <<>>}
  BY DEF AwaitConnections, SelectListening, sharedVars, doors
<1>3. WiringTypeOK'
  BY <1>1, <1>2 DEF WiringInv, WiringTypeOK
<1>4. EventsBacked' 
  <2>1. CASE platform = "unix" /\ accepting' = arrived /\ arrived' = {}
    BY <1>1, <2>1 DEF WiringInv, ConnInv, EventsBacked
  <2>2. CASE platform = "windows" /\ accepting' = {s \in listening : backlog[s] # <<>>}
    BY <1>1, <2>2 DEF WiringInv, ConnInv, EventsBacked
  <2> QED
    BY <1>2, <2>1, <2>2
<1>5. ConnInv' /\ StaysListed'
  BY <1>1, <1>4 DEF WiringInv, ConnInv, StaysListed, Connections, Waiting, Listed, Serves
<1> QED
  BY <1>3, <1>5 DEF WiringInv

\* accept gives the connection at the head of the queue a descriptor no other
\* connection has, and puts it on the list; or there is none.
LEMMA WiringAccepts ==
  ASSUME WiringInv, NEW s \in Sockets, Accept(s) \/ AcceptAndClose(s), platform' = platform
  PROVE  WiringInv'
<1> DEFINE c == Head(backlog[s])
<1>1. /\ s \in accepting /\ accepting' = accepting \ {s}
      /\ UNCHANGED <<sock, hungup, listening, arrived, isReady>>
  BY DEF Accept, AcceptAndClose, streams
<1>2. /\ backlog[s] # <<>> /\ isReady /\ backlog \in [Sockets -> Seq(Clients)]
      /\ platform = "unix" /\ s \in arrived => Len(backlog[s]) > 1
  BY <1>1 DEF WiringInv, WiringTypeOK, ConnInv, EventsBacked
<1>3. /\ c \in Clients /\ c = backlog[s][1] /\ 1 \in DOMAIN backlog[s]
      /\ Tail(backlog[s]) \in Seq(Clients)
      /\ Len(Tail(backlog[s])) = Len(backlog[s]) - 1
      /\ \A i \in DOMAIN Tail(backlog[s]) :
           i + 1 \in DOMAIN backlog[s] /\ Tail(backlog[s])[i] = backlog[s][i + 1]
      /\ DOMAIN Tail(backlog[s]) \subseteq Nat
  BY <1>2
<1>4. phase[c] = "pending" /\ sock[c] = s
  BY <1>3 DEF WiringInv, ConnInv, Waiting
<1>5. \/ \E n \in FreeFds :
           /\ backlog' = [backlog EXCEPT ![s] = Tail(@)]
           /\ phase' = [phase EXCEPT ![c] = "served"]
           /\ fd' = [fd EXCEPT ![c] = n]
           /\ clients' = [clients EXCEPT ![s] = @ \cup {n}]
      \/ /\ backlog' = [backlog EXCEPT ![s] = Tail(@)]
         /\ phase' = [phase EXCEPT ![c] = "shut"]
         /\ UNCHANGED <<fd, clients>>
      \/ UNCHANGED <<backlog, phase, fd, clients>>
  BY DEF Accept, AcceptAndClose, addClientDescriptor
<1>6. CASE UNCHANGED <<backlog, phase, fd, clients>>
  BY <1>1, <1>6 DEF WiringInv, WiringTypeOK, ConnInv, StaysListed, Connections, Waiting,
                    EventsBacked, Listed, Serves
<1>7. ASSUME backlog' = [backlog EXCEPT ![s] = Tail(@)],
             phase' = [phase EXCEPT ![c] = "served"] \/ phase' = [phase EXCEPT ![c] = "shut"]
      PROVE  Waiting' /\ EventsBacked' /\ backlog' \in [Sockets -> Seq(Clients)]
  <2>1. /\ backlog' \in [Sockets -> Seq(Clients)]
        /\ backlog'[s] = Tail(backlog[s])
        /\ \A t \in Sockets \ {s} : backlog'[t] = backlog[t]
    BY <1>2, <1>3, <1>7
  <2>2. phase \in [Clients -> {"new", "pending", "served", "shut"}]
    BY DEF WiringInv, WiringTypeOK
  <2>3. \A d \in Clients \ {c} : phase'[d] = phase[d]
    BY <1>7, <2>2
  <2>4. \A i \in DOMAIN Tail(backlog[s]) : Tail(backlog[s])[i] \in Clients \ {c}
    <3>1. TAKE i \in DOMAIN Tail(backlog[s])
    <3>2. i + 1 # 1 /\ i + 1 \in DOMAIN backlog[s]
      BY <1>3
    <3>3. backlog[s][i + 1] # c
      BY <1>3, <3>2 DEF WiringInv, ConnInv, Waiting
    <3>4. backlog[s][i + 1] \in Clients
      BY <1>2, <3>2
    <3> QED
      BY <1>3, <3>3, <3>4
  <2>5. \A t \in Sockets \ {s} : \A i \in DOMAIN backlog[t] : backlog[t][i] \in Clients \ {c}
    <3>1. TAKE t \in Sockets \ {s}
    <3>2. TAKE i \in DOMAIN backlog[t]
    <3>3. sock[backlog[t][i]] = t /\ backlog[t][i] \in Clients
      BY <1>2 DEF WiringInv, ConnInv, Waiting
    <3> QED
      BY <1>4, <3>3
  <2>6. ASSUME NEW t \in Sockets
        PROVE  /\ \A i \in DOMAIN backlog'[t] :
                    phase'[backlog'[t][i]] = "pending" /\ sock[backlog'[t][i]] = t
               /\ \A i, j \in DOMAIN backlog'[t] : backlog'[t][i] = backlog'[t][j] => i = j
    <3>1. CASE t = s
      <4>4. backlog'[t] = Tail(backlog[s])
        BY <2>1, <3>1
      <4>1. \A i \in DOMAIN Tail(backlog[s]) :
              phase'[Tail(backlog[s])[i]] = "pending" /\ sock[Tail(backlog[s])[i]] = s
        BY <1>3, <2>3, <2>4 DEF WiringInv, ConnInv, Waiting
      <4>2. \A i, j \in DOMAIN Tail(backlog[s]) :
              Tail(backlog[s])[i] = Tail(backlog[s])[j] => i + 1 = j + 1
        BY <1>3 DEF WiringInv, ConnInv, Waiting
      <4>3. \A i, j \in DOMAIN Tail(backlog[s]) :
              Tail(backlog[s])[i] = Tail(backlog[s])[j] => i = j
        BY <1>3, <4>2
      <4> QED
        BY <3>1, <4>4, <4>1, <4>3, Zenon
    <3>2. CASE t # s
      BY <2>1, <2>3, <2>5, <3>2 DEF WiringInv, ConnInv, Waiting
    <3> QED
      BY <3>1, <3>2
  <2>7. Waiting'
    BY <1>1, <2>6 DEF Waiting
  <2>8. EventsBacked'
    <3>1. \A t \in accepting' : isReady' /\ backlog'[t] # <<>>
      BY <1>1, <1>2, <2>1 DEF WiringInv, ConnInv, EventsBacked, WiringTypeOK
    <3>2. ASSUME platform = "unix", NEW t \in arrived
          PROVE  backlog'[t] # <<>> /\ (t \in accepting' => Len(backlog'[t]) > 1)
      <4>1. CASE t = s
        <5>1. Len(backlog'[s]) > 0 /\ s \notin accepting'
          BY <1>1, <1>2, <1>3, <2>1, <3>2, <4>1
        <5> QED
          BY <2>1, <4>1, <5>1
      <4>2. CASE t # s
        BY <1>1, <2>1, <3>2, <4>2 DEF WiringInv, ConnInv, EventsBacked, WiringTypeOK
      <4> QED
        BY <4>1, <4>2
    <3> QED
      BY <1>1, <3>1, <3>2 DEF EventsBacked
  <2> QED
    BY <2>1, <2>7, <2>8
<1>8. CASE /\ backlog' = [backlog EXCEPT ![s] = Tail(@)]
           /\ phase' = [phase EXCEPT ![c] = "shut"]
           /\ UNCHANGED <<fd, clients>>
  <2>1. Waiting' /\ EventsBacked' /\ backlog' \in [Sockets -> Seq(Clients)]
    BY <1>7, <1>8
  <2>2. phase \in [Clients -> {"new", "pending", "served", "shut"}]
    BY DEF WiringInv, WiringTypeOK
  <2>3. \A d \in Clients : (phase'[d] = "served" <=> phase[d] = "served")
                           /\ (phase'[d] # "new" <=> phase[d] # "new")
    BY <1>4, <1>8, <2>2
  <2>4. Connections' /\ Listed'
    BY <1>1, <1>8, <2>3 DEF WiringInv, ConnInv, Connections, Listed, Serves
  <2>5. StaysListed'
    BY <1>1, <1>8, <2>3 DEF WiringInv, StaysListed
  <2>6. WiringTypeOK'
    BY <1>1, <1>8, <2>1, <2>2 DEF WiringInv, WiringTypeOK
  <2> QED
    BY <2>1, <2>4, <2>5, <2>6 DEF WiringInv, ConnInv
<1>9. ASSUME NEW n \in FreeFds,
             backlog' = [backlog EXCEPT ![s] = Tail(@)],
             phase' = [phase EXCEPT ![c] = "served"],
             fd' = [fd EXCEPT ![c] = n],
             clients' = [clients EXCEPT ![s] = @ \cup {n}]
      PROVE  WiringInv'
  <2>1. Waiting' /\ EventsBacked' /\ backlog' \in [Sockets -> Seq(Clients)]
    BY <1>7, <1>9
  <2>2. /\ phase \in [Clients -> {"new", "pending", "served", "shut"}]
        /\ fd \in [Clients -> Fds \cup {None}]
        /\ clients \in [Sockets -> SUBSET Fds]
    BY DEF WiringInv, WiringTypeOK
  <2>3. n \in Fds /\ n # None /\ \A d \in Clients : fd[d] # n
    BY NoneAssumption DEF FreeFds, Holder
  <2>4. /\ fd'[c] = n /\ phase'[c] = "served"
        /\ \A d \in Clients \ {c} : fd'[d] = fd[d] /\ phase'[d] = phase[d]
        /\ clients'[s] = clients[s] \cup {n}
        /\ \A t \in Sockets \ {s} : clients'[t] = clients[t]
    BY <1>3, <1>9, <2>2
  <2>5. fd[c] = None
    BY <1>3, <1>4 DEF WiringInv, ConnInv, Connections
  <2>6. Connections'
    <3>1. \A d \in Clients : phase'[d] = "served" <=> fd'[d] # None
      BY <2>3, <2>4 DEF WiringInv, ConnInv, Connections
    <3>2. \A d, f \in Clients : fd'[d] = fd'[f] /\ fd'[d] # None => d = f
      BY <2>3, <2>4 DEF WiringInv, ConnInv, Connections
    <3>3. \A d \in Clients : phase'[d] # "new" => sock[d] \in Sockets
      BY <1>4, <2>4 DEF WiringInv, ConnInv, Connections
    <3> QED
      BY <1>1, <3>1, <3>2, <3>3 DEF Connections
  <2>7. Listed'
    <3> SUFFICES ASSUME NEW t \in Sockets, NEW m \in clients'[t]
                 PROVE  \E d \in Clients : fd'[d] = m /\ sock'[d] = t
      BY DEF Listed, Serves
    <3>1. CASE t = s /\ m = n
      BY <1>1, <1>3, <1>4, <2>4, <3>1
    <3>2. CASE m \in clients[t]
      <4>1. PICK d \in Clients : fd[d] = m /\ sock[d] = t
        BY <3>2 DEF WiringInv, ConnInv, Listed, Serves
      <4>2. d # c
        BY <2>2, <2>5, <3>2, <4>1, NoneAssumption
      <4> QED
        BY <1>1, <2>4, <4>1, <4>2
    <3> QED
      BY <2>4, <3>1, <3>2
  <2>8. StaysListed'
    <3> SUFFICES ASSUME NEW d \in Clients, phase'[d] = "served", ~hungup[d]
                 PROVE  fd'[d] \in clients'[sock[d]]
      BY <1>1 DEF StaysListed
    <3>1. CASE d = c
      BY <1>4, <2>4, <3>1
    <3>2. CASE d # c
      <4>1. fd[d] \in clients[sock[d]] /\ sock[d] \in Sockets
        BY <2>4, <3>2 DEF WiringInv, StaysListed, ConnInv, Connections
      <4> QED
        BY <2>4, <3>2, <4>1
    <3> QED
      BY <3>1, <3>2
  <2>9. WiringTypeOK'
    <3>1. /\ phase' \in [Clients -> {"new", "pending", "served", "shut"}]
          /\ fd' \in [Clients -> Fds \cup {None}]
      BY <1>9, <2>2, <2>3
    <3>2. clients' \in [Sockets -> SUBSET Fds]
      BY <1>9, <2>2, <2>3
    <3> QED
      BY <1>1, <2>1, <3>1, <3>2 DEF WiringInv, WiringTypeOK
  <2> QED
    BY <2>1, <2>6, <2>7, <2>8, <2>9 DEF WiringInv, ConnInv
<1> QED
  BY <1>5, <1>6, <1>8, <1>9

LEMMA WiringConnects ==
  ASSUME WiringInv, NEW c \in Clients, NEW s \in Sockets, Connect(c, s),
         UNCHANGED <<accepting, isReady>>, platform' = platform
  PROVE  WiringInv'
<1>1. /\ phase[c] = "new" /\ s \in listening
      /\ sock' = [sock EXCEPT ![c] = s]
      /\ phase' = [phase EXCEPT ![c] = "pending"]
      /\ backlog' = [backlog EXCEPT ![s] = Append(@, c)]
      /\ arrived' = arrived \cup {s}
      /\ UNCHANGED <<fd, hungup, listening, clients, accepting, isReady>>
  BY DEF Connect, streams
<1>2. /\ sock \in [Clients -> Sockets \cup {None}]
      /\ phase \in [Clients -> {"new", "pending", "served", "shut"}]
      /\ backlog \in [Sockets -> Seq(Clients)]
  BY DEF WiringInv, WiringTypeOK
<1>3. /\ sock'[c] = s /\ phase'[c] = "pending"
      /\ \A d \in Clients \ {c} : sock'[d] = sock[d] /\ phase'[d] = phase[d]
      /\ backlog'[s] = Append(backlog[s], c)
      /\ \A t \in Sockets \ {s} : backlog'[t] = backlog[t]
  BY <1>1, <1>2
<1>4. /\ Append(backlog[s], c) \in Seq(Clients)
      /\ Len(Append(backlog[s], c)) = Len(backlog[s]) + 1
      /\ Append(backlog[s], c)[Len(backlog[s]) + 1] = c
      /\ \A i \in DOMAIN backlog[s] : /\ i \in DOMAIN Append(backlog[s], c)
                                      /\ Append(backlog[s], c)[i] = backlog[s][i]
      /\ \A i \in DOMAIN Append(backlog[s], c) :
           i \in DOMAIN backlog[s] \/ i = Len(backlog[s]) + 1
  BY <1>2
<1>5. \A t \in Sockets : \A i \in DOMAIN backlog[t] : backlog[t][i] \in Clients \ {c}
  <2>1. TAKE t \in Sockets
  <2>2. TAKE i \in DOMAIN backlog[t]
  <2>3. phase[backlog[t][i]] = "pending" /\ backlog[t][i] \in Clients
    BY <1>2 DEF WiringInv, ConnInv, Waiting
  <2> QED
    BY <1>1, <2>3
<1>6. fd[c] = None
  BY <1>1 DEF WiringInv, ConnInv, Connections
<1>7. Waiting'
  <2>1. ASSUME NEW t \in Sockets, t # s
        PROVE  /\ \A i \in DOMAIN backlog'[t] :
                    phase'[backlog'[t][i]] = "pending" /\ sock'[backlog'[t][i]] = t
               /\ \A i, j \in DOMAIN backlog'[t] : backlog'[t][i] = backlog'[t][j] => i = j
    BY <1>3, <1>5, <2>1 DEF WiringInv, ConnInv, Waiting
  <2>2. \A i \in DOMAIN Append(backlog[s], c) :
          LET d == Append(backlog[s], c)[i] IN phase'[d] = "pending" /\ sock'[d] = s
    <3>1. \A i \in DOMAIN backlog[s] :
            phase'[backlog[s][i]] = "pending" /\ sock'[backlog[s][i]] = s
      BY <1>3, <1>5 DEF WiringInv, ConnInv, Waiting
    <3> QED
      BY <1>3, <1>4, <3>1
  <2>3. \A i, j \in DOMAIN Append(backlog[s], c) :
          Append(backlog[s], c)[i] = Append(backlog[s], c)[j] => i = j
    <3>1. \A i, j \in DOMAIN backlog[s] : backlog[s][i] = backlog[s][j] => i = j
      BY DEF WiringInv, ConnInv, Waiting
    <3>2. \A i \in DOMAIN backlog[s] : backlog[s][i] # c
      BY <1>5
    <3> QED
      BY <1>4, <3>1, <3>2
  <2> QED
    BY <1>3, <2>1, <2>2, <2>3 DEF Waiting
<1>8. EventsBacked'
  <2>1. \A t \in Sockets : backlog[t] # <<>> => backlog'[t] # <<>>
    BY <1>2, <1>3, <1>4
  <2>2. backlog'[s] # <<>>
    BY <1>2, <1>3, <1>4
  <2>3. accepting \subseteq Sockets /\ arrived \subseteq Sockets
    BY DEF WiringInv, WiringTypeOK
  <2>4. \A t \in accepting' : isReady' /\ backlog'[t] # <<>>
    BY <1>1, <2>1, <2>3 DEF WiringInv, ConnInv, EventsBacked
  <2>5. ASSUME platform = "unix", NEW t \in arrived'
        PROVE  backlog'[t] # <<>> /\ (t \in accepting' => Len(backlog'[t]) > 1)
    <3>1. CASE t = s
      <4>1. s \in accepting => Len(backlog[s]) > 0
        BY <1>2 DEF WiringInv, ConnInv, EventsBacked
      <4>2. s \in accepting => Len(backlog'[s]) > 1
        BY <1>2, <1>3, <1>4, <4>1
      <4> QED
        BY <1>1, <2>2, <3>1, <4>2
    <3>2. CASE t # s
      BY <1>1, <1>3, <2>3, <2>5, <3>2 DEF WiringInv, ConnInv, EventsBacked
    <3> QED
      BY <3>1, <3>2
  <2> QED
    BY <2>4, <2>5 DEF EventsBacked
<1>9. Connections' /\ Listed' /\ StaysListed'
  <2>1. Connections'
    BY <1>1, <1>3 DEF WiringInv, ConnInv, Connections
  <2>2. Listed'
    <3>1. \A d \in Clients : fd[d] # None => sock'[d] = sock[d]
      BY <1>3, <1>6
    <3>2. \A t \in Sockets : \A n \in clients[t] : n # None
      BY NoneAssumption DEF WiringInv, WiringTypeOK
    <3> QED
      BY <1>1, <3>1, <3>2 DEF WiringInv, ConnInv, Listed, Serves
  <2>3. StaysListed'
    BY <1>1, <1>3 DEF WiringInv, StaysListed
  <2> QED
    BY <2>1, <2>2, <2>3
<1>10. WiringTypeOK'
  <2>1. sock' \in [Clients -> Sockets \cup {None}]
        /\ phase' \in [Clients -> {"new", "pending", "served", "shut"}]
    BY <1>1, <1>2
  <2>2. backlog' \in [Sockets -> Seq(Clients)]
    BY <1>1, <1>2, <1>4
  <2> QED
    BY <1>1, <2>1, <2>2 DEF WiringInv, WiringTypeOK
<1> QED
  BY <1>7, <1>8, <1>9, <1>10 DEF WiringInv, ConnInv

LEMMA WiringStops ==
  ASSUME WiringInv, Stop, platform' = platform
  PROVE  WiringInv'
<1> DEFINE shut == {c \in Clients : \E s \in Sockets :
                      fd[c] \in clients[s] \/ c \in ToSet(backlog[s])}
<1>1. /\ phase' = [c \in Clients |-> IF c \in shut THEN "shut" ELSE phase[c]]
      /\ fd' = [c \in Clients |-> IF c \in shut THEN None ELSE fd[c]]
      /\ listening' = {} /\ arrived' = {} /\ accepting = {} /\ accepting' = {}
      /\ backlog' = [s \in Sockets |-> <<>>]
      /\ clients' = [s \in Sockets |-> {}]
      /\ UNCHANGED <<sock, hungup>>
  BY DEF Stop, closeSockets
<1> HIDE DEF shut
<1>2. /\ phase \in [Clients -> {"new", "pending", "served", "shut"}]
      /\ fd \in [Clients -> Fds \cup {None}]
  BY DEF WiringInv, WiringTypeOK
<1>3. WiringTypeOK'
  <2>1. backlog' \in [Sockets -> Seq(Clients)]
    BY <1>1
  <2>2. /\ phase' \in [Clients -> {"new", "pending", "served", "shut"}]
        /\ fd' \in [Clients -> Fds \cup {None}]
    BY <1>1, <1>2
  <2> QED
    BY <1>1, <2>1, <2>2 DEF WiringInv, WiringTypeOK
<1>4. Waiting' /\ EventsBacked' /\ Listed'
  <2>1. \A s \in Sockets : DOMAIN backlog'[s] = {}
    BY <1>1
  <2> QED
    BY <1>1, <2>1 DEF Waiting, EventsBacked, Listed
<1>5. Connections'
  <2>1. \A c \in shut : c \in Clients => phase[c] # "new"
    <3> SUFFICES ASSUME NEW c \in Clients, c \in shut PROVE phase[c] # "new"
      OBVIOUS
    <3>1. PICK s \in Sockets : fd[c] \in clients[s] \/ c \in ToSet(backlog[s])
      BY DEF shut
    <3>2. CASE fd[c] \in clients[s]
      <4>1. fd[c] # None
        BY <3>2, NoneAssumption DEF WiringInv, WiringTypeOK
      <4> QED
        BY <4>1 DEF WiringInv, ConnInv, Connections
    <3>3. CASE c \in ToSet(backlog[s])
      BY <3>3 DEF ToSet, WiringInv, ConnInv, Waiting
    <3> QED
      BY <3>1, <3>2, <3>3
  <2>2. \A c \in Clients : phase'[c] = "served" <=> fd'[c] # None
    BY <1>1 DEF WiringInv, ConnInv, Connections
  <2>3. \A c, d \in Clients : fd'[c] = fd'[d] /\ fd'[c] # None => c = d
    BY <1>1 DEF WiringInv, ConnInv, Connections
  <2>4. \A c \in Clients : phase'[c] # "new" => sock'[c] \in Sockets
    BY <1>1, <2>1 DEF WiringInv, ConnInv, Connections
  <2> QED
    BY <2>2, <2>3, <2>4 DEF Connections
<1>6. StaysListed'
  <2> SUFFICES ASSUME NEW c \in Clients, phase'[c] = "served", ~hungup'[c]
               PROVE  FALSE
    BY DEF StaysListed
  <2>1. c \notin shut /\ phase[c] = "served" /\ ~hungup[c]
    BY <1>1
  <2>2. fd[c] \in clients[sock[c]] /\ sock[c] \in Sockets
    BY <2>1 DEF WiringInv, StaysListed, ConnInv, Connections
  <2> QED
    BY <2>1, <2>2 DEF shut
<1> QED
  BY <1>3, <1>4, <1>5, <1>6 DEF WiringInv, ConnInv

\* A descriptor the transmitter sends to is on the list of the entry's socket
\* only, so a connection that is closed is on no list.
LEMMA WiringCuts ==
  ASSUME Inv, WiringInv, Cuts, platform' = platform
  PROVE  WiringInv'
<1>1. PICK c \in Clients : fd[c] \in sending[2] /\ CutOff(c)
  BY DEF Cuts
<1> DEFINE s == sending[1][1]
<1>2. /\ clients' = [clients EXCEPT ![s] = @ \ {fd[c]}]
      /\ phase' = [phase EXCEPT ![c] = "shut"]
      /\ fd' = [fd EXCEPT ![c] = None]
      /\ UNCHANGED <<sock, hungup, doors, accepting, isReady>>
  BY <1>1 DEF Cuts, CutOff, removeClientDescriptor
<1>3. /\ phase \in [Clients -> {"new", "pending", "served", "shut"}]
      /\ fd \in [Clients -> Fds \cup {None}]
      /\ clients \in [Sockets -> SUBSET Fds]
  BY DEF WiringInv, WiringTypeOK
<1>4. sending[1][1] \in Sockets /\ sending[2] \subseteq Fds
  BY DEF Cuts, Inv, TypeOK, TransmitterTypeOK, Entries
<1>5. fd[c] \in Fds /\ fd[c] # None /\ phase[c] = "served"
  BY <1>1, <1>4, NoneAssumption DEF WiringInv, ConnInv, Connections
<1>6. sock[c] = s
  <2>1. Serves(fd[c], s)
    BY <1>1 DEF Cuts, Inv, TransmitterInv, SendingInv
  <2> QED
    BY <1>5, <2>1 DEF Serves, WiringInv, ConnInv, Connections
<1> HIDE DEF s
<1>7. /\ fd'[c] = None /\ phase'[c] = "shut"
      /\ \A d \in Clients \ {c} : fd'[d] = fd[d] /\ phase'[d] = phase[d]
      /\ clients'[s] = clients[s] \ {fd[c]}
      /\ \A t \in Sockets \ {s} : clients'[t] = clients[t]
  BY <1>2, <1>3, <1>4 DEF s
<1>8. WiringTypeOK'
  <2>1. /\ phase' \in [Clients -> {"new", "pending", "served", "shut"}]
        /\ fd' \in [Clients -> Fds \cup {None}]
        /\ clients' \in [Sockets -> SUBSET Fds]
    BY <1>2, <1>3
  <2> QED
    BY <1>2, <2>1 DEF WiringInv, WiringTypeOK, doors
<1>9. Connections'
  <2>1. \A d \in Clients : phase'[d] = "served" <=> fd'[d] # None
    BY <1>7 DEF WiringInv, ConnInv, Connections
  <2>2. \A d, f \in Clients : fd'[d] = fd'[f] /\ fd'[d] # None => d = f
    BY <1>7 DEF WiringInv, ConnInv, Connections
  <2>3. \A d \in Clients : phase'[d] # "new" => sock'[d] \in Sockets
    BY <1>2, <1>5, <1>7 DEF WiringInv, ConnInv, Connections
  <2> QED
    BY <2>1, <2>2, <2>3 DEF Connections
<1>10. Listed'
  <2> SUFFICES ASSUME NEW t \in Sockets, NEW m \in clients'[t]
               PROVE  \E d \in Clients : fd'[d] = m /\ sock'[d] = t
    BY DEF Listed, Serves
  <2>1. m \in clients[t] /\ ~(t = s /\ m = fd[c])
    BY <1>4, <1>7 DEF s
  <2>2. PICK d \in Clients : fd[d] = m /\ sock[d] = t
    BY <2>1 DEF WiringInv, ConnInv, Listed, Serves
  <2>3. d # c
    BY <1>6, <2>1, <2>2
  <2> QED
    BY <1>2, <1>7, <2>2, <2>3
<1>11. Waiting' /\ EventsBacked'
  <2>1. \A t \in Sockets : \A i \in DOMAIN backlog[t] : backlog[t][i] \in Clients \ {c}
    <3>1. TAKE t \in Sockets
    <3>2. TAKE i \in DOMAIN backlog[t]
    <3>3. backlog[t][i] \in Clients
      BY DEF WiringInv, WiringTypeOK
    <3> QED
      BY <1>5, <3>3 DEF WiringInv, ConnInv, Waiting
  <2> QED
    BY <1>2, <1>7, <2>1 DEF WiringInv, ConnInv, Waiting, EventsBacked, doors
<1>12. StaysListed'
  <2> SUFFICES ASSUME NEW d \in Clients, phase'[d] = "served", ~hungup'[d]
               PROVE  fd'[d] \in clients'[sock'[d]]
    BY DEF StaysListed
  <2>1. d # c /\ phase[d] = "served" /\ ~hungup[d] /\ fd'[d] = fd[d]
    BY <1>2, <1>7
  <2>2. fd[d] \in clients[sock[d]] /\ sock[d] \in Sockets
    BY <2>1 DEF WiringInv, StaysListed, ConnInv, Connections
  <2>3. fd[d] # fd[c]
    BY <1>5, <2>1 DEF WiringInv, ConnInv, Connections
  <2> QED
    BY <1>2, <1>7, <2>1, <2>2, <2>3
<1> QED
  BY <1>8, <1>9, <1>10, <1>11, <1>12 DEF WiringInv, ConnInv

LEMMA WiringNext ==
  ASSUME Inv, [Next]_vars
  PROVE  WiringInv'
<1>1. WiringInv /\ Wired /\ platform' = platform
  BY WiringTyped, AllWired
<1> QED
  BY <1>1, WiringSame, WiringHangsUp, WiringDelists, WiringCuts, WiringOpens, WiringStops,
     WiringAwaits, WiringAccepts, WiringConnects DEF Wired

-----------------------------------------------------------------------------
(* Types. *)

StreamsTypeOK ==
  /\ unread \in [Clients -> 0..MaxUnread]
  /\ edge \subseteq polled /\ polled \subseteq Clients

\* What WiringTypeOK leaves over of TypeOK.
RestTypeOK ==
  StreamsTypeOK /\ ConnectorTypeOK /\ ReceiverTypeOK /\ TransmitterTypeOK
  /\ platform \in Platforms

LEMMA TypesSplit == TypeOK => RestTypeOK
BY DEF TypeOK, SharedTypeOK, StreamsTypeOK, RestTypeOK

LEMMA TypesJoin == WiringInv /\ RestTypeOK => TypeOK
<1> SUFFICES ASSUME WiringInv, RestTypeOK PROVE TypeOK
  OBVIOUS
<1>1. \A s \in Sockets : \A c \in ToSet(backlog[s]) : phase[c] = "pending" /\ sock[c] = s
  BY DEF WiringInv, ConnInv, Waiting, ToSet
<1> QED
  BY <1>1 DEF WiringInv, WiringTypeOK, RestTypeOK, StreamsTypeOK, TypeOK, SharedTypeOK

LEMMA TypesConnector ==
  ASSUME TypeOK, Connector
  PROVE  RestTypeOK'
<1>1. UNCHANGED <<streams, receiverVars, transmitterVars, platform, starts>>
      /\ UNCHANGED isReady
  BY DEF Connector, On, ConnectorLoop, ConnectorLoopWindows, AwaitConnections, Accept,
         SelectListening, AcceptAndClose, sharedVars
<1>2. accepting' \subseteq Sockets
  BY DEF Connector, On, ConnectorLoop, ConnectorLoopWindows, AwaitConnections, Accept,
         SelectListening, AcceptAndClose, TypeOK, SharedTypeOK, ConnectorTypeOK
<1> QED
  BY <1>1, <1>2 DEF streams, receiverVars, transmitterVars, TypeOK, SharedTypeOK, RestTypeOK,
     StreamsTypeOK, ConnectorTypeOK, ReceiverTypeOK, TransmitterTypeOK

LEMMA TypesControl ==
  ASSUME TypeOK, Control
  PROVE  RestTypeOK'
<1>1. CASE \E s \in Sockets : SendData(s) /\ UNCHANGED <<connectorVars, receiverVars, platform>>
  <2>1. PICK s \in Sockets : SendData(s) /\ UNCHANGED <<connectorVars, receiverVars, platform>>
    BY <1>1
  <2>2. sends[s] + 1 \in 1..MaxSends /\ sends' \in [Sockets -> 0..MaxSends]
    BY <2>1, MaxSendsAssumption DEF SendData, TypeOK, TransmitterTypeOK
  <2>3. queue' \in Seq(Entries)
    <3>1. <<s, sends[s] + 1>> \in Entries
      BY <2>2 DEF Entries
    <3> QED
      BY <2>1, <3>1 DEF SendData, TypeOK, TransmitterTypeOK
  <2> QED
    BY <2>1, <2>2, <2>3 DEF SendData, sharedVars, streams, connectorVars, receiverVars, TypeOK,
       SharedTypeOK, RestTypeOK, StreamsTypeOK, ConnectorTypeOK, ReceiverTypeOK,
       TransmitterTypeOK
<1>2. CASE UNCHANGED <<receiverVars, transmitterVars, platform>>
  <2>1. ReceiverTypeOK' /\ TransmitterTypeOK' /\ platform' \in Platforms
    BY <1>2 DEF receiverVars, transmitterVars, TypeOK, ReceiverTypeOK, TransmitterTypeOK
  <2>2. CASE Start \/ StartFails \/ StartFailsWindows
    <3>1. starts' \in 0..MaxStarts
      BY <2>2, MaxStartsAssumption DEF Start, StartFails, StartFailsWindows, TypeOK,
         ConnectorTypeOK
    <3>2. isReady' \in BOOLEAN /\ UNCHANGED <<accepting, streams>>
      BY <2>2 DEF Start, StartFails, StartFailsWindows, TypeOK, ConnectorTypeOK
    <3> QED
      BY <2>1, <3>1, <3>2 DEF streams, TypeOK, SharedTypeOK, RestTypeOK, StreamsTypeOK,
         ConnectorTypeOK
  <2>3. CASE Stop
    <3>1. ConnectorTypeOK'
      BY <2>3 DEF Stop, TypeOK, ConnectorTypeOK
    <3>2. StreamsTypeOK'
      BY <2>3 DEF Stop, closeSockets, TypeOK, SharedTypeOK, StreamsTypeOK
    <3> QED
      BY <2>1, <3>1, <3>2 DEF RestTypeOK
  <2>4. CASE \E s \in Sockets : SendData(s) /\ UNCHANGED <<connectorVars, receiverVars, platform>>
    BY <1>1, <2>4
  <2> QED
    BY <2>2, <2>3, <2>4 DEF Control, On, StartWindows
<1> QED
  BY <1>1, <1>2 DEF Control, On

LEMMA TypesClients ==
  ASSUME TypeOK, ClientSteps
  PROVE  RestTypeOK'
<1>1. UNCHANGED <<connectorVars, receiverVars, transmitterVars, platform>>
  BY DEF ClientSteps
<1>2. StreamsTypeOK'
  <2>1. PICK c \in Clients : ClientWrites(c) \/ HangUp(c) \/ \E s \in Sockets : Connect(c, s)
    BY DEF ClientSteps, ClientNext
  <2>2. CASE ClientWrites(c)
    BY <2>2, BufferAssumption DEF ClientWrites, Notify, TypeOK, SharedTypeOK, StreamsTypeOK
  <2>3. CASE HangUp(c)
    BY <2>3 DEF HangUp, Notify, TypeOK, SharedTypeOK, StreamsTypeOK
  <2>4. CASE \E s \in Sockets : Connect(c, s)
    BY <2>4 DEF Connect, streams, TypeOK, SharedTypeOK, StreamsTypeOK
  <2> QED
    BY <2>1, <2>2, <2>3, <2>4
<1> QED
  BY <1>1, <1>2 DEF connectorVars, receiverVars, transmitterVars, TypeOK, RestTypeOK,
     ConnectorTypeOK, ReceiverTypeOK, TransmitterTypeOK

LEMMA TypesTransmitter ==
  ASSUME TypeOK, Transmitter
  PROVE  RestTypeOK'
<1>1. UNCHANGED <<connectorVars, receiverVars, platform>>
  BY DEF Transmitter, On
<1>2. UNCHANGED streams
  BY DEF Transmitter, On, TransmitterLoop, TransmitterLoopWindows, Take, Written, Write,
         SendToClient, sharedVars
<1>3. TransmitterTypeOK'
  <2>1. CASE Take
    <3>1. Head(queue) \in Entries /\ Tail(queue) \in Seq(Entries)
      BY <2>1 DEF Take, TypeOK, TransmitterTypeOK
    <3>2. clients[Head(queue)[1]] \in SUBSET Fds
      BY <3>1 DEF TypeOK, SharedTypeOK, Entries
    <3>3. sending' \in Entries \X SUBSET Fds
      BY <2>1, <3>1, <3>2 DEF Take
    <3> QED
      BY <2>1, <3>1, <3>3 DEF Take, TypeOK, TransmitterTypeOK
  <2>2. CASE Written
    BY <2>2 DEF Written, TypeOK, TransmitterTypeOK
  <2>3. ASSUME NEW n \in Fds, Write(n) \/ SendToClient(n)
        PROVE  TransmitterTypeOK'
    <3>1. sending \in Entries \X SUBSET Fds
      BY <2>3 DEF Write, SendToClient, TypeOK, TransmitterTypeOK
    <3>2. sending' \in Entries \X SUBSET Fds
      BY <2>3, <3>1 DEF Write, SendToClient
    <3>3. UNCHANGED <<queue, sends>>
      BY <2>3 DEF Write, SendToClient
    <3>4. \/ UNCHANGED got
          \/ \E c \in Clients : got' = [got EXCEPT ![c] = Append(@, sending[1])]
      BY <2>3 DEF Write, SendToClient, CutOff, Holder
    <3>5. got' \in [Clients -> Seq(Entries)]
      <4>1. got \in [Clients -> Seq(Entries)]
        BY DEF TypeOK, TransmitterTypeOK
      <4>2. sending[1] \in Entries
        BY <3>1
      <4>3. \A c \in Clients : Append(got[c], sending[1]) \in Seq(Entries)
        BY <4>1, <4>2
      <4> QED
        BY <3>4, <4>1, <4>3
    <3> QED
      BY <3>2, <3>3, <3>5 DEF TypeOK, TransmitterTypeOK
  <2> QED
    BY <2>1, <2>2, <2>3 DEF Transmitter, On, TransmitterLoop, TransmitterLoopWindows
<1> QED
  BY <1>1, <1>2, <1>3 DEF connectorVars, receiverVars, streams, TypeOK, SharedTypeOK,
     RestTypeOK, StreamsTypeOK, ConnectorTypeOK, ReceiverTypeOK

LEMMA TypesReceiver ==
  ASSUME TypeOK, EventsManaged, Receiver
  PROVE  RestTypeOK'
<1>1. UNCHANGED <<connectorVars, transmitterVars, platform>>
  BY DEF Receiver, On
<1> SUFFICES StreamsTypeOK' /\ ReceiverTypeOK'
  BY <1>1 DEF connectorVars, transmitterVars, TypeOK, RestTypeOK, ConnectorTypeOK,
     TransmitterTypeOK
<1>2. StreamsTypeOK /\ ReceiverTypeOK
  BY DEF TypeOK, SharedTypeOK, StreamsTypeOK
<1>3. ASSUME NEW s \in Sockets, Collect(s)
      PROVE  StreamsTypeOK' /\ ReceiverTypeOK'
  <2>1. clients[s] \X {s} \subseteq Fds \X Sockets
    BY DEF TypeOK, SharedTypeOK
  <2> QED
    BY <1>2, <1>3, <2>1 DEF Collect, sharedVars, streams, StreamsTypeOK, ReceiverTypeOK
<1>4. CASE ValidateEPoll
  <2>1. \A X : Behind(X) \subseteq Clients
    BY DEF Behind, Holder
  <2>2. StreamsTypeOK'
    BY <1>2, <1>4, <2>1 DEF ValidateEPoll, StreamsTypeOK
  <2>3. ReceiverTypeOK'
    BY <1>2, <1>4 DEF ValidateEPoll, ReceiverTypeOK
  <2> QED
    BY <2>2, <2>3
<1>5. CASE NextTurn
  BY <1>2, <1>5 DEF NextTurn, sharedVars, streams, StreamsTypeOK, ReceiverTypeOK
<1>6. CASE AwaitData
  <2>1. \A c \in edge : fd[c] \in Fds /\ hungup[c] \in BOOLEAN
    <3>1. TAKE c \in edge
    <3>2. c \in polled /\ c \in Clients
      BY DEF TypeOK, SharedTypeOK
    <3>3. <<fd[c], sock[c]>> \in Fds \X Sockets
      BY <3>2 DEF EventsManaged, TypeOK, ReceiverTypeOK
    <3> QED
      BY <3>2, <3>3 DEF TypeOK, SharedTypeOK
  <2>2. events' \subseteq Fds \X BOOLEAN
    BY <1>6, <2>1 DEF AwaitData
  <2>3. ReceiverTypeOK'
    BY <1>2, <1>6, <2>2 DEF AwaitData, ReceiverTypeOK
  <2> QED
    BY <1>2, <1>6, <2>3 DEF AwaitData, StreamsTypeOK
<1>7. CASE SelectReadable
  <2>1. \A c \in Behind(collected) : fd[c] \in Fds /\ hungup[c] \in BOOLEAN
    BY DEF Behind, Holder, TypeOK, SharedTypeOK, ReceiverTypeOK
  <2>2. events' \subseteq Fds \X BOOLEAN
    BY <1>7, <2>1 DEF SelectReadable
  <2>3. ReceiverTypeOK'
    BY <1>2, <1>7, <2>2 DEF SelectReadable, ReceiverTypeOK
  <2> QED
    BY <1>2, <1>7, <2>3 DEF SelectReadable, sharedVars, streams, StreamsTypeOK
<1>8. ASSUME NEW e \in events, Handle(e) \/ Recv(e)
      PROVE  StreamsTypeOK' /\ ReceiverTypeOK'
  <2>1. \/ UNCHANGED <<unread, heard>>
        \/ \E c \in Clients :
             /\ unread' = [unread EXCEPT ![c] = IF @ > Buffer THEN @ - Buffer ELSE 0]
             /\ \E t \in SUBSET {p[2] : p \in managed} :
                  heard' = [heard EXCEPT ![c] = @ \cup t]
    <3>1. CASE Handle(e)
      <4>1. PICK c \in Clients :
              /\ unread' = [unread EXCEPT ![c] = IF @ > Buffer THEN @ - Buffer ELSE 0]
              /\ heard' = [heard EXCEPT ![c] = IF unread[c] = 0 THEN @ ELSE
                                    @ \cup {p[2] : p \in {q \in managed : q[1] = e[1]}}]
        BY <3>1 DEF Handle, Holder
      <4> DEFINE t == IF unread[c] = 0 THEN {} ELSE {p[2] : p \in {q \in managed : q[1] = e[1]}}
      <4>2. t \in SUBSET {p[2] : p \in managed} /\ heard' = [heard EXCEPT ![c] = @ \cup t]
        BY <1>2, <4>1 DEF ReceiverTypeOK
      <4> QED
        BY <4>1, <4>2
    <3>2. CASE Recv(e)
      <4>1. CASE UNCHANGED <<unread, heard>>
        BY <4>1
      <4>2. CASE \E c \in Holder(e[1]), p \in managed :
              /\ unread' = [unread EXCEPT ![c] = IF @ > Buffer THEN @ - Buffer ELSE 0]
              /\ heard' = [heard EXCEPT ![c] = IF unread[c] = 0 THEN @ ELSE @ \cup {p[2]}]
        <5>1. PICK c \in Clients, p \in managed :
              /\ unread' = [unread EXCEPT ![c] = IF @ > Buffer THEN @ - Buffer ELSE 0]
              /\ heard' = [heard EXCEPT ![c] = IF unread[c] = 0 THEN @ ELSE @ \cup {p[2]}]
          BY <4>2 DEF Holder
        <5> DEFINE t == IF unread[c] = 0 THEN {} ELSE {p[2]}
        <5>2. t \in SUBSET {q[2] : q \in managed} /\ heard' = [heard EXCEPT ![c] = @ \cup t]
          BY <1>2, <5>1 DEF ReceiverTypeOK
        <5> QED
          BY <5>1, <5>2
      <4> QED
        BY <3>2, <4>1, <4>2 DEF Recv
    <3> QED
      BY <1>8, <3>1, <3>2
  <2>2. unread' \in [Clients -> 0..MaxUnread]
    BY <1>2, <2>1, BufferAssumption DEF StreamsTypeOK
  <2>3. heard' \in [Clients -> SUBSET Sockets]
    <3>1. {p[2] : p \in managed} \subseteq Sockets
      BY <1>2 DEF ReceiverTypeOK
    <3> QED
      BY <1>2, <2>1, <3>1 DEF ReceiverTypeOK
  <2>4. /\ events' \subseteq events /\ dropped' \subseteq dropped \cup {e[1]}
        /\ UNCHANGED <<polled, edge, rx, todo, collected, managed>>
    BY <1>8 DEF Handle, Recv
  <2>5. e[1] \in Fds
    BY <1>2 DEF ReceiverTypeOK
  <2> QED
    BY <1>2, <2>2, <2>3, <2>4, <2>5 DEF StreamsTypeOK, ReceiverTypeOK
<1>9. ASSUME NEW n \in dropped, Purge(n)
      PROVE  StreamsTypeOK' /\ ReceiverTypeOK'
  BY <1>2, <1>9 DEF Purge, streams, StreamsTypeOK, ReceiverTypeOK
<1> QED
  BY <1>3, <1>4, <1>5, <1>6, <1>7, <1>8, <1>9 DEF Receiver, On, ReceiverLoop,
     ReceiverLoopWindows

LEMMA TypesNext ==
  ASSUME Inv, [Next]_vars
  PROVE  TypeOK'
<1>1. RestTypeOK'
  <2>1. CASE UNCHANGED vars
    BY <2>1 DEF vars, sharedVars, streams, connectorVars, receiverVars, transmitterVars, Inv,
       TypeOK, SharedTypeOK, RestTypeOK, StreamsTypeOK, ConnectorTypeOK, ReceiverTypeOK,
       TransmitterTypeOK
  <2>2. CASE Next
    BY <2>2, TypesConnector, TypesReceiver, TypesTransmitter, TypesControl, TypesClients
       DEF Next, Inv
  <2> QED
    BY <2>1, <2>2
<1>2. WiringInv'
  BY WiringNext
<1>3. (WiringInv /\ RestTypeOK => TypeOK)'
  BY TypesJoin, PTL
<1> QED
  BY <1>1, <1>2, <1>3

-----------------------------------------------------------------------------
(* The receiver. *)

\* A connection keeps its descriptor, and a client that hung up stays so, until
\* the connector is stopped or, on Windows, the transmitter closes it.
LEMMA DescriptorsKept ==
  ASSUME Inv, [Next]_vars, ~Cuts, ~(Stop /\ Resting)
  PROVE  \A c \in Clients : /\ fd[c] # None => fd'[c] = fd[c] /\ sock'[c] = sock[c]
                            /\ hungup[c] => hungup'[c]
<1> SUFFICES ASSUME NEW c \in Clients
             PROVE  /\ fd[c] # None => fd'[c] = fd[c] /\ sock'[c] = sock[c]
                    /\ hungup[c] => hungup'[c]
  OBVIOUS
<1>1. WiringInv /\ Wired
  BY WiringTyped, AllWired
<1>2. CASE UNCHANGED Wiring \/ Delists \/ Opens \/ AwaitConnections \/ SelectListening
  BY <1>2 DEF Wiring, Delists, Opens, AwaitConnections, SelectListening, conns, sharedVars,
     streams
<1>3. CASE HangsUp
  <2>1. \A d \in Clients : hungup[d] => hungup'[d]
    BY <1>1, <1>3 DEF HangsUp, WiringInv, WiringTypeOK
  <2> QED
    BY <1>3, <2>1 DEF HangsUp, conns
<1>4. ASSUME NEW s \in Sockets, Accept(s) \/ AcceptAndClose(s), fd[c] # None
      PROVE  fd'[c] = fd[c]
  <2>1. c # Head(backlog[s])
    <3>1. s \in accepting
      BY <1>4 DEF Accept, AcceptAndClose
    <3>2. Head(backlog[s]) = backlog[s][1] /\ 1 \in DOMAIN backlog[s]
      BY <1>1, <3>1 DEF WiringInv, WiringTypeOK, ConnInv, EventsBacked
    <3>3. phase[Head(backlog[s])] = "pending"
      BY <1>1, <3>2 DEF WiringInv, ConnInv, Waiting
    <3> QED
      BY <1>1, <1>4, <3>3 DEF WiringInv, ConnInv, Connections
  <2> QED
    BY <1>1, <1>4, <2>1 DEF Accept, AcceptAndClose, WiringInv, WiringTypeOK
<1>5. CASE \E s \in Sockets : Accept(s) \/ AcceptAndClose(s)
  BY <1>4, <1>5 DEF Accept, AcceptAndClose, streams
<1>6. CASE \E d \in Clients, s \in Sockets : Connect(d, s)
  <2>1. PICK d \in Clients, s \in Sockets : Connect(d, s)
    BY <1>6
  <2>2. fd[d] = None
    BY <1>1, <2>1 DEF Connect, WiringInv, ConnInv, Connections
  <2>3. c # d => sock'[c] = sock[c]
    BY <1>1, <2>1 DEF Connect, WiringInv, WiringTypeOK
  <2> QED
    BY <2>1, <2>2, <2>3 DEF Connect, streams
<1> QED
  BY <1>1, <1>2, <1>3, <1>5, <1>6 DEF Wired

\* The other threads leave the receiver's members alone; only Stop touches its
\* epoll set, because a closed descriptor leaves it.
LEMMA EpollKept ==
  ASSUME Connector \/ Transmitter \/ Control \/ ClientSteps
  PROVE  UNCHANGED receiverVars /\ ((Stop /\ Resting) \/ UNCHANGED polled)
<1>1. CASE Connector
  BY <1>1 DEF Connector, On, ConnectorLoop, ConnectorLoopWindows, AwaitConnections, Accept,
     SelectListening, AcceptAndClose, sharedVars, streams
<1>2. CASE Transmitter
  BY <1>2 DEF Transmitter, On, TransmitterLoop, TransmitterLoopWindows, Take, Written, Write,
     SendToClient, sharedVars, streams
<1>3. CASE Control
  BY <1>3 DEF Control, On, StartWindows, Start, StartFails, StartFailsWindows, SendData,
     sharedVars, streams
<1>4. CASE ClientSteps
  BY <1>4 DEF ClientSteps, ClientNext, ClientWrites, HangUp, Connect, streams
<1> QED
  BY <1>1, <1>2, <1>3, <1>4

LEMMA ServesKept ==
  ASSUME NEW n, NEW s, Serves(n, s), n # None,
         \A c \in Clients : fd[c] # None => fd'[c] = fd[c] /\ sock'[c] = sock[c]
  PROVE  Serves(n, s)'
BY DEF Serves

LEMMA ReceiverOthers ==
  ASSUME Inv, [Next]_vars, UNCHANGED receiverVars, (Stop /\ Resting) \/ UNCHANGED polled
  PROVE  ReceiverInv' /\ EventsManaged'
<1>1. /\ UNCHANGED <<rx, todo, collected, managed, events, dropped, platform>>
      /\ collected \subseteq Fds \X Sockets /\ managed \subseteq Fds \X Sockets
      /\ events \subseteq Fds \X BOOLEAN /\ dropped \subseteq Fds
      /\ polled \subseteq Clients /\ platform \in {"unix", "windows"}
  BY AllWired, PlatformsAssumption DEF receiverVars, Inv, TypeOK, SharedTypeOK, ReceiverTypeOK
<1>2. CASE Stop /\ Resting
  <2>1. polled' \subseteq polled
    BY <1>2 DEF Stop, closeSockets
  <2>2. \A c \in polled' : fd'[c] = fd[c] /\ sock'[c] = sock[c]
    BY <1>1, <1>2 DEF Stop, closeSockets
  <2>3. EventsManaged'
    BY <1>1, <2>1, <2>2 DEF Inv, EventsManaged
  <2>4. platform = "unix" => collected = {} /\ events = {} /\ dropped = {} /\ rx = "collect"
    <3> SUFFICES ASSUME platform = "unix"
                 PROVE  collected = {} /\ events = {} /\ dropped = {} /\ rx = "collect"
      OBVIOUS
    <3>1. rx = "collect" /\ todo = Sockets
      BY <1>2 DEF Resting
    <3>2. ReceiverUnix
      BY DEF Inv, ReceiverInv
    <3> QED
      BY <1>1, <3>1, <3>2 DEF ReceiverUnix
  <2>5. ReceiverInv'
    BY <1>1, <2>1, <2>4 DEF Inv, ReceiverInv, ReceiverUnix, ReceiverWindows
  <2> QED
    BY <2>3, <2>5
<1>3. CASE platform = "unix" /\ ~(Stop /\ Resting)
  <2>1. \A c \in Clients : /\ fd[c] # None => fd'[c] = fd[c] /\ sock'[c] = sock[c]
                           /\ hungup[c] => hungup'[c]
    BY <1>3, DescriptorsKept DEF Cuts
  <2>2. ReceiverUnix
    BY <1>3 DEF Inv, ReceiverInv
  <2>3. \A q \in collected' : q[2] \notin todo' /\ Serves(q[1], q[2])'
    <3>1. \A q \in collected : q[1] # None
      BY <1>1, NoneAssumption
    <3> QED
      BY <1>1, <2>1, <2>2, <3>1, ServesKept DEF ReceiverUnix
  <2>4. \A e \in events' : \E c \in Clients : fd'[c] = e[1] /\ (e[2] => hungup'[c])
    <3>1. \A e \in events : e[1] # None
      BY <1>1, NoneAssumption
    <3> QED
      BY <1>1, <2>1, <2>2, <3>1 DEF ReceiverUnix
  <2>5. \A n \in dropped' : \E c \in Clients : fd'[c] = n /\ hungup'[c]
    <3>1. \A n \in dropped : n # None
      BY <1>1, NoneAssumption
    <3> QED
      BY <1>1, <2>1, <2>2, <3>1 DEF ReceiverUnix
  <2>6. ReceiverInv'
    BY <1>1, <1>3, <2>2, <2>3, <2>4, <2>5 DEF ReceiverInv, ReceiverUnix
  <2>7. EventsManaged'
    <3>1. \A c \in polled : c \in Clients /\ fd[c] # None
      BY <1>1, NoneAssumption DEF Inv, EventsManaged
    <3> QED
      BY <1>1, <1>3, <2>1, <3>1 DEF Inv, EventsManaged
  <2> QED
    BY <2>6, <2>7
<1>4. CASE platform = "windows" /\ ~(Stop /\ Resting)
  BY <1>1, <1>4 DEF Inv, ReceiverInv, ReceiverWindows, EventsManaged
<1> QED
  BY <1>1, <1>2, <1>3, <1>4

\* A pair that is collected, and a connection behind its descriptor, agree.
LEMMA CollectedTrue ==
  ASSUME Inv, platform = "unix", NEW q \in collected, NEW c \in Holder(q[1])
  PROVE  q = <<fd[c], sock[c]>> /\ c \in Clients
<1>1. q \in Fds \X Sockets /\ q[1] # None
  BY NoneAssumption DEF Inv, TypeOK, ReceiverTypeOK
<1>2. PICK d \in Clients : fd[d] = q[1] /\ sock[d] = q[2]
  BY DEF Inv, ReceiverInv, ReceiverUnix, Serves
<1>3. c = d
  BY <1>1, <1>2 DEF Holder, Inv, ConnInv, Connections
<1> QED
  BY <1>1, <1>2, <1>3

\* What ValidateEPoll keeps and what it adds is in the new managed set.
LEMMA ValidateManages ==
  ASSUME Inv, platform = "unix", ValidateEPoll
  PROVE  EventsManaged'
<1>1. managed' = collected /\ UNCHANGED <<fd, sock>>
  BY DEF ValidateEPoll, conns
<1>2. polled' = (polled \ Behind(managed \ collected))
                  \cup (Behind(collected \ managed) \ (polled \ Behind(managed \ collected)))
  BY DEF ValidateEPoll
<1> SUFFICES ASSUME NEW c \in polled' PROVE <<fd[c], sock[c]>> \in collected
  BY <1>1 DEF EventsManaged
<1>3. CASE c \in polled \ Behind(managed \ collected)
  <2>1. <<fd[c], sock[c]>> \in managed /\ c \in Clients
    BY <1>3 DEF Inv, EventsManaged, TypeOK, SharedTypeOK
  <2>2. c \in Holder(<<fd[c], sock[c]>>[1])
    BY <2>1 DEF Holder
  <2> QED
    BY <1>3, <2>1, <2>2 DEF Behind
<1>4. CASE c \in Behind(collected \ managed)
  <2>1. PICK q \in collected : c \in Holder(q[1])
    BY <1>4 DEF Behind
  <2> QED
    BY <2>1, CollectedTrue
<1> QED
  BY <1>2, <1>3, <1>4

LEMMA ReceiverOwn ==
  ASSUME Inv, Receiver
  PROVE  ReceiverInv' /\ EventsManaged'
<1>1. UNCHANGED <<sock, fd, hungup, platform>>
  BY DEF Receiver, On, ReceiverLoop, ReceiverLoopWindows, Collect, ValidateEPoll, AwaitData,
     NextTurn, SelectReadable, Handle, Recv, Purge, sharedVars, conns, streams
<1>2. CASE platform = "windows"
  <2>1. ReceiverLoopWindows
    BY <1>2 DEF Receiver, On
  <2>2. UNCHANGED <<polled, dropped>>
    BY <2>1 DEF ReceiverLoopWindows, Collect, SelectReadable, NextTurn, Recv, sharedVars, streams
  <2>3. polled = {} /\ dropped = {}
    BY <1>2 DEF Inv, ReceiverInv, ReceiverWindows
  <2> QED
    BY <1>1, <1>2, <2>2, <2>3 DEF ReceiverInv, ReceiverWindows, EventsManaged
<1>3. CASE platform = "unix"
  <2>1. ReceiverLoop /\ ReceiverUnix
    BY <1>3 DEF Receiver, On, Inv, ReceiverInv
  <2>2. \A n, s : Serves(n, s)' <=> Serves(n, s)
    BY <1>1 DEF Serves
  <2> SUFFICES ReceiverUnix' /\ EventsManaged'
    BY <1>1, <1>3 DEF ReceiverInv
  <2>3. ASSUME NEW s \in Sockets, Collect(s)
        PROVE  ReceiverUnix' /\ EventsManaged'
    <3>1. /\ rx = "collect" /\ todo' = todo \ {s}
          /\ collected' = collected \cup (clients[s] \X {s})
          /\ UNCHANGED <<polled, rx, managed, events, dropped>>
      BY <2>3 DEF Collect, sharedVars, streams
    <3>2. \A q \in collected' : q[2] \notin todo' /\ Serves(q[1], q[2])
      <4>1. \A n \in clients[s] : Serves(n, s)
        BY DEF Inv, ConnInv, Listed
      <4> QED
        BY <2>1, <3>1, <4>1 DEF ReceiverUnix
    <3>3. ReceiverUnix'
      BY <1>1, <2>1, <2>2, <3>1, <3>2 DEF ReceiverUnix
    <3> QED
      BY <1>1, <3>1, <3>3 DEF Inv, EventsManaged
  <2>4. CASE ValidateEPoll
    <3>1. ReceiverUnix'
      BY <1>1, <2>1, <2>2, <2>4 DEF ValidateEPoll, ReceiverUnix
    <3> QED
      BY <1>3, <2>4, <3>1, ValidateManages
  <2>5. CASE AwaitData
    <3>1. /\ rx = "wait" /\ rx' = "handle"
          /\ events' = {<<fd[c], hungup[c]>> : c \in {d \in edge : unread[d] > 0 \/ hungup[d]}}
          /\ UNCHANGED <<polled, todo, collected, managed, dropped>>
      BY <2>5 DEF AwaitData
    <3>2. \A e \in events' : \E c \in Clients : fd[c] = e[1] /\ (e[2] => hungup[c])
      <4>1. \A c \in edge : c \in Clients
        BY DEF Inv, TypeOK, SharedTypeOK
      <4> QED
        BY <3>1, <4>1
    <3>3. ReceiverUnix'
      BY <1>1, <2>1, <2>2, <3>1, <3>2 DEF ReceiverUnix
    <3> QED
      BY <1>1, <3>1, <3>3 DEF Inv, EventsManaged
  <2>6. CASE NextTurn
    <3>1. ReceiverUnix'
      BY <2>1, <2>6 DEF NextTurn, ReceiverUnix
    <3> QED
      BY <1>1, <2>6, <3>1 DEF NextTurn, sharedVars, streams, Inv, EventsManaged
  <2>7. ASSUME NEW e \in events, Handle(e)
        PROVE  ReceiverUnix' /\ EventsManaged'
    <3>1. /\ rx = "handle" /\ events' = events \ {e}
          /\ dropped' = (IF e[2] THEN dropped \cup {e[1]} ELSE dropped)
          /\ UNCHANGED <<polled, rx, todo, collected, managed>>
      BY <2>7 DEF Handle
    <3>2. \A n \in dropped' : \E c \in Clients : fd[c] = n /\ hungup[c]
      BY <2>1, <3>1 DEF ReceiverUnix
    <3>3. ReceiverUnix'
      BY <1>1, <2>1, <2>2, <3>1, <3>2 DEF ReceiverUnix
    <3> QED
      BY <1>1, <3>1, <3>3 DEF Inv, EventsManaged
  <2>8. ASSUME NEW n \in dropped, Purge(n)
        PROVE  ReceiverUnix' /\ EventsManaged'
    <3>1. /\ rx = "handle" /\ dropped' = dropped \ {n}
          /\ UNCHANGED <<polled, rx, todo, collected, managed, events>>
      BY <2>8 DEF Purge, streams
    <3>2. ReceiverUnix'
      BY <1>1, <2>1, <2>2, <3>1 DEF ReceiverUnix
    <3> QED
      BY <1>1, <3>1, <3>2 DEF Inv, EventsManaged
  <2> QED
    BY <2>1, <2>3, <2>4, <2>5, <2>6, <2>7, <2>8 DEF ReceiverLoop
<1> QED
  BY <1>2, <1>3 DEF Receiver, On

LEMMA ReceiverNext ==
  ASSUME Inv, [Next]_vars
  PROVE  ReceiverInv' /\ EventsManaged'
<1>1. CASE UNCHANGED vars
  BY <1>1, ReceiverOthers DEF vars, sharedVars, streams
<1>2. CASE Receiver
  BY <1>2, ReceiverOwn
<1>3. CASE Connector \/ Transmitter \/ Control \/ ClientSteps
  BY <1>3, EpollKept, ReceiverOthers
<1> QED
  BY <1>1, <1>2, <1>3 DEF Next

-----------------------------------------------------------------------------
(* The transmitter. *)

\* Who is served and connected after a step was so before, at the same socket
\* and with the same descriptor, or was accepted; nobody goes back to waiting.
LEMMA PhaseSteps ==
  ASSUME Inv, [Next]_vars, NEW c \in Clients
  PROVE  /\ phase'[c] = "served" /\ ~hungup'[c] =>
              \/ phase[c] = "pending"
              \/ phase[c] = "served" /\ ~hungup[c] /\ fd'[c] = fd[c]
         /\ phase'[c] \in {"new", "pending"} => phase[c] \in {"new", "pending"}
         /\ phase'[c] = "new" => phase[c] = "new"
         /\ phase[c] # "new" => sock'[c] = sock[c]
<1>1. WiringInv /\ Wired
  BY WiringTyped, AllWired
<1>2. CASE \/ UNCHANGED Wiring \/ Delists \/ Opens \/ AwaitConnections \/ SelectListening
  BY <1>2 DEF Wiring, Delists, Opens, AwaitConnections, SelectListening, conns, sharedVars,
     streams
<1>3. CASE HangsUp
  <2>1. ~hungup'[c] => ~hungup[c]
    BY <1>1, <1>3 DEF HangsUp, WiringInv, WiringTypeOK
  <2> QED
    BY <1>3, <2>1 DEF HangsUp, conns
<1>4. CASE \E s \in Sockets : Accept(s) \/ AcceptAndClose(s)
  <2>1. PICK s \in Sockets : Accept(s) \/ AcceptAndClose(s)
    BY <1>4
  <2>2. UNCHANGED <<sock, hungup>>
    BY <2>1 DEF Accept, AcceptAndClose, streams
  <2>3. s \in accepting
    BY <2>1 DEF Accept, AcceptAndClose
  <2>4. Head(backlog[s]) = backlog[s][1] /\ 1 \in DOMAIN backlog[s]
    BY <1>1, <2>3 DEF WiringInv, WiringTypeOK, ConnInv, EventsBacked
  <2>5. phase[Head(backlog[s])] = "pending"
    BY <1>1, <2>4 DEF WiringInv, ConnInv, Waiting
  <2>6. CASE c = Head(backlog[s])
    <3>1. phase'[c] \in {"served", "shut", phase[c]}
      BY <1>1, <2>1, <2>6 DEF Accept, AcceptAndClose, WiringInv, WiringTypeOK
    <3> QED
      BY <2>2, <2>5, <2>6, <3>1
  <2>7. CASE c # Head(backlog[s])
    <3>1. phase'[c] = phase[c] /\ fd'[c] = fd[c]
      BY <1>1, <2>1, <2>7 DEF Accept, AcceptAndClose, WiringInv, WiringTypeOK
    <3> QED
      BY <2>2, <3>1
  <2> QED
    BY <2>6, <2>7
<1>5. CASE \E d \in Clients, s \in Sockets : Connect(d, s)
  <2>1. PICK d \in Clients, s \in Sockets : Connect(d, s)
    BY <1>5
  <2>2. phase[d] = "new" /\ phase'[d] = "pending" /\ UNCHANGED <<fd, hungup>>
    BY <1>1, <2>1 DEF Connect, streams, WiringInv, WiringTypeOK
  <2>3. c # d => sock'[c] = sock[c] /\ phase'[c] = phase[c]
    BY <1>1, <2>1 DEF Connect, WiringInv, WiringTypeOK
  <2> QED
    BY <2>2, <2>3
<1>6. CASE Stop
  BY <1>6 DEF Stop, closeSockets
<1>7. CASE Cuts
  <2>1. PICK d \in Clients : phase' = [phase EXCEPT ![d] = "shut"] /\ fd' = [fd EXCEPT ![d] = None]
    BY <1>7 DEF Cuts, CutOff
  <2>2. phase'[d] = "shut" /\ (c # d => phase'[c] = phase[c] /\ fd'[c] = fd[c])
    BY <1>1, <2>1 DEF WiringInv, WiringTypeOK
  <2> QED
    BY <1>7, <2>2 DEF Cuts
<1> QED
  BY <1>1, <1>2, <1>3, <1>4, <1>5, <1>6, <1>7 DEF Wired

\* A client that has received something keeps its socket.
LEMMA SocketKept ==
  ASSUME Inv, [Next]_vars, NEW c \in Clients, got[c] # <<>>
  PROVE  sock'[c] = sock[c]
BY PhaseSteps DEF Inv, TransmitterInv, Unserved

LEMMA TransmitterOthers ==
  ASSUME Inv, [Next]_vars, UNCHANGED transmitterVars
  PROVE  TransmitterInv'
<1>1. UNCHANGED <<queue, sending, sends, got>>
  BY DEF transmitterVars
<1>2. \A s, k : Taken(s, k)' <=> Taken(s, k)
  BY <1>1 DEF Taken, Queued
<1>3. QueueOrder'
  BY <1>1 DEF Inv, TransmitterInv, QueueOrder, Queued
<1>4. SendingInv'
  <2> SUFFICES ASSUME sending # <<>>, NEW n \in sending[2]
               PROVE  Serves(n, sending[1][1])'
    BY <1>1, <1>2 DEF Inv, TransmitterInv, SendingInv
  <2>1. Serves(n, sending[1][1])
    BY DEF Inv, TransmitterInv, SendingInv
  <2>2. n # None
    BY NoneAssumption DEF Inv, TypeOK, TransmitterTypeOK
  <2>3. ~Cuts /\ ~(Stop /\ Resting)
    <3>1. ~(Stop /\ Resting)
      BY DEF Resting
    <3>2. ~Cuts
      <4>1. sending[2] \subseteq Fds
        BY DEF Inv, TypeOK, TransmitterTypeOK
      <4> QED
        BY <1>1, <4>1 DEF Cuts
    <3> QED
      BY <3>1, <3>2
  <2>4. \A c \in Clients : fd[c] # None => fd'[c] = fd[c] /\ sock'[c] = sock[c]
    BY <2>3, DescriptorsKept
  <2> QED
    BY <1>1, <2>1, <2>2, <2>4 DEF Serves
<1>5. UpToDate'
  <2> SUFFICES ASSUME NEW c \in Clients, phase'[c] = "served", ~hungup'[c], got[c] # <<>>
               PROVE  IF Due(c)' THEN sending[1][2] = Latest(c) + 1
                                 ELSE Taken(sock'[c], Latest(c))
    BY <1>1, <1>2 DEF UpToDate, Latest
  <2>1. phase[c] = "served" /\ ~hungup[c] /\ fd'[c] = fd[c] /\ sock'[c] = sock[c]
    BY PhaseSteps DEF Inv, TransmitterInv, Unserved
  <2>2. Due(c)' <=> Due(c)
    BY <1>1, <2>1 DEF Due
  <2> QED
    BY <2>1, <2>2 DEF Inv, TransmitterInv, UpToDate
<1>6. Unserved'
  BY <1>1, PhaseSteps DEF Inv, TransmitterInv, Unserved
<1>7. InOrder'
  <2> SUFFICES ASSUME NEW c \in Clients, NEW i \in 1..Len(got[c])
               PROVE  got[c][i] = <<sock'[c], got[c][1][2] + i - 1>>
    BY <1>1 DEF InOrder
  <2>1. got[c] # <<>>
    BY DEF Inv, TypeOK, TransmitterTypeOK
  <2>2. sock'[c] = sock[c]
    BY <2>1, SocketKept
  <2> QED
    BY <2>2 DEF Inv, TransmitterInv, InOrder
<1> QED
  BY <1>3, <1>4, <1>5, <1>6, <1>7 DEF TransmitterInv

\* Entries are numbered.
LEMMA LatestNumber ==
  ASSUME Inv, NEW c \in Clients, got[c] # <<>>
  PROVE  Latest(c) \in Nat
<1>1. got[c] \in Seq(Entries) /\ Len(got[c]) \in 1..Len(got[c])
  BY DEF Inv, TypeOK, TransmitterTypeOK
<1>2. got[c][Len(got[c])] \in Sockets \X (1..MaxSends)
  BY <1>1 DEF Entries
<1> QED
  BY <1>2 DEF Latest

\* sendData numbers the entries of a socket and puts them at the end.
LEMMA SendDataKeeps ==
  ASSUME Inv, NEW s \in Sockets, SendData(s)
  PROVE  TransmitterInv'
<1> DEFINE m == sends[s] + 1
<1>1. /\ queue' = Append(queue, <<s, m>>)
      /\ sends' = [sends EXCEPT ![s] = m]
      /\ UNCHANGED <<sock, phase, fd, hungup, sending, got>>
  BY DEF SendData, sharedVars, conns, streams
<1>2. /\ queue \in Seq(Entries) /\ sends \in [Sockets -> 0..MaxSends]
      /\ m \in 1..MaxSends
  BY MaxSendsAssumption DEF SendData, Inv, TypeOK, TransmitterTypeOK
<1>3. /\ sends'[s] = m
      /\ \A t \in Sockets \ {s} : sends'[t] = sends[t]
      /\ \A t \in Sockets : sends[t] \in Nat /\ sends'[t] \in Nat /\ sends[t] <= sends'[t]
  BY <1>1, <1>2
<1>4. /\ DOMAIN queue' = 1..(Len(queue) + 1) /\ DOMAIN queue = 1..Len(queue)
      /\ Len(queue) \in Nat
      /\ queue'[Len(queue) + 1] = <<s, m>>
      /\ \A i \in DOMAIN queue : queue'[i] = queue[i]
  BY <1>1, <1>2
<1>5. \A i \in DOMAIN queue : queue[i][1] \in Sockets /\ queue[i][2] \in 1..MaxSends
  BY <1>2 DEF Entries
<1> HIDE DEF m
<1>6. \A t, k : Queued(t, k)' <=> Queued(t, k) \/ (t = s /\ k = m)
  <2> SUFFICES ASSUME NEW t, NEW k
               PROVE  (\E i \in DOMAIN queue' : queue'[i] = <<t, k>>)
                        <=> (\E i \in DOMAIN queue : queue[i] = <<t, k>>) \/ (t = s /\ k = m)
    BY DEF Queued
  <2>1. Len(queue) + 1 \in DOMAIN queue'
    BY <1>4
  <2>2. \A i \in DOMAIN queue : i \in DOMAIN queue'
    BY <1>4
  <2>3. \A i \in DOMAIN queue' : i \in DOMAIN queue \/ i = Len(queue) + 1
    BY <1>4
  <2>4. <<s, m>> = <<t, k>> <=> t = s /\ k = m
    OBVIOUS
  <2> QED
    BY <1>4, <2>1, <2>2, <2>3, <2>4
<1>7. QueueOrder'
  <2>1. \A i \in DOMAIN queue' : queue'[i][2] <= sends'[queue'[i][1]]
    <3>1. \A i \in DOMAIN queue : queue'[i][2] <= sends'[queue'[i][1]]
      BY <1>3, <1>4, <1>5 DEF Inv, TransmitterInv, QueueOrder
    <3>2. queue'[Len(queue) + 1][2] <= sends'[queue'[Len(queue) + 1][1]]
      BY <1>2, <1>3, <1>4
    <3> QED
      BY <1>4, <3>1, <3>2
  <2>2. \A i, j \in DOMAIN queue' : i < j /\ queue'[i][1] = queue'[j][1]
          => queue'[i][2] < queue'[j][2]
    <3> SUFFICES ASSUME NEW i \in DOMAIN queue', NEW j \in DOMAIN queue', i < j,
                        queue'[i][1] = queue'[j][1]
                 PROVE  queue'[i][2] < queue'[j][2]
      OBVIOUS
    <3>1. i \in DOMAIN queue
      BY <1>4
    <3>2. CASE j \in DOMAIN queue
      BY <1>4, <3>1, <3>2 DEF Inv, TransmitterInv, QueueOrder
    <3>3. CASE j = Len(queue) + 1
      <4>1. queue[i][1] = s /\ queue'[j][2] = m
        BY <1>4, <3>1, <3>3
      <4>2. queue[i][2] <= sends[s]
        BY <3>1, <4>1 DEF Inv, TransmitterInv, QueueOrder
      <4> QED
        BY <1>2, <1>4, <1>5, <3>1, <4>1, <4>2 DEF m
    <3> QED
      BY <1>4, <3>2, <3>3
  <2>3. ASSUME NEW i \in DOMAIN queue', NEW k \in 1..MaxSends,
               queue'[i][2] <= k, k <= sends'[queue'[i][1]]
        PROVE  Queued(queue[i][1], k)'
    <3>1. CASE i \in DOMAIN queue
      <4>1. queue'[i] = queue[i] /\ queue[i][1] \in Sockets
        BY <1>4, <1>5, <3>1
      <4>2. CASE k <= sends[queue[i][1]]
        <5>1. Queued(queue[i][1], k)
          BY <2>3, <3>1, <4>1, <4>2 DEF Inv, TransmitterInv, QueueOrder
        <5> QED
          BY <1>6, <4>1, <5>1
      <4>3. CASE ~(k <= sends[queue[i][1]])
        <5>1. queue[i][1] = s /\ k = m
          BY <1>2, <1>3, <2>3, <4>1, <4>3 DEF m
        <5> QED
          BY <1>6, <4>1, <5>1
      <4> QED
        BY <4>2, <4>3
    <3>2. CASE i = Len(queue) + 1
      <4>1. queue'[i][1] = s /\ k = m
        BY <1>2, <1>3, <1>4, <2>3, <3>2
      <4> QED
        BY <1>6, <4>1
    <3> QED
      BY <1>4, <3>1, <3>2
  <2> QED
    BY <2>1, <2>2, <2>3 DEF QueueOrder
<1>8. ASSUME NEW t \in Sockets, NEW k \in Nat, Taken(t, k)
      PROVE  Taken(t, k)'
  <2>1. k <= sends'[t]
    BY <1>3, <1>8 DEF Taken
  <2>2. ASSUME NEW j \in 1..MaxSends
        PROVE  Queued(t, j)' <=> k < j /\ j <= sends'[t]
    <3>1. Queued(t, j) <=> k < j /\ j <= sends[t]
      BY <1>8 DEF Taken
    <3>2. CASE t = s
      <4>1. k < m /\ (j <= sends'[t] <=> j <= sends[t] \/ j = m)
        BY <1>2, <1>3, <1>8, <3>2 DEF Taken, m
      <4> QED
        BY <1>6, <3>1, <3>2, <4>1
    <3>3. CASE t # s
      BY <1>3, <1>6, <3>1, <3>3
    <3> QED
      BY <3>2, <3>3
  <2> QED
    BY <2>1, <2>2 DEF Taken
<1>9. SendingInv'
  <2> SUFFICES ASSUME sending # <<>>
               PROVE  /\ Taken(sending[1][1], sending[1][2])'
                      /\ \A n \in sending[2] : Serves(n, sending[1][1])'
    BY <1>1 DEF SendingInv
  <2>1. sending[1][1] \in Sockets /\ sending[1][2] \in Nat
    BY DEF Inv, TypeOK, TransmitterTypeOK, Entries
  <2>2. Taken(sending[1][1], sending[1][2])'
    BY <1>1, <1>8, <2>1 DEF Inv, TransmitterInv, SendingInv
  <2>3. \A n \in sending[2] : Serves(n, sending[1][1])'
    BY <1>1 DEF Inv, TransmitterInv, SendingInv, Serves
  <2> QED
    BY <2>2, <2>3
<1>10. UpToDate'
  <2> SUFFICES ASSUME NEW c \in Clients, phase[c] = "served", ~hungup[c], got[c] # <<>>
               PROVE  IF Due(c) THEN sending[1][2] = Latest(c) + 1
                                ELSE Taken(sock[c], Latest(c))'
    BY <1>1 DEF UpToDate, Due, Latest
  <2>1. sock[c] \in Sockets
    BY DEF Inv, ConnInv, Connections
  <2>2. Latest(c) \in Nat /\ UNCHANGED <<sock, got>>
    BY <1>1, LatestNumber
  <2>3. ~Due(c) => Taken(sock[c], Latest(c))
    BY DEF Inv, TransmitterInv, UpToDate
  <2>4. ~Due(c) => Taken(sock[c], Latest(c))'
    BY <1>8, <2>1, <2>2, <2>3 DEF Latest
  <2> QED
    BY <2>4 DEF Inv, TransmitterInv, UpToDate
<1>11. Unserved' /\ InOrder'
  BY <1>1 DEF Inv, TransmitterInv, Unserved, InOrder
<1> QED
  BY <1>7, <1>9, <1>10, <1>11 DEF TransmitterInv

\* getHead takes the first entry of its socket that no client there has got.
LEMMA TakeKeeps ==
  ASSUME Inv, [Next]_vars, Take
  PROVE  TransmitterInv'
<1>1. queue \in Seq(Entries) /\ sends \in [Sockets -> 0..MaxSends]
  BY DEF Inv, TypeOK, TransmitterTypeOK
<1>2. PICK s \in Sockets, k \in 1..MaxSends : Head(queue) = <<s, k>>
  <2>1. Head(queue) \in Sockets \X (1..MaxSends)
    BY <1>1 DEF Take, Entries
  <2> QED
    BY <2>1
<1>3. /\ sending = <<>> /\ queue # <<>>
      /\ sending' = <<<<s, k>>, clients[s]>>
      /\ queue' = Tail(queue)
      /\ UNCHANGED <<sock, phase, fd, hungup, sends, got>>
  BY <1>2 DEF Take, sharedVars, conns, streams
<1>4. /\ Head(queue) = queue[1] /\ DOMAIN queue = 1..Len(queue) /\ Len(queue) \in Nat \ {0}
      /\ DOMAIN queue' = 1..(Len(queue) - 1)
      /\ \A i \in 1..(Len(queue) - 1) : queue'[i] = queue[i + 1]
  BY <1>3, <1>1
<1>5. \A i \in DOMAIN queue : queue[i] = <<queue[i][1], queue[i][2]>>
                              /\ queue[i][1] \in Sockets /\ queue[i][2] \in 1..MaxSends
  BY <1>1 DEF Entries
<1>6. 1 \in DOMAIN queue /\ queue[1] = <<s, k>> /\ s \in Sockets /\ k \in 1..MaxSends
  BY <1>2, <1>4
<1>7. /\ \A i \in DOMAIN queue : queue[i][2] <= sends[queue[i][1]]
      /\ \A i, j \in DOMAIN queue : i < j /\ queue[i][1] = queue[j][1] => queue[i][2] < queue[j][2]
      /\ \A i \in DOMAIN queue : \A m \in 1..MaxSends :
           queue[i][2] <= m /\ m <= sends[queue[i][1]] => Queued(queue[i][1], m)
  BY DEF Inv, TransmitterInv, QueueOrder
<1>8. \A t \in Sockets, m \in 1..MaxSends : Queued(t, m)' <=> Queued(t, m) /\ ~(t = s /\ m = k)
  <2> SUFFICES ASSUME NEW t \in Sockets, NEW m \in 1..MaxSends
               PROVE  (\E i \in DOMAIN queue' : queue'[i] = <<t, m>>)
                        <=> (\E i \in DOMAIN queue : queue[i] = <<t, m>>) /\ ~(t = s /\ m = k)
    BY DEF Queued
  <2>1. ASSUME NEW i \in DOMAIN queue', queue'[i] = <<t, m>>
        PROVE  (\E j \in DOMAIN queue : queue[j] = <<t, m>>) /\ ~(t = s /\ m = k)
    <3>1. i + 1 \in DOMAIN queue /\ queue[i + 1] = <<t, m>> /\ 1 < i + 1
      BY <1>4, <2>1
    <3>2. queue[1][1] = s /\ queue[1][2] = k
      BY <1>6
    <3>3. t = s => k < m
      BY <1>6, <1>7, <3>1, <3>2
    <3> QED
      BY <1>6, <3>1, <3>3
  <2>2. ASSUME NEW j \in DOMAIN queue, queue[j] = <<t, m>>, ~(t = s /\ m = k)
        PROVE  \E i \in DOMAIN queue' : queue'[i] = <<t, m>>
    <3>1. j # 1
      BY <1>6, <2>2
    <3>2. j - 1 \in DOMAIN queue' /\ queue'[j - 1] = queue[j]
      BY <1>4, <3>1
    <3> QED
      BY <2>2, <3>2
  <2> QED
    BY <2>1, <2>2
<1>9. QueueOrder'
  <2>1. \A i \in DOMAIN queue' : i + 1 \in DOMAIN queue /\ queue'[i] = queue[i + 1] /\ i \in Nat
    BY <1>4
  <2>2. \A i \in DOMAIN queue' : queue'[i][2] <= sends[queue'[i][1]]
    BY <1>7, <2>1
  <2>3. \A i, j \in DOMAIN queue' : i < j /\ queue'[i][1] = queue'[j][1] => queue'[i][2] < queue'[j][2]
    <3>1. \A i, j \in DOMAIN queue' : i < j => i + 1 < j + 1
      BY <2>1
    <3> QED
      BY <1>7, <2>1, <3>1
  <2>4. ASSUME NEW i \in DOMAIN queue', NEW m \in 1..MaxSends,
               queue'[i][2] <= m, m <= sends[queue'[i][1]]
        PROVE  \E j \in DOMAIN queue' : queue'[j] = <<queue'[i][1], m>>
    <3>1. PICK t \in Sockets : t = queue[i + 1][1] /\ queue'[i][1] = t
                              /\ queue[i + 1][2] <= m /\ m <= sends[t]
      BY <1>5, <2>1, <2>4
    <3>2. Queued(t, m)
      BY <1>7, <2>1, <3>1
    <3>3. t = s => k < m
      <4>1. queue[1][1] = s /\ queue[1][2] = k /\ 1 < i + 1
        BY <1>4, <1>6
      <4>2. t = s => k < queue[i + 1][2]
        BY <1>6, <1>7, <2>1, <3>1, <4>1
      <4>3. queue[i + 1][2] \in Nat
        BY <1>5, <2>1
      <4> QED
        BY <1>6, <3>1, <4>2, <4>3
    <3>4. ~(t = s /\ m = k)
      BY <1>6, <3>3
    <3>5. Queued(t, m)'
      BY <1>8, <3>2, <3>4
    <3> QED
      BY <3>1, <3>5 DEF Queued
  <2> QED
    BY <1>3, <2>2, <2>3, <2>4 DEF QueueOrder, Queued
<1>10. Taken(s, k)'
  <2>1. k <= sends[s]
    BY <1>6, <1>7
  <2>2. ASSUME NEW m \in 1..MaxSends
        PROVE  Queued(s, m)' <=> k < m /\ m <= sends[s]
    <3>1. Queued(s, m)' <=> Queued(s, m) /\ m # k
      BY <1>6, <1>8
    <3>2. k <= m /\ m <= sends[s] => Queued(s, m)
      BY <1>6, <1>7
    <3>3. Queued(s, m) => k <= m /\ m <= sends[s]
      <4> SUFFICES ASSUME NEW i \in DOMAIN queue, queue[i] = <<s, m>>
                   PROVE  k <= m /\ m <= sends[s]
        BY DEF Queued
      <4>1. m <= sends[s]
        BY <1>7
      <4>2. CASE i = 1
        BY <1>6, <4>1, <4>2
      <4>3. CASE 1 < i
        BY <1>6, <1>7, <4>1, <4>3
      <4> QED
        BY <1>4, <4>2, <4>3
    <3> QED
      BY <1>6, <3>1, <3>2, <3>3
  <2> QED
    BY <1>3, <2>1, <2>2 DEF Taken
<1>11. \A t \in Sockets \ {s}, l \in Nat : Taken(t, l) => Taken(t, l)'
  BY <1>3, <1>8 DEF Taken
<1>12. SendingInv'
  BY <1>3, <1>6, <1>10 DEF SendingInv, Serves, Inv, ConnInv, Listed
<1>13. UpToDate'
  <2> SUFFICES ASSUME NEW c \in Clients, phase[c] = "served", ~hungup[c], got[c] # <<>>
               PROVE  IF Due(c)' THEN k = Latest(c) + 1 ELSE Taken(sock[c], Latest(c))'
    BY <1>3 DEF UpToDate, Latest
  <2>1. Taken(sock[c], Latest(c)) /\ ~Due(c)
    BY <1>3 DEF Due, Inv, TransmitterInv, UpToDate
  <2>2. PICK l \in Nat : l = Latest(c) /\ l = Latest(c)'
    <3>1. Latest(c) \in Nat
      BY LatestNumber
    <3>2. Latest(c)' = Latest(c)
      BY <1>3 DEF Latest
    <3> QED
      BY <3>1, <3>2
  <2>3. PICK t \in Sockets : t = sock[c] /\ t = sock'[c]
    BY <1>3 DEF Inv, ConnInv, Connections
  <2>4. fd[c] \in clients[t]
    BY <2>3 DEF Inv, StaysListed
  <2>5. CASE t = s
    <3>1. Due(c)'
      BY <1>3, <2>4, <2>5 DEF Due
    <3>2. \A m \in 1..MaxSends : Queued(s, m) <=> l < m /\ m <= sends[s]
      BY <2>1, <2>2, <2>3, <2>5 DEF Taken
    <3>3. Queued(s, k)
      BY <1>6 DEF Queued
    <3>4. l < k /\ k <= sends[s]
      BY <1>6, <3>2, <3>3
    <3>5. Queued(s, l + 1)
      <4>1. l + 1 \in 1..MaxSends /\ l < l + 1 /\ l + 1 <= sends[s]
        BY <1>1, <1>6, <2>2, <3>4, MaxSendsAssumption
      <4> QED
        BY <3>2, <4>1
    <3>6. PICK i \in DOMAIN queue : queue[i] = <<s, l + 1>>
      BY <3>5 DEF Queued
    <3>7. k <= l + 1
      <4>1. CASE i = 1
        BY <1>6, <3>6, <4>1
      <4>2. CASE 1 < i
        BY <1>6, <1>7, <2>2, <3>6, <4>2
      <4> QED
        BY <1>4, <4>1, <4>2
    <3>8. k = l + 1
      BY <1>6, <2>2, <3>4, <3>7
    <3> QED
      BY <2>2, <3>1, <3>8
  <2>6. CASE t # s
    <3>1. ~Due(c)'
      <4>1. fd[c] \notin clients[s]
        BY <1>6, <2>3, <2>4, <2>6, NoneAssumption DEF Inv, ConnInv, Listed, Serves, Connections
      <4> QED
        BY <1>3, <4>1 DEF Due
    <3>2. Taken(t, l)'
      BY <1>11, <2>1, <2>2, <2>3, <2>6
    <3>3. Taken(sock[c], Latest(c))'
      BY <2>2, <2>3, <3>2 DEF Taken, Queued
    <3> QED
      BY <3>1, <3>3
  <2> QED
    BY <2>5, <2>6
<1>14. Unserved' /\ InOrder'
  BY <1>3 DEF Inv, TransmitterInv, Unserved, InOrder
<1> QED
  BY <1>9, <1>12, <1>13, <1>14 DEF TransmitterInv

LEMMA WrittenKeeps ==
  ASSUME Inv, Written
  PROVE  TransmitterInv'
<1>1. /\ sending # <<>> /\ sending[2] = {} /\ sending' = <<>>
      /\ UNCHANGED <<sock, phase, fd, hungup, queue, sends, got>>
  BY DEF Written, sharedVars, conns, streams
<1>2. \A t, k : Taken(t, k)' <=> Taken(t, k)
  BY <1>1 DEF Taken, Queued
<1>3. QueueOrder' /\ SendingInv' /\ Unserved' /\ InOrder'
  BY <1>1 DEF Inv, TransmitterInv, QueueOrder, SendingInv, Unserved, InOrder, Queued
<1>4. UpToDate'
  <2>1. \A c \in Clients : ~Due(c) /\ ~Due(c)'
    BY <1>1 DEF Due
  <2> QED
    BY <1>1, <1>2, <2>1 DEF Inv, TransmitterInv, UpToDate, Latest
<1> QED
  BY <1>3, <1>4 DEF TransmitterInv

\* What Write and its Windows form have in common: the client behind the
\* descriptor gets the entry in work, or it is not connected any more.
LEMMA Sent ==
  ASSUME Inv, NEW n \in Fds, Write(n) \/ SendToClient(n)
  PROVE  \E c \in Clients :
           /\ fd[c] = n /\ n \in sending[2] /\ sending # <<>>
           /\ sending' = <<sending[1], sending[2] \ {n}>>
           /\ UNCHANGED <<sock, hungup, queue, sends>>
           /\ \A d \in Clients \ {c} : fd'[d] = fd[d] /\ phase'[d] = phase[d]
           /\ \/ /\ ~hungup[c] /\ fd'[c] = fd[c]
                 /\ got' = [got EXCEPT ![c] = Append(@, sending[1])]
              \/ got' = got /\ (hungup[c] \/ phase'[c] = "shut")
           /\ phase'[c] \in {phase[c], "shut"}
<1>1. /\ n \in sending[2] /\ sending # <<>>
      /\ sending' = <<sending[1], sending[2] \ {n}>>
      /\ UNCHANGED <<sock, hungup, queue, sends>>
  BY DEF Write, SendToClient, streams, conns
<1>2. /\ phase \in [Clients -> {"new", "pending", "served", "shut"}]
      /\ fd \in [Clients -> Fds \cup {None}]
  BY DEF Inv, TypeOK, SharedTypeOK
<1>3. CASE Write(n)
  <2>1. PICK c \in Holder(n) : IF hungup[c] THEN UNCHANGED got
                               ELSE got' = [got EXCEPT ![c] = Append(@, sending[1])]
    BY <1>3 DEF Write
  <2>2. c \in Clients /\ fd[c] = n /\ UNCHANGED <<fd, phase>>
    BY <1>3, <2>1 DEF Write, Holder, conns
  <2> QED
    BY <1>1, <2>1, <2>2
<1>4. CASE SendToClient(n)
  <2>1. PICK c \in Holder(n) :
          \/ CutOff(c)
          \/ /\ ~hungup[c]
             /\ got' = [got EXCEPT ![c] = Append(@, sending[1])]
             /\ UNCHANGED <<phase, fd>>
    BY <1>4 DEF SendToClient
  <2>2. c \in Clients /\ fd[c] = n
    BY <2>1 DEF Holder
  <2>3. CASE CutOff(c)
    <3>1. /\ got' = got /\ phase'[c] = "shut"
          /\ \A d \in Clients \ {c} : fd'[d] = fd[d] /\ phase'[d] = phase[d]
      BY <1>2, <2>2, <2>3 DEF CutOff
    <3> QED
      BY <1>1, <2>2, <3>1
  <2> QED
    BY <1>1, <2>1, <2>2, <2>3
<1> QED
  BY <1>3, <1>4

LEMMA SentKeeps ==
  ASSUME Inv, NEW n \in Fds, Write(n) \/ SendToClient(n)
  PROVE  TransmitterInv'
<1>1. PICK c \in Clients :
        /\ fd[c] = n /\ n \in sending[2] /\ sending # <<>>
        /\ sending' = <<sending[1], sending[2] \ {n}>>
        /\ UNCHANGED <<sock, hungup, queue, sends>>
        /\ \A d \in Clients \ {c} : fd'[d] = fd[d] /\ phase'[d] = phase[d]
        /\ \/ /\ ~hungup[c] /\ fd'[c] = fd[c]
              /\ got' = [got EXCEPT ![c] = Append(@, sending[1])]
           \/ got' = got /\ (hungup[c] \/ phase'[c] = "shut")
        /\ phase'[c] \in {phase[c], "shut"}
  BY Sent
<1>2. /\ got \in [Clients -> Seq(Entries)] /\ sending[1] \in Entries
      /\ n # None
  BY <1>1, NoneAssumption DEF Inv, TypeOK, TransmitterTypeOK
<1>3. PICK s \in Sockets, k \in 1..MaxSends : sending[1] = <<s, k>> /\ sending'[1] = <<s, k>>
  <2>1. sending[1] \in Sockets \X (1..MaxSends)
    BY <1>2 DEF Entries
  <2> QED
    BY <1>1, <2>1
<1>4. Taken(s, k) /\ \A m \in sending[2] : Serves(m, s)
  BY <1>1, <1>3 DEF Inv, TransmitterInv, SendingInv
<1>5. phase[c] = "served" /\ sock[c] = s
  <2>1. phase[c] = "served"
    BY <1>1, <1>2 DEF Inv, ConnInv, Connections
  <2> QED
    <3>1. PICK d \in Clients : fd[d] = n /\ sock[d] = s
      BY <1>1, <1>4 DEF Serves
    <3>2. d = c
      BY <1>1, <1>2, <3>1 DEF Inv, ConnInv, Connections
    <3> QED
      BY <2>1, <3>1, <3>2
<1>6. \A d \in Clients \ {c} : got'[d] = got[d] /\ fd[d] # n
  BY <1>1, <1>2 DEF Inv, ConnInv, Connections
<1>7. \A t, l : Taken(t, l)' <=> Taken(t, l)
  BY <1>1 DEF Taken, Queued
<1>8. QueueOrder'
  BY <1>1 DEF Inv, TransmitterInv, QueueOrder, Queued
<1>9. SendingInv'
  <2>1. \A m \in sending[2] \ {n} : Serves(m, s)'
    BY <1>1, <1>4 DEF Serves
  <2>2. sending'[1][1] = s /\ sending'[1][2] = k /\ sending'[2] = sending[2] \ {n}
    BY <1>1, <1>3
  <2>3. Taken(s, k)'
    BY <1>4, <1>7
  <2> QED
    BY <2>1, <2>2, <2>3 DEF SendingInv, Serves, Taken, Queued
<1>10. CASE got' = got /\ (hungup[c] \/ phase'[c] = "shut")
  <2>1. UpToDate'
    <3> SUFFICES ASSUME NEW d \in Clients, phase'[d] = "served", ~hungup'[d], got'[d] # <<>>
                 PROVE  IF Due(d)' THEN sending'[1][2] = Latest(d)' + 1
                                   ELSE Taken(sock[d], Latest(d))'
      BY <1>1 DEF UpToDate
    <3>1. d # c /\ phase[d] = "served" /\ fd'[d] = fd[d] /\ got[d] # <<>> /\ ~hungup[d]
      BY <1>1, <1>10
    <3>2. Due(d)' <=> Due(d)
      BY <1>1, <1>6, <3>1 DEF Due
    <3>3. Latest(d)' = Latest(d)
      BY <1>10 DEF Latest
    <3>4. Taken(sock[d], Latest(d))' <=> Taken(sock[d], Latest(d))
      BY <1>1, <3>3 DEF Taken, Queued
    <3> QED
      BY <1>3, <3>1, <3>2, <3>3, <3>4 DEF Inv, TransmitterInv, UpToDate
  <2>2. Unserved'
    BY <1>1, <1>5, <1>10 DEF Inv, TransmitterInv, Unserved
  <2>3. InOrder'
    BY <1>1, <1>10 DEF Inv, TransmitterInv, InOrder
  <2> QED
    BY <1>8, <1>9, <2>1, <2>2, <2>3 DEF TransmitterInv
<1>11. CASE ~hungup[c] /\ fd'[c] = fd[c] /\ got' = [got EXCEPT ![c] = Append(@, sending[1])]
  <2>1. /\ got'[c] = Append(got[c], <<s, k>>)
        /\ Len(got'[c]) = Len(got[c]) + 1 /\ got'[c][Len(got[c]) + 1] = <<s, k>>
        /\ Len(got[c]) \in Nat
        /\ \A i \in 1..Len(got[c]) : got'[c][i] = got[c][i]
    BY <1>2, <1>3, <1>11
  <2>2. Latest(c)' = k
    BY <2>1 DEF Latest
  <2>3. ~Due(c)'
    BY <1>1, <1>11 DEF Due
  <2>4. UpToDate'
    <3> SUFFICES ASSUME NEW d \in Clients, phase'[d] = "served", ~hungup'[d], got'[d] # <<>>
                 PROVE  IF Due(d)' THEN sending'[1][2] = Latest(d)' + 1
                                   ELSE Taken(sock[d], Latest(d))'
      BY <1>1 DEF UpToDate
    <3>1. CASE d = c
      <4>1. ~Due(c)'
        BY <2>3, <3>1
      <4>2. Taken(sock[c], Latest(c))'
        BY <1>1, <1>4, <1>5, <2>2 DEF Taken, Queued
      <4> QED
        BY <3>1, <4>1, <4>2
    <3>2. CASE d # c
      <4>1. phase[d] = "served" /\ fd'[d] = fd[d] /\ got[d] # <<>> /\ ~hungup[d]
        BY <1>1, <1>6, <3>2
      <4>2. Due(d)' <=> Due(d)
        BY <1>1, <1>6, <3>2, <4>1 DEF Due
      <4>3. Latest(d)' = Latest(d)
        BY <1>6, <3>2 DEF Latest
      <4>4. Taken(sock[d], Latest(d))' <=> Taken(sock[d], Latest(d))
        BY <1>1, <4>3 DEF Taken, Queued
      <4> QED
        BY <1>3, <4>1, <4>2, <4>3, <4>4 DEF Inv, TransmitterInv, UpToDate
    <3> QED
      BY <3>1, <3>2
  <2>5. Unserved'
    <3>1. phase'[c] \notin {"new", "pending"}
      BY <1>1, <1>5
    <3> QED
      BY <1>1, <1>6, <3>1 DEF Inv, TransmitterInv, Unserved
  <2>6. got[c] # <<>> => k = got[c][1][2] + Len(got[c])
    <3> SUFFICES ASSUME got[c] # <<>> PROVE k = got[c][1][2] + Len(got[c])
      OBVIOUS
    <3>1. Due(c)
      BY <1>1 DEF Due
    <3>2. k = Latest(c) + 1
      BY <1>3, <1>5, <1>11, <3>1 DEF Inv, TransmitterInv, UpToDate
    <3>3. Len(got[c]) \in 1..Len(got[c]) /\ 1 \in 1..Len(got[c])
      BY <1>2, <2>1
    <3>4. got[c][Len(got[c])] = <<sock[c], got[c][1][2] + Len(got[c]) - 1>>
      BY <3>3 DEF Inv, TransmitterInv, InOrder
    <3>5. got[c][1][2] \in Nat
      <4>1. got[c][1] \in Sockets \X (1..MaxSends)
        BY <1>2, <3>3 DEF Entries
      <4> QED
        BY <4>1
    <3> QED
      <4>1. Latest(c) = got[c][1][2] + Len(got[c]) - 1
        BY <3>4 DEF Latest
      <4>2. Len(got[c]) \in Nat
        BY <2>1
      <4> QED
        BY <3>2, <3>5, <4>1, <4>2
  <2>7. InOrder'
    <3> SUFFICES ASSUME NEW d \in Clients, NEW i \in 1..Len(got'[d])
                 PROVE  got'[d][i] = <<sock[d], got'[d][1][2] + i - 1>>
      BY <1>1 DEF InOrder
    <3>1. CASE d # c
      BY <1>6, <3>1 DEF Inv, TransmitterInv, InOrder
    <3>2. CASE d = c /\ i \in 1..Len(got[c])
      <4>1. 1 \in 1..Len(got[c])
        BY <2>1, <3>2
      <4>2. got'[c][i] = got[c][i] /\ got'[c][1] = got[c][1]
        BY <2>1, <3>2, <4>1
      <4> QED
        BY <3>2, <4>2 DEF Inv, TransmitterInv, InOrder
    <3>3. CASE d = c /\ i = Len(got[c]) + 1 /\ got[c] # <<>>
      <4>1. got'[c][1] = got[c][1] /\ got[c][1][2] \in Nat
        <5>1. 1 \in 1..Len(got[c])
          BY <1>2, <2>1, <3>3
        <5>2. got[c][1] \in Sockets \X (1..MaxSends)
          BY <1>2, <5>1 DEF Entries
        <5> QED
          BY <2>1, <5>1, <5>2
      <4> QED
        BY <1>5, <2>1, <2>6, <3>3, <4>1
    <3>4. CASE d = c /\ i = Len(got[c]) + 1 /\ got[c] = <<>>
      BY <1>5, <2>1, <3>4
    <3> QED
      BY <2>1, <3>1, <3>2, <3>3, <3>4
  <2> QED
    BY <1>8, <1>9, <2>4, <2>5, <2>7 DEF TransmitterInv
<1> QED
  BY <1>1, <1>10, <1>11

LEMMA TransmitterNext ==
  ASSUME Inv, [Next]_vars
  PROVE  TransmitterInv'
<1>1. CASE UNCHANGED transmitterVars
  BY <1>1, TransmitterOthers
<1>2. CASE \E s \in Sockets : SendData(s)
  BY <1>2, SendDataKeeps
<1>3. CASE Transmitter
  BY <1>3, TakeKeeps, WrittenKeeps, SentKeeps DEF Transmitter, On, TransmitterLoop,
     TransmitterLoopWindows
<1> QED
  BY <1>1, <1>2, <1>3 DEF Next, Connector, Receiver, Control, ClientSteps, vars

-----------------------------------------------------------------------------
(* The theorems. *)

LEMMA InvInit == Init => Inv
<1> SUFFICES ASSUME Init PROVE Inv
  OBVIOUS
<1> USE DEF Init, SharedInit, ConnectorInit, ReceiverInit, TransmitterInit
<1>1. WiringTypeOK
  <2>1. backlog \in [Sockets -> Seq(Clients)]
    OBVIOUS
  <2> QED
    BY <2>1 DEF WiringTypeOK
<1>2. ConnInv /\ StaysListed
  <2>1. Waiting
    <3>1. \A s \in Sockets : DOMAIN backlog[s] = {}
      OBVIOUS
    <3> QED
      BY <3>1 DEF Waiting
  <2> QED
    BY <2>1 DEF ConnInv, Connections, EventsBacked, Listed, StaysListed
<1>3. RestTypeOK
  <2>1. StreamsTypeOK
    BY BufferAssumption DEF StreamsTypeOK
  <2>2. ConnectorTypeOK
    <3>1. isReady = FALSE
      OBVIOUS
    <3>2. accepting = {} /\ starts = 0
      OBVIOUS
    <3>3. 0 \in 0..MaxStarts
      BY MaxStartsAssumption
    <3> HIDE DEF Init, SharedInit, ConnectorInit, ReceiverInit, TransmitterInit
    <3>4. isReady \in BOOLEAN
      BY <3>1
    <3> QED
      BY <3>2, <3>3, <3>4 DEF ConnectorTypeOK
  <2>3. ReceiverTypeOK
    <3>1. rx = "collect" /\ todo \subseteq Sockets
      OBVIOUS
    <3>2. collected = {} /\ managed = {} /\ events = {} /\ dropped = {}
      OBVIOUS
    <3>3. heard \in [Clients -> SUBSET Sockets]
      OBVIOUS
    <3> HIDE DEF Init, SharedInit, ConnectorInit, ReceiverInit, TransmitterInit
    <3> QED
      BY <3>1, <3>2, <3>3 DEF ReceiverTypeOK
  <2>4. TransmitterTypeOK
    <3>1. queue \in Seq(Entries) /\ got \in [Clients -> Seq(Entries)]
      OBVIOUS
    <3> QED
      BY <3>1, MaxSendsAssumption DEF TransmitterTypeOK
  <2> QED
    BY <2>1, <2>2, <2>3, <2>4 DEF RestTypeOK
<1>4. TypeOK
  BY <1>1, <1>2, <1>3, TypesJoin DEF WiringInv
<1>5. ReceiverInv /\ EventsManaged
  BY DEF ReceiverInv, ReceiverUnix, ReceiverWindows, EventsManaged
<1>6. TransmitterInv
  <2>1. DOMAIN queue = {}
    OBVIOUS
  <2>2. \A c \in Clients : got[c] = <<>> /\ 1..Len(got[c]) = {}
    OBVIOUS
  <2> QED
    BY <2>1, <2>2 DEF TransmitterInv, QueueOrder, SendingInv, UpToDate, Unserved, InOrder
<1> QED
  BY <1>2, <1>4, <1>5, <1>6 DEF Inv

LEMMA Invariant == Spec => []Inv
<1>1. Init => Inv
  BY InvInit
<1>2. Inv /\ [Next]_vars => Inv'
  BY TypesNext, WiringNext, ReceiverNext, TransmitterNext DEF Inv, WiringInv
<1> QED
  BY <1>1, <1>2, PTL DEF Spec

\* Every variable of the three threads and of the kernel behind them keeps its
\* type: accept never finds its queue empty, and what waits there is pending.
THEOREM TypeCorrect == Spec => []TypeOK
<1>1. Inv => TypeOK
  BY DEF Inv
<1> QED
  BY <1>1, Invariant, PTL

\* A connected client stays on the list of its socket, although receiver and
\* transmitter both take descriptors off it (IpcReceiverUnix.cpp:87,
\* IpcTransmitter.cpp:13).
THEOREM ConnectedStaysListed == Spec => []StaysListed
<1>1. Inv => StaysListed
  BY DEF Inv
<1> QED
  BY <1>1, Invariant, PTL

\* The receiver gets events of managed connections only
\* (IpcReceiverUnix.cpp:33).
THEOREM PolledIsManaged == Spec => []EventsManaged
<1>1. Inv => EventsManaged
  BY DEF Inv
<1> QED
  BY <1>1, Invariant, PTL

\* What a client receives are entries of its own socket, in the order of
\* sendData and without a gap.
THEOREM EntriesInOrder == Spec => []InOrder
<1>1. Inv => InOrder
  BY DEF Inv, TransmitterInv
<1> QED
  BY <1>1, Invariant, PTL

LEMMA AllReceived ==
  ASSUME Inv, queue = <<>>, sending = <<>>, NEW c \in Clients, Connected(c), got[c] # <<>>
  PROVE  Last(got[c])[2] = sends[sock[c]]
<1>1. phase[c] = "served" /\ ~hungup[c]
  BY DEF Connected, Inv, TransmitterInv, Unserved
<1>2. Taken(sock[c], Latest(c))
  BY <1>1 DEF Due, Inv, TransmitterInv, UpToDate
<1>3. \A m \in 1..MaxSends : ~(Latest(c) < m /\ m <= sends[sock[c]])
  BY <1>2 DEF Taken, Queued
<1>4. sock[c] \in Sockets
  BY <1>1 DEF Inv, ConnInv, Connections
<1>5. sends[sock[c]] \in 0..MaxSends
  BY <1>4 DEF Inv, TypeOK, TransmitterTypeOK
<1>6. Latest(c) \in Nat /\ Latest(c) <= sends[sock[c]]
  BY <1>2, LatestNumber DEF Taken
<1>7. Latest(c) = sends[sock[c]]
  BY <1>3, <1>5, <1>6, MaxSendsAssumption
<1> QED
  BY <1>7 DEF Latest, Last

\* A connected client that received an entry has received all that followed,
\* once queue and transmitter are done.
THEOREM NothingIsMissed == Spec => []NothingMissed
<1>1. Inv => NothingMissed
  BY AllReceived DEF NothingMissed
<1> QED
  BY <1>1, Invariant, PTL

\* Who has not connected yet has not been heard.
Unheard == \A c \in Clients : phase[c] = "new" => heard[c] = {}

LEMMA RightSocketNext ==
  ASSUME Inv, [Next]_vars, platform = "unix", RightSocket, Unheard
  PROVE  RightSocket' /\ Unheard'
<1>1. heard \in [Clients -> SUBSET Sockets] /\ sock \in [Clients -> Sockets \cup {None}]
  BY DEF Inv, TypeOK, SharedTypeOK, ReceiverTypeOK
<1>2. CASE UNCHANGED heard
  <2>1. ASSUME NEW c \in Clients
        PROVE  heard[c] \subseteq {sock'[c]} /\ (phase'[c] = "new" => heard[c] = {})
    <3>1. CASE phase[c] # "new"
      BY <3>1, PhaseSteps DEF RightSocket
    <3>2. CASE phase[c] = "new"
      BY <3>2 DEF Unheard
    <3> QED
      BY <3>1, <3>2
  <2> QED
    BY <1>2, <2>1 DEF RightSocket, Unheard
<1>3. ASSUME NEW e \in events, Handle(e)
      PROVE  RightSocket' /\ Unheard'
  <2>1. PICK c \in Holder(e[1]) :
          heard' = [heard EXCEPT ![c] =
            IF unread[c] = 0 THEN @ ELSE @ \cup {p[2] : p \in {q \in managed : q[1] = e[1]}}]
    BY <1>3 DEF Handle
  <2>2. c \in Clients /\ fd[c] = e[1] /\ UNCHANGED <<sock, phase>>
    BY <1>3, <2>1 DEF Handle, Holder, conns
  <2>3. rx = "handle" /\ managed = collected
    BY <1>3 DEF Handle, Inv, ReceiverInv, ReceiverUnix
  <2>4. \A q \in managed : q[1] = e[1] => q[2] = sock[c]
    BY <2>1, <2>3, CollectedTrue
  <2>5. heard'[c] \subseteq {sock[c]}
    BY <1>1, <2>1, <2>2, <2>4 DEF RightSocket
  <2>6. \A d \in Clients \ {c} : heard'[d] = heard[d]
    BY <1>1, <2>1
  <2>7. phase[c] = "served"
    <3>1. e[1] \in Fds
      BY <1>3 DEF Inv, TypeOK, ReceiverTypeOK
    <3> QED
      BY <2>2, <3>1, NoneAssumption DEF Inv, ConnInv, Connections
  <2> QED
    BY <2>2, <2>5, <2>6, <2>7 DEF RightSocket, Unheard
<1>4. heard' = heard \/ \E e \in events : Handle(e)
  BY EpollKept DEF Next, vars, receiverVars, Receiver, On, ReceiverLoop, Collect, ValidateEPoll,
     AwaitData, NextTurn, Purge
<1> QED
  BY <1>2, <1>3, <1>4

\* On Unix data reaches the listener under the name of the socket its client
\* connected to, through every restart of the connector, which reuses
\* descriptor numbers (IpcReceiverUnix.cpp:27-40).
THEOREM NamedAfterSocket == Spec => [](platform = "unix" => RightSocket)
<1> DEFINE Named == platform = "unix" => RightSocket /\ Unheard
<1>1. Init => Named
  BY DEF Init, ReceiverInit, RightSocket, Unheard
<1>2. Inv /\ Named /\ [Next]_vars => Named'
  BY AllWired, RightSocketNext
<1>3. Named => (platform = "unix" => RightSocket)
  OBVIOUS
<1> HIDE DEF Named
<1> QED
  BY <1>1, <1>2, <1>3, Invariant, PTL DEF Spec
=============================================================================
