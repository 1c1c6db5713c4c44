-------------------------------- MODULE Ipc --------------------------------
(***************************************************************************)
(* The IPC system: IpcConnector, IpcReceiver and IpcTransmitter, each with *)
(* its thread, over the same sockets, and their clients.                   *)
(*                                                                         *)
(* The program is built for Unix or for Windows; the loops differ.         *)
(*                                                                         *)
(* The receiver and the transmitter are stopped before the connector is,   *)
(* and started again after it, as IpcTest::stop (MLCommon/test/ipc_test.cpp*)
(* :27) does it; they keep their members meanwhile.                        *)
(***************************************************************************)
EXTENDS IpcWindows

CONSTANT Platforms    \* those the program is built for

ASSUME PlatformsAssumption == Platforms \subseteq {"unix", "windows"}

VARIABLE platform     \* the one it runs on

vars == <<sharedVars, connectorVars, receiverVars, transmitterVars, platform>>

TypeOK ==
  /\ SharedTypeOK /\ ConnectorTypeOK /\ ReceiverTypeOK /\ TransmitterTypeOK
  /\ platform \in Platforms

Init ==
  /\ SharedInit /\ ConnectorInit /\ ReceiverInit /\ TransmitterInit
  /\ platform \in Platforms

\* Receiver and transmitter are between two turns of their loops.
Resting == rx = "collect" /\ todo = Sockets /\ sending = <<>>

On(p) == platform = p /\ UNCHANGED platform

Connector ==
  /\ \/ On("unix") /\ ConnectorLoop
     \/ On("windows") /\ ConnectorLoopWindows
  /\ UNCHANGED <<receiverVars, transmitterVars>>

Receiver ==
  /\ isReady
  /\ \/ On("unix") /\ ReceiverLoop
     \/ On("windows") /\ ReceiverLoopWindows
  /\ UNCHANGED <<connectorVars, transmitterVars>>

Transmitter ==
  /\ isReady
  /\ \/ On("unix") /\ TransmitterLoop
     \/ On("windows") /\ TransmitterLoopWindows
  /\ UNCHANGED <<connectorVars, receiverVars>>

Control ==
  \/ /\ \/ On("unix") /\ (Start \/ StartFails)
        \/ On("windows") /\ (StartWindows \/ StartFailsWindows)
        \/ Stop /\ Resting /\ UNCHANGED platform
     /\ UNCHANGED <<receiverVars, transmitterVars>>
  \/ \E s \in Sockets : SendData(s) /\ UNCHANGED <<connectorVars, receiverVars, platform>>

ClientSteps == ClientNext /\ UNCHANGED <<connectorVars, receiverVars, transmitterVars, platform>>

Next == Connector \/ Receiver \/ Transmitter \/ Control \/ ClientSteps

Spec == Init /\ [][Next]_vars

\* The three threads are scheduled; nobody has to connect, write or stop.
FairSpec == Spec /\ WF_vars(Connector) /\ WF_vars(Receiver) /\ WF_vars(Transmitter)

-----------------------------------------------------------------------------
\* Data reaches the listener under the name of the socket its client
\* connected to (IpcReceiverUnix.cpp:27-40), whatever the lists went through.
RightSocket == \A c \in Clients : heard[c] \subseteq {sock[c]}

\* Every connection the receiver can get events from is a managed one: the
\* error "There is no such file descriptor in managed descriptors"
\* (IpcReceiverUnix.cpp:33) does not occur.
EventsManaged == \A c \in polled : <<fd[c], sock[c]>> \in managed

\* While the receiver waits, every descriptor it took over from the lists is
\* in its epoll set; "add new descriptors" says IpcReceiverUnix.cpp:118.
ManagedPolled ==
  rx = "wait" => \A c \in Clients : <<fd[c], sock[c]>> \in managed => c \in polled

\* A client that stays connected stays on the list of its socket, although
\* two threads take descriptors off it.
StaysListed ==
  \A c \in Clients : phase[c] = "served" /\ ~hungup[c] => fd[c] \in clients[sock[c]]

\* A client gets what was sent to its socket, in order and without a gap,
\* from the first entry it gets on.
InOrder ==
  \A c \in Clients : \A i \in 1..Len(got[c]) :
    got[c][i] = <<sock[c], got[c][1][2] + i - 1>>

\* A client that stays connected has received everything that was sent to its
\* socket since the first entry it received, once queue and work are done.
\* (Entries are numbered, so the last one it has tells.)
NothingMissed ==
  queue = <<>> /\ sending = <<>> =>
    \A c \in Clients : Connected(c) /\ got[c] # <<>>
      => Last(got[c])[2] = sends[sock[c]]

\* Liveness, for clients that do not outrun the server (Polite).
\* A waiting client is accepted, unless descriptors have run out.
Accepted ==
  \A c \in Clients : isReady /\ phase[c] = "pending" ~> phase[c] # "pending" \/ FreeFds = {}

\* What a served client wrote is read, unless the client hangs up or is cut off.
Heard ==
  \A c \in Clients : phase[c] = "served" /\ unread[c] > 0
    ~> unread[c] = 0 \/ hungup[c] \/ phase[c] = "shut"

\* A client that has hung up leaves the list; on Windows, when something is
\* sent to it.
Noticed(c) == platform = "unix" \/ (sending # <<>> /\ fd[c] \in sending[2])
Unlisted ==
  \A c \in Clients : phase[c] = "served" /\ hungup[c] /\ Noticed(c)
    ~> \A s \in Sockets : fd[c] \notin clients[s]

\* What sendData queued is worked off.
QueueDrains == isReady /\ queue # <<>> ~> queue = <<>> /\ sending = <<>>
=============================================================================
