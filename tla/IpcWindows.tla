----------------------------- MODULE IpcWindows -----------------------------
(***************************************************************************)
(* The loops of the same three threads in the Windows build                *)
(* (MLCommon/src/Network/Windows).  They wait by select, which is level    *)
(* triggered and fails when a descriptor of its set was closed meanwhile.  *)
(* The accepted sockets are non-blocking: send fails for a client that has *)
(* hung up and for one that does not read, and such a client is closed.    *)
(* The receiver takes nobody off a list.                                   *)
(*                                                                         *)
(* The sets of select hold 64 descriptors and leave out the others, which  *)
(* are more than the bounds of any run.                                    *)
(***************************************************************************)
EXTENDS IpcConnector, IpcReceiver, IpcTransmitter

(* The connector. *)

\* A TCP port that is bound already cannot be bound again: not even when a
\* Start that failed bound it.
StartWindows == listening = {} /\ Start

StartFailsWindows ==
  /\ ~isReady /\ starts < MaxStarts
  /\ starts' = starts + 1
  /\ \E bound \in SUBSET (Sockets \ listening) : Bind(bound)
  /\ UNCHANGED <<conns, streams, arrived, clients, isReady, accepting>>

SelectListening ==
  /\ isReady /\ accepting = {}
  /\ accepting' = {s \in listening : backlog[s] # <<>>} /\ accepting' # {}
  /\ UNCHANGED <<sharedVars, isReady, starts>>

\* setSocketToNonBlock fails for the connection accepted: it is closed.
AcceptAndClose(s) ==
  /\ s \in accepting /\ FreeFds # {}
  /\ accepting' = accepting \ {s}
  /\ backlog' = [backlog EXCEPT ![s] = Tail(@)]
  /\ phase' = [phase EXCEPT ![Head(backlog[s])] = "shut"]
  /\ UNCHANGED <<sock, fd, streams, listening, arrived, clients, isReady, starts>>

ConnectorLoopWindows ==
  SelectListening \/ \E s \in Sockets : Accept(s) \/ AcceptAndClose(s)

-----------------------------------------------------------------------------
(* The receiver. *)

\* select over the descriptors that were collected, and the partition of them.
SelectReadable ==
  /\ rx = "collect" /\ todo = {}
  /\ managed' = collected
  /\ events' = IF \E p \in collected : Holder(p[1]) = {} THEN {}
               ELSE {<<fd[c], hungup[c]>> :
                       c \in {d \in Behind(collected) : unread[d] > 0 \/ hungup[d]}}
  /\ rx' = "handle"
  /\ UNCHANGED <<sharedVars, todo, collected, dropped, heard>>

\* readFromSockets for one descriptor, which may have been closed, or belong to
\* another connection, by now.
Recv(e) ==
  /\ rx = "handle" /\ e \in events
  /\ events' = events \ {e}
  /\ \/ Holder(e[1]) = {} /\ UNCHANGED <<unread, heard>>
     \/ \E c \in Holder(e[1]), p \in managed :
          /\ p[1] = e[1]
          /\ unread' = [unread EXCEPT ![c] = IF @ > Buffer THEN @ - Buffer ELSE 0]
          /\ heard' = [heard EXCEPT ![c] = IF unread[c] = 0 THEN @ ELSE @ \cup {p[2]}]
  /\ UNCHANGED <<conns, hungup, polled, edge, doors, clients, rx, todo, collected, managed,
                 dropped>>

ReceiverLoopWindows ==
  \/ \E s \in Sockets : Collect(s)
  \/ SelectReadable \/ NextTurn
  \/ \E e \in events : Recv(e)

-----------------------------------------------------------------------------
(* The transmitter. *)

\* A failed send takes the client off the list and closes it.
CutOff(c) ==
  /\ removeClientDescriptor(sending[1][1], fd[c])
  /\ phase' = [phase EXCEPT ![c] = "shut"] /\ fd' = [fd EXCEPT ![c] = None]
  /\ UNCHANGED got

\* One send of innerSendToClients: it may fail for a client that is connected.
SendToClient(n) ==
  /\ sending # <<>> /\ n \in sending[2]
  /\ sending' = <<sending[1], sending[2] \ {n}>>
  /\ \E c \in Holder(n) :
       \/ CutOff(c)
       \/ /\ ~hungup[c]
          /\ got' = [got EXCEPT ![c] = Append(@, sending[1])]
          /\ UNCHANGED <<clients, phase, fd>>
  /\ UNCHANGED <<sock, streams, doors, queue, sends>>

TransmitterLoopWindows == Take \/ Written \/ \E n \in Fds : SendToClient(n)
=============================================================================
