--------------------------- MODULE IpcTransmitter ---------------------------
(***************************************************************************)
(* IpcTransmitter: sendData queues data for a socket, the thread takes the *)
(* entries one by one and writes each to the clients the socket has then.  *)
(* The accepted connections are blocking, so a write is complete unless    *)
(* the client has hung up; it fails then (the application ignores SIGPIPE).*)
(***************************************************************************)
EXTENDS IpcSockets

CONSTANT MaxSends     \* bound: calls of sendData for each socket

ASSUME MaxSendsAssumption == MaxSends \in Nat

VARIABLES
  queue,        \* listOfDataToSend: pairs of a socket and a number
  sending,      \* the entry in work and the descriptors left, or <<>>
  sends,        \* how often sendData was called for each socket
  got           \* what each client received

transmitterVars == <<queue, sending, sends, got>>

Entries == Sockets \X (1..MaxSends)

TransmitterTypeOK ==
  /\ queue \in Seq(Entries)
  /\ sending \in {<<>>} \cup (Entries \X SUBSET Fds)
  /\ sends \in [Sockets -> 0..MaxSends]
  /\ got \in [Clients -> Seq(Entries)]

TransmitterInit ==
  /\ queue = <<>> /\ sending = <<>>
  /\ sends = [s \in Sockets |-> 0]
  /\ got = [c \in Clients |-> <<>>]

\* sendData with the URI of a socket; any other URI is ignored.
SendData(s) ==
  /\ sends[s] < MaxSends
  /\ sends' = [sends EXCEPT ![s] = @ + 1]
  /\ queue' = Append(queue, <<s, sends[s] + 1>>)
  /\ UNCHANGED <<sharedVars, sending, got>>

\* Mutant of Take: the entry goes to the clients of all sockets.
TakeEverywhere ==
  /\ sending = <<>> /\ queue # <<>>
  /\ sending' = <<Head(queue), UNION {clients[s] : s \in Sockets}>>
  /\ queue' = Tail(queue)
  /\ UNCHANGED <<sharedVars, sends, got>>

\* getHead, and the copy of the clients' list at the start of
\* innerSendToClients.
Take ==
  /\ sending = <<>> /\ queue # <<>>
  /\ sending' = <<Head(queue), clients[Head(queue)[1]]>>
  /\ queue' = Tail(queue)
  /\ UNCHANGED <<sharedVars, sends, got>>

\* Mutant of Write: a failed write clears the whole list.
WriteClear(n) ==
  /\ sending # <<>> /\ n \in sending[2]
  /\ sending' = <<sending[1], sending[2] \ {n}>>
  /\ \E c \in Holder(n) :
       IF hungup[c]
       THEN clients' = [clients EXCEPT ![sending[1][1]] = {}] /\ UNCHANGED got
       ELSE got' = [got EXCEPT ![c] = Append(@, sending[1])] /\ UNCHANGED clients
  /\ UNCHANGED <<conns, streams, doors, queue, sends>>

\* One write of innerSendToClients.
Write(n) ==
  /\ sending # <<>> /\ n \in sending[2]
  /\ sending' = <<sending[1], sending[2] \ {n}>>
  /\ \E c \in Holder(n) :
       IF hungup[c]
       THEN removeClientDescriptor(sending[1][1], n) /\ UNCHANGED got
       ELSE got' = [got EXCEPT ![c] = Append(@, sending[1])] /\ UNCHANGED clients
  /\ UNCHANGED <<conns, streams, doors, queue, sends>>

\* Mutant of Written: the entry is not taken off the list when it is sent.
WrittenAgain ==
  /\ sending # <<>> /\ sending[2] = {}
  /\ sending' = <<>>
  /\ queue' = <<sending[1]>> \o queue
  /\ UNCHANGED <<sharedVars, sends, got>>

\* The entry is done.
Written ==
  /\ sending # <<>> /\ sending[2] = {}
  /\ sending' = <<>>
  /\ UNCHANGED <<sharedVars, queue, sends, got>>

TransmitterLoop == Take \/ Written \/ \E n \in Fds : Write(n)
=============================================================================
