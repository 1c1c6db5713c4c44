----------------------------- MODULE IpcReceiver -----------------------------
(***************************************************************************)
(* IpcReceiver with IpcReceiverUnix: one turn of its loop brings the epoll *)
(* set in line with the sockets' lists, waits, reads once from every       *)
(* connection with an event, hands the data to the listener and takes      *)
(* clients that hung up off their lists.                                   *)
(***************************************************************************)
EXTENDS IpcSockets

VARIABLES
  rx,           \* "collect", "wait" or "handle"
  todo,         \* sockets whose list is still to be copied
  collected,    \* pairs of a descriptor and a socket copied in this turn
  managed,      \* managedDescriptors
  events,       \* events epoll_wait returned: descriptor, hung up or not
  dropped,      \* dropDescriptors
  heard         \* the names under which the listener got a client's data

receiverVars == <<rx, todo, collected, managed, events, dropped, heard>>

ReceiverTypeOK ==
  /\ rx \in {"collect", "wait", "handle"}
  /\ todo \subseteq Sockets
  /\ collected \subseteq Fds \X Sockets /\ managed \subseteq Fds \X Sockets
  /\ events \subseteq Fds \X BOOLEAN
  /\ dropped \subseteq Fds
  /\ heard \in [Clients -> SUBSET Sockets]

ReceiverInit ==
  /\ rx = "collect" /\ todo = Sockets
  /\ collected = {} /\ managed = {} /\ events = {} /\ dropped = {}
  /\ heard = [c \in Clients |-> {}]

\* collectDescriptors: the lists are copied one after the other.
Collect(s) ==
  /\ rx = "collect" /\ s \in todo
  /\ todo' = todo \ {s}
  /\ collected' = collected \cup (clients[s] \X {s})
  /\ UNCHANGED <<sharedVars, rx, managed, events, dropped, heard>>

\* Connections behind the descriptors of a set of pairs.
Behind(pairs) == UNION {Holder(p[1]) : p \in pairs}

\* Mutant of ValidateEPoll: descriptors that are gone stay in the epoll set.
ValidateEPollKeep ==
  /\ rx = "collect" /\ todo = {}
  /\ polled' = polled \cup Behind(collected \ managed)
  /\ edge' = edge \cup {c \in Behind(collected \ managed) : unread[c] > 0 \/ hungup[c]}
  /\ managed' = collected
  /\ rx' = "wait"
  /\ UNCHANGED <<conns, hungup, unread, doors, clients, todo, collected, events,
                 dropped, heard>>

\* The rest of ValidateEPoll.  A connection that is added with something to
\* report gets its event at once; one that is added twice stays as it is.
ValidateEPoll ==
  /\ rx = "collect" /\ todo = {}
  /\ LET gone  == Behind(managed \ collected)
         kept  == polled \ gone
         added == Behind(collected \ managed) \ kept
     IN /\ polled' = kept \cup added
        /\ edge' = (edge \ gone) \cup {c \in added : unread[c] > 0 \/ hungup[c]}
  /\ managed' = collected
  /\ rx' = "wait"
  /\ UNCHANGED <<conns, hungup, unread, doors, clients, todo, collected, events,
                 dropped, heard>>

\* Mutant of AwaitData: only hang-ups are waited for.
AwaitHangUps ==
  /\ rx = "wait"
  /\ events' = {<<fd[c], TRUE>> : c \in {d \in edge : hungup[d]}}
  /\ edge' = {}
  /\ rx' = "handle"
  /\ UNCHANGED <<conns, hungup, unread, polled, doors, clients, todo, collected,
                 managed, dropped, heard>>

\* epoll_wait; without an event it times out and the loop handles none.
AwaitData ==
  /\ rx = "wait"
  /\ events' = {<<fd[c], hungup[c]>> :
                  c \in {d \in edge : unread[d] > 0 \/ hungup[d]}}
  /\ edge' = {}
  /\ rx' = "handle"
  /\ UNCHANGED <<conns, hungup, unread, polled, doors, clients, todo, collected,
                 managed, dropped, heard>>

\* Mutant of Handle: the data is announced under any managed name.
HandleAnyName(e) ==
  /\ rx = "handle" /\ e \in events
  /\ events' = events \ {e}
  /\ \E c \in Holder(e[1]) :
       /\ unread' = [unread EXCEPT ![c] = 0]
       /\ heard' = [heard EXCEPT ![c] = @ \cup {p[2] : p \in managed}]
  /\ dropped' = IF e[2] THEN dropped \cup {e[1]} ELSE dropped
  /\ UNCHANGED <<conns, hungup, polled, edge, doors, clients, rx, todo, collected, managed>>

\* The handler of one event: a single read, the listener's synchronous call,
\* and the note that the client hung up.
Handle(e) ==
  /\ rx = "handle" /\ e \in events
  /\ events' = events \ {e}
  /\ \E c \in Holder(e[1]) :
       /\ unread' = [unread EXCEPT ![c] = IF @ > Buffer THEN @ - Buffer ELSE 0]
       /\ heard' = [heard EXCEPT ![c] =
            IF unread[c] = 0 THEN @ ELSE @ \cup {p[2] : p \in {q \in managed : q[1] = e[1]}}]
  /\ dropped' = IF e[2] THEN dropped \cup {e[1]} ELSE dropped
  /\ UNCHANGED <<conns, hungup, polled, edge, doors, clients, rx, todo, collected, managed>>

\* Mutant of Purge: the whole list is cleared.
PurgeAll(n) ==
  /\ rx = "handle" /\ events = {} /\ n \in dropped
  /\ dropped' = dropped \ {n}
  /\ clients' = [s \in Sockets |-> IF n \in clients[s] THEN {} ELSE clients[s]]
  /\ UNCHANGED <<conns, streams, doors, rx, todo, collected, managed, events, heard>>

\* Mutant of Purge: no parent is found.
PurgeNone(n) ==
  /\ rx = "handle" /\ events = {} /\ n \in dropped
  /\ dropped' = dropped \ {n}
  /\ UNCHANGED <<sharedVars, rx, todo, collected, managed, events, heard>>

\* purgeSockets for one descriptor: off the list of the socket that has it.
Purge(n) ==
  /\ rx = "handle" /\ events = {} /\ n \in dropped
  /\ dropped' = dropped \ {n}
  /\ \/ \E s \in Sockets : n \in clients[s] /\ removeClientDescriptor(s, n)
     \/ (\A s \in Sockets : n \notin clients[s]) /\ UNCHANGED clients
  /\ UNCHANGED <<conns, streams, doors, rx, todo, collected, managed, events, heard>>

\* The loop function returns and is called again.
NextTurn ==
  /\ rx = "handle" /\ events = {} /\ dropped = {}
  /\ rx' = "collect" /\ todo' = Sockets /\ collected' = {}
  /\ UNCHANGED <<sharedVars, managed, events, dropped, heard>>

ReceiverLoop ==
  \/ \E s \in Sockets : Collect(s)
  \/ ValidateEPoll \/ AwaitData \/ NextTurn
  \/ \E e \in events : Handle(e)
  \/ \E n \in dropped : Purge(n)
=============================================================================
