----------------------------- MODULE UsbMonitor -----------------------------
(***************************************************************************)
(* SystemObserver::monitor with UsbMassStorageMonitor: one thread waits in *)
(* epoll for events of the udev monitor, notes the devices that were added *)
(* and, once a turn, hands every noted device that is mounted by then to   *)
(* the consumer.  The epoll set is edge triggered, and one event is        *)
(* received per wait.                                                      *)
(*                                                                         *)
(* The observer of the folder /tmp/ml-deploy takes part in the loop without*)
(* effect: moving a FolderMonitor into its SystemObservable leaves it      *)
(* without an event buffer, and it only logs.                              *)
(***************************************************************************)
EXTENDS UsbSticks

VARIABLES
  delayed,      \* delayedDevices
  todo          \* those the current call of process has still to look at

monitorVars == <<delayed, todo>>

MonitorTypeOK == delayed \subseteq Sticks /\ todo \subseteq delayed

MonitorInit == delayed = {} /\ todo = {}

\* One turn begins: epoll_wait, with at most one event received, or its
\* timeout.  The devices noted then are the ones process looks at.
Await ==
  /\ todo = {}
  /\ \/ /\ signalled
        /\ signalled' = FALSE
        /\ udev' = Tail(udev)
        /\ delayed' = IF Head(udev)[1] = "add" THEN delayed \cup {Head(udev)[2]}
                      ELSE delayed \ {Head(udev)[2]}
     \/ /\ ~signalled /\ delayed # {}
        /\ UNCHANGED <<udev, signalled, delayed>>
  /\ todo' = delayed'
  /\ UNCHANGED <<deviceVars, usb>>

\* Mutant of Pass: a device is looked at in one turn only.
PassOnce(s) ==
  /\ s \in todo /\ s \notin mounted
  /\ todo' = todo \ {s} /\ delayed' = delayed \ {s}
  /\ UNCHANGED stickVars

\* process: a device that is not mounted (yet) is kept for the next turn ...
Pass(s) ==
  /\ s \in todo /\ s \notin mounted
  /\ todo' = todo \ {s}
  /\ UNCHANGED <<stickVars, delayed>>

\* ... and one that is goes to the consumer, and is erased.
Consume(s) ==
  /\ s \in todo /\ s \in mounted
  /\ todo' = todo \ {s}
  /\ delayed' = delayed \ {s}
  /\ UNCHANGED stickVars

\* A new process: it opens a monitor of its own and asks for no devices that
\* are there already.
Restart ==
  /\ udev' = <<>> /\ signalled' = FALSE
  /\ delayed' = {} /\ todo' = {}
=============================================================================
