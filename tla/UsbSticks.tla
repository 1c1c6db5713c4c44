------------------------------ MODULE UsbSticks ------------------------------
(***************************************************************************)
(* What the parts of the DeploymentAgent see of the world: USB sticks that *)
(* people plug in and the system mounts, the package on each of them, and  *)
(* the events of udev.  A package is one archive and one policy file; all  *)
(* of them hold versions of one module.                                    *)
(***************************************************************************)
EXTENDS Naturals, Sequences

CONSTANTS
  Sticks,       \* USB sticks
  Kind,         \* what each stick's archive is: "zip", "tar" or "folder"
  MaxPlugs      \* bound: how often sticks are plugged in, all together

ASSUME KindAssumption == Kind \in [Sticks -> {"zip", "tar", "folder"}]
ASSUME PlugsAssumption == MaxPlugs \in Nat

VARIABLES
  plugged,      \* sticks that are attached
  mounted,      \* sticks that are mounted
  plugs,
  udev,         \* events the agent's udev monitor has not received
  signalled,    \* epoll_wait will report the monitor's descriptor
  usb           \* the files on each stick

deviceVars == <<plugged, mounted, plugs>>
eventVars == <<udev, signalled>>
stickVars == <<deviceVars, eventVars, usb>>

Parts == {"archive", "policy"}

SticksTypeOK ==
  /\ plugged \subseteq Sticks /\ mounted \subseteq plugged
  /\ plugs \in 0..MaxPlugs
  /\ udev \in Seq({"add", "remove"} \X Sticks)
  /\ signalled \in BOOLEAN
  /\ usb \in [Sticks -> SUBSET Parts]

SticksInit ==
  /\ plugged = {} /\ mounted = {} /\ plugs = 0
  /\ udev = <<>> /\ signalled = FALSE
  /\ usb = [s \in Sticks |-> Parts]

\* The monitor's descriptor is edge triggered (EPOLLET).
Report(action, s) ==
  /\ udev' = Append(udev, <<action, s>>)
  /\ signalled' = TRUE

\* The stick carries what was left on it, or a whole package again.
Plug(s) ==
  /\ s \notin plugged /\ plugs < MaxPlugs
  /\ plugged' = plugged \cup {s}
  /\ plugs' = plugs + 1
  /\ usb' \in {usb, [usb EXCEPT ![s] = Parts]}
  /\ Report("add", s)
  /\ UNCHANGED mounted

Mount(s) ==
  /\ s \in plugged \ mounted
  /\ mounted' = mounted \cup {s}
  /\ UNCHANGED <<plugged, plugs, eventVars, usb>>

Unplug(s) ==
  /\ s \in plugged
  /\ plugged' = plugged \ {s} /\ mounted' = mounted \ {s}
  /\ Report("remove", s)
  /\ UNCHANGED <<plugs, usb>>

SticksNext == \E s \in Sticks : Plug(s) \/ Mount(s) \/ Unplug(s)
=============================================================================
