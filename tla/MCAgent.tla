------------------------------- MODULE MCAgent -------------------------------
(***************************************************************************)
(* Instances of Agent and FolderMonitor for TLC.  Both run in the loop of  *)
(* SystemObserver::monitor and share nothing else: a history has events of *)
(* sticks or of the folder.  A stick's name says what its archive is, a    *)
(* file's name how large its events are: two of one fit into the buffer,   *)
(* none of the other.                                                      *)
(***************************************************************************)
EXTENDS Agent, FolderMonitor

CONSTANTS zip1, tar1, folder1, short, long

MCKind ==
  [s \in Sticks |-> CASE s = zip1 -> "zip" [] s = tar1 -> "tar" [] s = folder1 -> "folder"]
MCEventSize == [f \in Names |-> IF f = long THEN 5 ELSE 2]

VARIABLE about    \* "sticks" or "folder", in the whole history

MCInit ==
  /\ Init /\ FolderInit
  /\ \/ about = "sticks" /\ there = {} /\ buffer = 0
     \/ about = "folder"

Folder(A) == about = "folder" /\ A

MCNext ==
  /\ \/ about = "sticks" /\ Next /\ UNCHANGED folderVars
     \/ Folder(FolderNext) /\ UNCHANGED vars
  /\ UNCHANGED about

MCSpec ==
  /\ MCInit /\ [][MCNext]_<<vars, folderVars, about>>
  /\ WF_vars(Observe) /\ WF_vars(Process)
  /\ WF_folderVars(Folder(MonitorFolder)) /\ WF_folderVars(Folder(Rest))
=============================================================================
