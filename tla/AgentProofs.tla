----------------------------- MODULE AgentProofs -----------------------------
(***************************************************************************)
(* The DeploymentAgent's promises, for any sticks and archives, any number *)
(* of plugs and any number of kills: the policy survives in one of its two *)
(* places, a deployment that is broken off puts it back, one that is       *)
(* reported as done has installed its package, and the platform is started *)
(* again.                                                                  *)
(*                                                                         *)
(* And of the FolderMonitor, which shares the loop of SystemObserver with  *)
(* it, for any names, sizes of events and buffers: a file is handed over   *)
(* once, and not while it is in use or gone.                               *)
(***************************************************************************)
EXTENDS Agent, FolderMonitor, FiniteSetTheorems, SequenceTheorems, WellFoundedInduction, TLAPS

Working == Steps \ {"idle", "cleanup", "ended"}

\* Where the pipelines are tells where the policy is ...
PolicyPlace ==
  /\ PolicyOrBackup
  /\ step \notin {"idle", "ended"} => stick \in Sticks
  /\ step = "backupMove" => policy # None
  /\ step \in {"deploy", "deployMove", "restore", "restoreMove"} => backup # None \/ unopened

\* ... and where the policy is that a failure has to bring back ...
BeforePlace ==
  /\ step \in Working => outcome = "refused"
  /\ ~ioError /\ before # None =>
       /\ step \in {"detect", "temp", "moveArchive", "movePolicy", "stop", "unpack",
                    "backup", "backupMove", "fallback"} => policy = before
       /\ step \in {"deploy", "deployMove", "restore", "restoreMove"} => backup = before
       /\ outcome = "aborted" => policy = before

\* ... which parts of the package are in place ...
Unpacked == module = stick \/ Kind[stick] = "folder"
InstalledPart ==
  /\ step \in {"backup", "backupMove", "deploy", "deployMove", "start"} => Unpacked
  /\ step = "start" => policy = stick
  /\ ArchiveInstalls

\* ... and whether a start command is still to come.
PlatformPart ==
  platform = "down" /\ ~excused =>
    step \in {"unpack", "backup", "backupMove", "deploy", "deployMove", "restore",
              "restoreMove", "start", "fallback"}

Inv ==
  /\ step \in Steps
  /\ PolicyPlace /\ BeforePlace /\ InstalledPart /\ PlatformPart

LEMMA InitInv == Init => Inv
BY VersionsAssumption
   DEF Init, PipelineInit, Inv, Steps, PolicyPlace, PolicyOrBackup, BeforePlace, Working,
       InstalledPart, ArchiveInstalls, PlatformPart

\* A step of the pipelines, with its failures.
LEMMA PipelineInv == Inv /\ Pipeline => Inv'
<1> SUFFICES ASSUME Inv, Pipeline PROVE Inv'
  OBVIOUS
<1> USE VersionsAssumption
    DEF Inv, Steps, Go, PolicyPlace, PolicyOrBackup, BeforePlace, Working, InstalledPart,
        Unpacked, ArchiveInstalls, PlatformPart, policyVars, moduleVars, historyVars
<1>1. CASE Detect
  BY <1>1 DEF Detect
<1>2. CASE MakeTemp
  BY <1>2 DEF MakeTemp
<1>3. CASE MoveArchive
  BY <1>3 DEF MoveArchive
<1>4. CASE MovePolicy
  BY <1>4 DEF MovePolicy
<1>5. CASE Cleanup
  BY <1>5 DEF Cleanup
<1>6. CASE StopPlatform
  BY <1>6 DEF StopPlatform
<1>7. CASE Unpack
  BY <1>7 DEF Unpack
<1>8. CASE Backup
  <2>1. CASE Go("backup", "deploy")
    <3>1. /\ ~ioError' => ~ioError /\ policy = None
          /\ unopened' \/ (~unopened /\ policy = None)
      BY <1>8, <2>1, Zenon DEF Backup
    <3>2. /\ step = "backup" /\ step' = "deploy"
          /\ UNCHANGED <<policy, backup, module, platform, stick, before, outcome, excused>>
      BY <1>8, <2>1 DEF Backup
    <3> QED
      BY <3>1, <3>2
  <2>2. CASE Go("backup", "backupMove")
    BY <1>8, <2>2 DEF Backup
  <2> QED
    BY <1>8, <2>1, <2>2 DEF Backup
<1>9. CASE BackupMove
  BY <1>9 DEF BackupMove
<1>10. CASE Deploy
  BY <1>10 DEF Deploy, RemovePolicy
<1>11. CASE Restore
  BY <1>11 DEF Restore, RemovePolicy
<1>12. CASE RestoreMove
  BY <1>12 DEF RestoreMove
<1>13. CASE StartPlatform
  BY <1>13 DEF StartPlatform, StartCommand
<1>14. CASE Fallback
  BY <1>14 DEF Fallback, StartCommand
<1>15. CASE DeployMove
  BY <1>15 DEF DeployMove
<1> QED
  BY <1>1, <1>2, <1>3, <1>4, <1>5, <1>6, <1>7, <1>8, <1>9, <1>10, <1>11, <1>12,
     <1>13, <1>14, <1>15 DEF Pipeline

\* The invariant holds whatever the sticks do and whenever the agent is killed.
LEMMA NextInv == Inv /\ [Next]_vars => Inv'
<1> SUFFICES ASSUME Inv, [Next]_vars PROVE Inv'
  OBVIOUS
<1>1. ASSUME UNCHANGED pipelineVars PROVE Inv'
  BY <1>1
     DEF Inv, PolicyPlace, PolicyOrBackup, BeforePlace, InstalledPart, Unpacked,
         ArchiveInstalls, PlatformPart, pipelineVars, policyVars, moduleVars, historyVars
<1>2. ASSUME NEW s \in Sticks, Begin(s) PROVE Inv'
  BY <1>2, VersionsAssumption
     DEF Begin, Go, Inv, Steps, Working, PolicyPlace, PolicyOrBackup, BeforePlace,
         InstalledPart, ArchiveInstalls, PlatformPart, policyVars, moduleVars
<1>3. CASE Pipeline
  BY <1>3, PipelineInv
<1>4. CASE Crash
  BY <1>4
     DEF Crash, Inv, Steps, Working, PolicyPlace, PolicyOrBackup, BeforePlace,
         InstalledPart, Unpacked, ArchiveInstalls, PlatformPart, policyVars, moduleVars
<1>5. CASE Launch
  BY <1>5
     DEF Launch, Go, Inv, Steps, Working, PolicyPlace, PolicyOrBackup, BeforePlace,
         InstalledPart, Unpacked, ArchiveInstalls, PlatformPart, policyVars, moduleVars,
         historyVars
<1> QED
  BY <1>1, <1>2, <1>3, <1>4, <1>5 DEF Next, Observe, Process, vars

\* Where the pipelines are tells which files exist and how far a package got,
\* under any order of failures, kills and sticks; the theorems below follow.
THEOREM Invariance == Spec => []Inv
<1>1. Init => Inv
  BY InitInv
<1>2. Inv /\ [Next]_vars => Inv'
  BY NextInv
<1> QED
  BY <1>1, <1>2, PTL DEF Spec

\* backupPolicy, moveFile and restorePolicy never leave the platform without
\* both its policy file and its backup, but for a policy file that was there and
\* could not be opened (deploy_pipeline.h:100-103).
THEOREM PolicySurvives == Spec => []PolicyOrBackup
<1>1. Inv => PolicyOrBackup
  BY DEF Inv, PolicyPlace
<1> QED
  BY <1>1, Invariance, PTL

\* restorePolicy brings back the policy of before, if it could be opened and
\* remove and rename work, whatever becomes of the copy of the new one.
THEOREM PolicyIsRestored == Spec => []RestoredAfterFailure
<1>1. Inv => RestoredAfterFailure
  BY DEF Inv, BeforePlace, RestoredAfterFailure
<1> QED
  BY <1>1, Invariance, PTL

\* A deployment ends as installed only with policy and archive in place.
THEOREM SuccessIsInstalled == Spec => []ArchiveInstalls
<1>1. Inv => ArchiveInstalls
  BY DEF Inv, InstalledPart
<1> QED
  BY <1>1, Invariance, PTL

\* Every way out of DeployPipeline after a stop command that worked has given a
\* start command.
THEOREM PlatformIsStarted == Spec => []PlatformComesBack
<1>1. Inv => PlatformComesBack
  BY DEF Inv, PlatformPart, PlatformComesBack
<1> QED
  BY <1>1, Invariance, PTL

-----------------------------------------------------------------------------
(* Types.  A signal of the monitor means that an event is there to receive. *)

Signal == signalled => udev # <<>>
TypeInv == TypeOK /\ Signal

\* What the sticks do.
LEMMA SticksType == TypeInv /\ SticksNext /\ UNCHANGED monitorVars =>
                    SticksTypeOK' /\ MonitorTypeOK' /\ Signal'
<1> SUFFICES ASSUME TypeInv, NEW s \in Sticks, Plug(s) \/ Mount(s) \/ Unplug(s),
                    UNCHANGED monitorVars
             PROVE SticksTypeOK' /\ MonitorTypeOK' /\ Signal'
  BY DEF SticksNext
<1> USE PlugsAssumption
    DEF TypeInv, TypeOK, SticksTypeOK, MonitorTypeOK, Signal, Report, deviceVars, eventVars,
        monitorVars
<1>1. <<"add", s>> \in {"add", "remove"} \X Sticks /\ <<"remove", s>> \in {"add", "remove"} \X Sticks
  OBVIOUS
<1>2. CASE Plug(s)
  <2>1. plugged' \subseteq Sticks /\ mounted' \subseteq plugged' /\ plugs' \in 0..MaxPlugs
    BY <1>2 DEF Plug
  <2>2. udev' \in Seq({"add", "remove"} \X Sticks) /\ udev' # <<>> /\ signalled' = TRUE
    BY <1>1, <1>2 DEF Plug
  <2>3. usb' \in [Sticks -> SUBSET Parts]
    <3>1. [usb EXCEPT ![s] = Parts] \in [Sticks -> SUBSET Parts]
      OBVIOUS
    <3> QED
      BY <1>2, <3>1 DEF Plug
  <2>4. MonitorTypeOK'
    OBVIOUS
  <2> QED
    BY <2>1, <2>2, <2>3, <2>4
<1>3. CASE Mount(s)
  BY <1>3 DEF Mount
<1>4. CASE Unplug(s)
  BY <1>1, <1>4 DEF Unplug
<1> QED
  BY <1>2, <1>3, <1>4

\* What the observer does.
LEMMA ObserverType ==
  TypeInv /\ (Await \/ \E s \in Sticks : Pass(s) \/ Consume(s)) =>
    SticksTypeOK' /\ MonitorTypeOK' /\ Signal'
<1> SUFFICES ASSUME TypeInv PROVE Await \/ (\E s \in Sticks : Pass(s) \/ Consume(s))
                                  => SticksTypeOK' /\ MonitorTypeOK' /\ Signal'
  OBVIOUS
<1> USE DEF TypeInv, TypeOK, SticksTypeOK, MonitorTypeOK, Signal, stickVars, deviceVars, eventVars
<1>1. CASE Await /\ signalled
  <2>1. udev # <<>> /\ udev \in Seq({"add", "remove"} \X Sticks)
    BY <1>1
  <2>2. Head(udev) \in {"add", "remove"} \X Sticks /\ Tail(udev) \in Seq({"add", "remove"} \X Sticks)
    BY <2>1
  <2>3. Head(udev)[2] \in Sticks
    BY <2>2
  <2> QED
    BY <1>1, <2>2, <2>3 DEF Await
<1>2. CASE Await /\ ~signalled
  BY <1>2 DEF Await
<1>3. ASSUME NEW s \in Sticks, Pass(s) PROVE SticksTypeOK' /\ MonitorTypeOK' /\ Signal'
  BY <1>3 DEF Pass
<1>4. ASSUME NEW s \in Sticks, Consume(s) PROVE SticksTypeOK' /\ MonitorTypeOK' /\ Signal'
  BY <1>4 DEF Consume
<1> QED
  BY <1>1, <1>2, <1>3, <1>4

\* The flags of the history, apart from the data: they are Boolean.
Flags == ioError \in BOOLEAN /\ unopened \in BOOLEAN /\ excused \in BOOLEAN
Data ==
  /\ tmp \subseteq Parts
  /\ policy \in Files /\ backup \in Files /\ module \in Files /\ nested \in Files
  /\ platform \in {"up", "down"}
  /\ step \in Steps /\ stick \in Sticks \cup {None}
  /\ crashes \in 0..MaxCrashes
  /\ before \in Files /\ outcome \in Outcomes

LEMMA TypeParts == PipelineTypeOK <=> Data /\ Flags
BY Zenon DEF PipelineTypeOK, Data, Flags

LEMMA FileNames == None \in Files /\ Broken \in Files /\ \A s \in Sticks : s \in Files
BY DEF Files, Versions

\* What the pipelines do: they change the files on a stick, but not what is
\* known of the devices.
LEMMA PipelineFlags == Flags /\ Pipeline => Flags'
<1> SUFFICES ASSUME Flags, Pipeline PROVE Flags'
  OBVIOUS
<1> USE DEF Flags, historyVars
<1>1. CASE Detect
  BY <1>1, Zenon DEF Detect
<1>2. CASE MakeTemp
  BY <1>2, Zenon DEF MakeTemp
<1>3. CASE MoveArchive
  BY <1>3, Zenon DEF MoveArchive, CopyOff
<1>4. CASE MovePolicy
  BY <1>4, Zenon DEF MovePolicy, CopyOff
<1>5. CASE Cleanup
  BY <1>5, Zenon DEF Cleanup
<1>6. CASE StopPlatform
  BY <1>6, Zenon DEF StopPlatform
<1>7. CASE Unpack
  BY <1>7, Zenon DEF Unpack
<1>8. CASE Backup
  BY <1>8, Zenon DEF Backup
<1>9. CASE BackupMove
  BY <1>9, Zenon DEF BackupMove
<1>10. CASE Deploy
  BY <1>10, Zenon DEF Deploy, RemovePolicy
<1>11. CASE Restore
  BY <1>11, Zenon DEF Restore, RemovePolicy
<1>12. CASE RestoreMove
  BY <1>12, Zenon DEF RestoreMove
<1>13. CASE StartPlatform
  BY <1>13, Zenon DEF StartPlatform, StartCommand
<1>14. CASE Fallback
  BY <1>14, Zenon DEF Fallback, StartCommand
<1>15. CASE DeployMove
  BY <1>15, Zenon DEF DeployMove
<1> QED
  BY <1>1, <1>2, <1>3, <1>4, <1>5, <1>6, <1>7, <1>8, <1>9, <1>10, <1>11, <1>12,
     <1>13, <1>14, <1>15 DEF Pipeline

LEMMA PipelineData ==
  Data /\ usb \in [Sticks -> SUBSET Parts] /\ (step \notin {"idle", "ended"} => stick \in Sticks)
    /\ Pipeline
    => Data' /\ usb' \in [Sticks -> SUBSET Parts]
<1> SUFFICES ASSUME Data, usb \in [Sticks -> SUBSET Parts],
                    step \notin {"idle", "ended"} => stick \in Sticks,
                    Pipeline
             PROVE Data' /\ usb' \in [Sticks -> SUBSET Parts]
  OBVIOUS
<1> USE FileNames DEF Data, Steps, Go, Outcomes, Parts, policyVars, moduleVars, historyVars
<1>1. CASE Detect
  BY <1>1 DEF Detect
<1>2. CASE MakeTemp
  BY <1>2 DEF MakeTemp
<1>3. CASE MoveArchive
  BY <1>3 DEF MoveArchive, CopyOff
<1>4. CASE MovePolicy
  BY <1>4 DEF MovePolicy, CopyOff
<1>5. CASE Cleanup
  BY <1>5 DEF Cleanup
<1>6. CASE StopPlatform
  BY <1>6 DEF StopPlatform
<1>7. CASE Unpack
  BY <1>7 DEF Unpack
<1>8. CASE Backup
  BY <1>8 DEF Backup
<1>9. CASE BackupMove
  BY <1>9 DEF BackupMove
<1>10. CASE Deploy
  BY <1>10 DEF Deploy, RemovePolicy
<1>11. CASE Restore
  BY <1>11 DEF Restore, RemovePolicy
<1>12. CASE RestoreMove
  BY <1>12 DEF RestoreMove
<1>13. CASE StartPlatform
  BY <1>13 DEF StartPlatform, StartCommand
<1>14. CASE Fallback
  BY <1>14 DEF Fallback, StartCommand
<1>15. CASE DeployMove
  BY <1>15 DEF DeployMove
<1> QED
  BY <1>1, <1>2, <1>3, <1>4, <1>5, <1>6, <1>7, <1>8, <1>9, <1>10, <1>11, <1>12,
     <1>13, <1>14, <1>15 DEF Pipeline

LEMMA InitType == Init => TypeInv
<1> SUFFICES ASSUME Init PROVE TypeInv
  OBVIOUS
<1>1. SticksTypeOK /\ MonitorTypeOK /\ Signal
  <2>1. signalled \in BOOLEAN /\ Signal
    BY Zenon DEF Init, SticksInit, Signal
  <2> QED
    BY <2>1, PlugsAssumption DEF Init, SticksInit, MonitorInit, SticksTypeOK, MonitorTypeOK
<1>2. PipelineTypeOK
  <2>1. Data
    BY CrashesAssumption
       DEF Init, PipelineInit, Data, Files, Versions, Steps, Outcomes, Parts
  <2>2. Flags
    BY Zenon DEF Init, PipelineInit, Flags
  <2> QED
    BY <2>1, <2>2, TypeParts
<1> QED
  BY <1>1, <1>2 DEF TypeInv, TypeOK

LEMMA NextType == Inv /\ TypeInv /\ [Next]_vars => TypeInv'
<1> SUFFICES ASSUME Inv, TypeInv, [Next]_vars PROVE TypeInv'
  OBVIOUS
<1>1. UNCHANGED pipelineVars => PipelineTypeOK'
  BY DEF TypeInv, TypeOK, PipelineTypeOK, pipelineVars, policyVars, moduleVars, historyVars
<1>2. CASE Observe
  <2>1. SticksTypeOK' /\ MonitorTypeOK' /\ Signal'
    BY <1>2, ObserverType DEF Observe, Consume, stickVars
  <2>2. ASSUME NEW s \in Sticks, Begin(s) PROVE PipelineTypeOK'
    <3>1. Data /\ Flags
      BY TypeParts DEF TypeInv, TypeOK
    <3>2. Data'
      BY <2>2, <3>1 DEF Begin, Go, Data, Steps, Outcomes, policyVars, moduleVars
    <3>3. Flags'
      BY <2>2, <3>1, Zenon DEF Begin, Flags
    <3> QED
      BY <3>2, <3>3, Zenon DEF PipelineTypeOK, Data, Flags
  <2> QED
    BY <1>1, <1>2, <2>1, <2>2 DEF Observe, TypeInv, TypeOK
<1>3. CASE Process
  <2>1. PipelineTypeOK' /\ usb' \in [Sticks -> SUBSET Parts]
    <3>1. Data /\ Flags /\ usb \in [Sticks -> SUBSET Parts]
      BY TypeParts DEF TypeInv, TypeOK, SticksTypeOK
    <3>2. step \notin {"idle", "ended"} => stick \in Sticks
      BY DEF Inv, PolicyPlace
    <3>3. Pipeline
      BY <1>3 DEF Process
    <3> QED
      BY <3>1, <3>2, <3>3, PipelineData, PipelineFlags, Zenon DEF PipelineTypeOK, Data, Flags
  <2>2. UNCHANGED <<deviceVars, eventVars, monitorVars>>
    BY <1>3 DEF Process
  <2> QED
    BY <2>1, <2>2
       DEF TypeInv, TypeOK, SticksTypeOK, MonitorTypeOK, Signal, deviceVars, eventVars, monitorVars
<1>4. CASE Crash /\ UNCHANGED <<deviceVars, eventVars, monitorVars>>
  <2>1. PipelineTypeOK'
    <3>1. Data /\ Flags
      BY TypeParts DEF TypeInv, TypeOK
    <3>2. Data'
      BY <1>4, <3>1, CrashesAssumption
         DEF Crash, Data, Steps, Outcomes, policyVars, moduleVars
    <3>3. Flags'
      BY <1>4, <3>1, Zenon DEF Crash, Flags
    <3> QED
      BY <3>2, <3>3, Zenon DEF PipelineTypeOK, Data, Flags
  <2>2. SticksTypeOK' /\ MonitorTypeOK' /\ Signal'
    BY <1>4
       DEF Crash, TypeInv, TypeOK, SticksTypeOK, MonitorTypeOK, Signal, deviceVars, eventVars,
           monitorVars
  <2> QED
    BY <2>1, <2>2 DEF TypeInv, TypeOK
<1>5. CASE Launch /\ Restart /\ UNCHANGED deviceVars
  <2>1. PipelineTypeOK'
    <3>1. Data /\ Flags
      BY TypeParts DEF TypeInv, TypeOK
    <3>2. Data'
      BY <1>5, <3>1 DEF Launch, Go, Data, Steps, policyVars, moduleVars, historyVars
    <3>3. Flags'
      BY <1>5, <3>1, Zenon DEF Launch, Flags, historyVars
    <3> QED
      BY <3>2, <3>3, Zenon DEF PipelineTypeOK, Data, Flags
  <2>2. SticksTypeOK' /\ MonitorTypeOK' /\ Signal'
    <3>1. signalled' \in BOOLEAN /\ Signal'
      BY <1>5, Zenon DEF Restart, Signal
    <3>2. udev' = <<>> /\ delayed' = {} /\ todo' = {}
      BY <1>5, Zenon DEF Restart
    <3>3. UNCHANGED <<plugged, mounted, plugs, usb>>
      BY <1>5 DEF Launch, deviceVars
    <3> QED
      BY <3>1, <3>2, <3>3 DEF TypeInv, TypeOK, SticksTypeOK, MonitorTypeOK
  <2> QED
    BY <2>1, <2>2 DEF TypeInv, TypeOK
<1>6. CASE SticksNext /\ UNCHANGED <<monitorVars, pipelineVars>>
  BY <1>1, <1>6, SticksType DEF TypeInv, TypeOK
<1>7. CASE UNCHANGED vars
  BY <1>1, <1>7
     DEF vars, TypeInv, TypeOK, SticksTypeOK, MonitorTypeOK, Signal, stickVars, deviceVars,
         eventVars, monitorVars
<1> QED
  BY <1>2, <1>3, <1>4, <1>5, <1>6, <1>7 DEF Next

\* Type correctness of the agent, its files and the udev queue, for any sticks:
\* with it, Head and Tail are never taken of an empty queue.
THEOREM TypeCorrect == Spec => []TypeOK
<1>1. Init => TypeInv
  BY InitType
<1>2. Inv /\ TypeInv /\ [Next]_vars => TypeInv'
  BY NextType
<1>3. TypeInv => TypeOK
  BY DEF TypeInv
<1> QED
  BY <1>1, <1>2, <1>3, Invariance, PTL DEF Spec

-----------------------------------------------------------------------------
(* Induction, as facts about sets and functions. *)

LEMMA Least ==
  ASSUME NEW T, T \subseteq Nat, T # {}
  PROVE  \E x \in T : \A y \in T : x <= y
<1> DEFINE R == OpToRel(<, Nat)
<1>1. \A x, y \in Nat : x < y => <<x, y>> \in R
  BY DEF OpToRel
<1>2. IsWellFoundedOn(R, Nat)
  BY NatLessThanWellFounded
<1> HIDE DEF R
<1>3. PICK x \in T : \A y \in T : ~(<<y, x>> \in R)
  BY <1>2, WFMin
<1>4. \A y \in T : ~(y < x)
  <2> TAKE y \in T
  <2>1. y \in Nat /\ x \in Nat /\ ~(<<y, x>> \in R)
    BY <1>3
  <2> QED
    BY <1>1, <2>1, Zenon
<1>5. \A y \in T : y \in Nat /\ x \in Nat
  OBVIOUS
<1> QED
  BY <1>4, <1>5

\* What holds of 0 and of each number after one that it holds of: as a set.
LEMMA UpTo ==
  ASSUME NEW k \in Nat, NEW T, T \subseteq 0..k, 0 \in T,
         \A i \in 1..k : i - 1 \in T => i \in T
  PROVE  \A i \in 0..k : i \in T
<1> SUFFICES ASSUME (0..k) \ T # {} PROVE FALSE
  OBVIOUS
<1>1. (0..k) \ T \subseteq Nat
  OBVIOUS
<1>2. PICK m \in (0..k) \ T : \A y \in (0..k) \ T : m <= y
  BY <1>1, Least
<1>3. m \in 1..k
  BY <1>2
<1>4. m - 1 \in T
  BY <1>2, <1>3
<1> QED
  BY <1>3, <1>4

\* A recursive definition over an initial segment of the numbers has a solution.
LEMMA Recursion ==
  ASSUME NEW D, NEW d \in D, NEW n \in Nat, NEW G \in [1..n -> [D -> D]]
  PROVE  \E h \in [0..n -> D] : h[0] = d /\ \A i \in 1..n : h[i] = G[i][h[i - 1]]
<1> DEFINE Solves(h, m) == h[0] = d /\ \A i \in 1..m : h[i] = G[i][h[i - 1]]
           T == {m \in 0..n : \E h \in [0..m -> D] : Solves(h, m)}
<1>1. 0 \in T
  <2>1. Solves([i \in 0..0 |-> d], 0) /\ [i \in 0..0 |-> d] \in [0..0 -> D]
    OBVIOUS
  <2>2. \E h \in [0..0 -> D] : Solves(h, 0)
    <3> HIDE DEF Solves
    <3> QED
      BY <2>1
  <2> HIDE DEF Solves
  <2> QED
    BY <2>2
<1>2. ASSUME NEW m \in 1..n, m - 1 \in T PROVE m \in T
  <2>1. PICK h \in [0..(m - 1) -> D] : Solves(h, m - 1)
    BY <1>2
  <2> DEFINE g == [i \in 0..m |-> IF i = m THEN G[m][h[m - 1]] ELSE h[i]]
  <2>2. h[m - 1] \in D /\ G[m][h[m - 1]] \in D
    OBVIOUS
  <2>3. g \in [0..m -> D]
    BY <2>2
  <2>4. g[0] = d
    BY <2>1
  <2>5. ASSUME NEW i \in 1..m PROVE g[i] = G[i][g[i - 1]]
    <3>1. g[i - 1] = h[i - 1]
      OBVIOUS
    <3>2. CASE i = m
      BY <3>1, <3>2
    <3>3. CASE i # m
      <4>1. i \in 1..(m - 1) /\ g[i] = h[i]
        BY <3>3
      <4> QED
        BY <2>1, <3>1, <4>1
    <3> QED
      BY <3>2, <3>3
  <2>6. Solves(g, m)
    BY <2>4, <2>5
  <2>7. \E e \in [0..m -> D] : Solves(e, m)
    <3> HIDE DEF g, Solves
    <3> QED
      BY <2>3, <2>6
  <2> HIDE DEF Solves
  <2> QED
    BY <2>7
<1>3. T \subseteq 0..n
  OBVIOUS
<1> HIDE DEF T
<1>4. n \in T
  <2>1. \A i \in 0..n : i \in T
    BY <1>1, <1>2, <1>3, UpTo
  <2> QED
    BY <2>1
<1> QED
  BY <1>4 DEF T

-----------------------------------------------------------------------------
(* The watched folder. *)

WatchedFiles == [path : Names, inUse : BOOLEAN, consumed : BOOLEAN, rested : BOOLEAN]
Masks == {"create", "open", "close", "delete"}

FolderTypes ==
  /\ there \in SUBSET Names /\ openers \in [Names -> Nat]
  /\ queue \in Seq(Masks \X Names) /\ buffer \in Nat
  /\ watchedFiles \in Seq(WatchedFiles)
  /\ created \in [Names -> Nat] /\ handed \in [Names -> Nat]
  /\ crossed \in SUBSET Names

LEMMA LeastOf ==
  ASSUME NEW S, S \subseteq Nat, S # {}
  PROVE  Min(S) \in S /\ \A x \in S : Min(S) <= x
<1>1. \E x \in S : \A y \in S : x <= y
  BY Least
<1> QED
  BY <1>1, Zenon DEF Min

LEMMA MaxOfSome ==
  ASSUME NEW n \in Nat, NEW S, S \subseteq 0..n, S # {}
  PROVE  Max(S) \in S
<1> DEFINE gaps == {n - x : x \in S}
<1>1. gaps \subseteq Nat /\ gaps # {}
  <2>1. \A x \in S : n - x \in Nat
    OBVIOUS
  <2> QED
    BY <2>1
<1>2. PICK y \in gaps : \A z \in gaps : y <= z
  BY <1>1, Least
<1>3. PICK x \in S : y = n - x
  BY <1>2
<1>4. \A z \in S : x >= z
  <2> TAKE z \in S
  <2>1. y <= n - z /\ x \in Nat /\ z \in Nat
    BY <1>2
  <2> QED
    BY <1>3, <2>1
<1>5. \E v \in S : \A z \in S : v >= z
  BY <1>4
<1> QED
  BY <1>5, Zenon DEF Max

LEMMA PositionOf ==
  ASSUME NEW files \in Seq(WatchedFiles), NEW f
  PROVE  LET i == Position(files, f)
         IN /\ i \in 1..(Len(files) + 1)
            /\ i <= Len(files) => files[i].path = f
            /\ i > Len(files) => \A j \in DOMAIN files : files[j].path # f
<1> DEFINE S == {i \in DOMAIN files : files[i].path = f} \cup {Len(files) + 1}
<1>1. S \subseteq 1..(Len(files) + 1) /\ S # {}
  <2>1. Len(files) \in Nat /\ DOMAIN files = 1..Len(files)
    OBVIOUS
  <2> QED
    BY <2>1
<1>2. \A i \in S : i <= Len(files) => files[i].path = f
  <2>1. Len(files) \in Nat /\ ~(Len(files) + 1 <= Len(files))
    OBVIOUS
  <2> QED
    BY <2>1, Zenon
<1>3. \A j \in DOMAIN files : files[j].path = f => j \in S /\ j <= Len(files)
  <2>1. \A j \in DOMAIN files : j <= Len(files)
    OBVIOUS
  <2> QED
    BY <2>1
<1>4. Position(files, f) = Min(S)
  BY DEF Position
<1> HIDE DEF S
<1>5. S \subseteq Nat
  BY <1>1
<1>6. Min(S) \in S /\ \A x \in S : Min(S) <= x
  BY <1>1, <1>5, LeastOf
<1> DEFINE p == Min(S)
<1>7. p \in 1..(Len(files) + 1) /\ (p <= Len(files) => files[p].path = f)
  BY <1>1, <1>2, <1>6
<1>8. p > Len(files) => \A j \in DOMAIN files : files[j].path # f
  <2> SUFFICES ASSUME p > Len(files), NEW j \in DOMAIN files, files[j].path = f PROVE FALSE
    OBVIOUS
  <2>1. j \in S /\ j <= Len(files) /\ p <= j
    BY <1>3, <1>6
  <2>2. j \in Nat /\ p \in Nat /\ Len(files) \in Nat
    BY <1>7
  <2> QED
    BY <2>1, <2>2
<1> HIDE DEF p
<1> QED
  BY <1>4, <1>7, <1>8 DEF p

\* An event of a file ...
Appends(files, after, f) ==
  /\ Len(after) = Len(files) + 1
  /\ \A j \in DOMAIN files : after[j] = files[j]
  /\ after[Len(files) + 1] = WatchedFile(f)

Ignores(files, after, f) ==
  /\ \A j \in DOMAIN files : files[j].path # f
  /\ after = files

Removes(files, after, f, i) ==
  /\ files[i].path = f /\ Len(after) = Len(files) - 1
  /\ \A j \in 1..(Len(files) - 1) : after[j] = IF j < i THEN files[j] ELSE files[j + 1]

Changes(files, after, f, i, open) ==
  /\ files[i].path = f /\ Len(after) = Len(files)
  /\ \A j \in DOMAIN files : j # i => after[j] = files[j]
  /\ after[i].path = f /\ (after[i].inUse <=> open) /\ after[i].consumed = files[i].consumed

\* ... adds it, is ignored, takes it away or changes it.
LEMMA EventCases ==
  ASSUME NEW files \in Seq(WatchedFiles), NEW mask \in Masks, NEW f \in Names
  PROVE  LET after == HandleEvent(files, <<mask, f>>)
         IN /\ after \in Seq(WatchedFiles)
            /\ \/ mask = "create" /\ Appends(files, after, f)
               \/ mask # "create" /\ Ignores(files, after, f)
               \/ mask = "delete" /\ \E i \in DOMAIN files : Removes(files, after, f, i)
               \/ /\ mask \in {"open", "close"}
                  /\ \E i \in DOMAIN files : Changes(files, after, f, i, mask = "open")
<1> DEFINE event == <<mask, f>>
           i == Position(files, f)
           after == HandleEvent(files, event)
<1>1. event[1] = mask /\ event[2] = f
  OBVIOUS
<1>2. /\ i \in 1..(Len(files) + 1)
      /\ i <= Len(files) => files[i].path = f
      /\ i > Len(files) => \A j \in DOMAIN files : files[j].path # f
  BY PositionOf
<1>3. after = IF mask = "create" THEN Append(files, WatchedFile(f))
              ELSE IF i > Len(files) THEN files
              ELSE IF mask = "delete" THEN RemoveAt(files, i)
              ELSE [files EXCEPT ![i] = HandleStateChange(@, mask)]
  BY <1>1, Zenon DEF HandleEvent
<1>4. Len(files) \in Nat /\ DOMAIN files = 1..Len(files)
  OBVIOUS
<1> HIDE DEF i, after
<1>5. CASE mask = "create"
  <2>1. after = Append(files, WatchedFile(f))
    BY <1>3, <1>5
  <2>2. WatchedFile(f) \in WatchedFiles
    BY DEF WatchedFile, WatchedFiles
  <2>3. after \in Seq(WatchedFiles) /\ Appends(files, after, f)
    BY <2>1, <2>2 DEF Appends
  <2> QED
    BY <1>5, <2>3 DEF after
<1>6. CASE mask # "create" /\ i > Len(files)
  <2>1. after = files
    BY <1>3, <1>6
  <2>2. Ignores(files, after, f)
    BY <1>2, <1>6, <2>1 DEF Ignores
  <2> QED
    BY <1>6, <2>1, <2>2 DEF after
<1>7. CASE mask = "delete" /\ ~(i > Len(files))
  <2>1. after = SubSeq(files, 1, i - 1) \o SubSeq(files, i + 1, Len(files))
    BY <1>3, <1>7 DEF RemoveAt
  <2>2. i \in 1..Len(files) /\ files[i].path = f
    BY <1>2, <1>4, <1>7
  <2>3. /\ after \in Seq(WatchedFiles) /\ Len(after) = Len(files) - 1
        /\ \A j \in 1..(Len(files) - 1) : after[j] = IF j < i THEN files[j] ELSE files[j + 1]
    <3> DEFINE u == SubSeq(files, 1, i - 1)
               v == SubSeq(files, i + 1, Len(files))
    <3>1. /\ u \in Seq(WatchedFiles) /\ Len(u) = i - 1
          /\ \A j \in 1..(i - 1) : u[j] = files[j]
      BY <2>2
    <3>2. /\ v \in Seq(WatchedFiles) /\ Len(v) = Len(files) - i
          /\ \A j \in 1..(Len(files) - i) : v[j] = files[j + i]
      BY <2>2
    <3>3. after = u \o v
      BY <2>1
    <3> HIDE DEF u, v
    <3>4. after \in Seq(WatchedFiles) /\ Len(after) = Len(files) - 1
      <4>1. u \o v \in Seq(WatchedFiles) /\ Len(u \o v) = Len(u) + Len(v)
        BY <3>1, <3>2, ConcatProperties
      <4> QED
        BY <1>4, <2>2, <3>1, <3>2, <3>3, <4>1
    <3>5. ASSUME NEW j \in 1..(Len(files) - 1)
          PROVE  after[j] = IF j < i THEN files[j] ELSE files[j + 1]
      <4>1. CASE j < i
        BY <1>4, <2>2, <3>1, <3>2, <3>3, <4>1
      <4>2. CASE ~(j < i)
        <5>1. j - (i - 1) \in 1..(Len(files) - i) /\ after[j] = v[j - (i - 1)]
          BY <1>4, <2>2, <3>1, <3>2, <3>3, <4>2
        <5> QED
          BY <1>4, <2>2, <3>2, <4>2, <5>1
      <4> QED
        BY <4>1, <4>2
    <3> QED
      BY <3>4, <3>5
  <2>4. Removes(files, after, f, i)
    BY <2>2, <2>3 DEF Removes
  <2> QED
    BY <1>4, <1>7, <2>2, <2>3, <2>4 DEF after
<1>8. CASE mask \notin {"create", "delete"} /\ ~(i > Len(files))
  <2>1. after = [files EXCEPT ![i] = HandleStateChange(files[i], mask)]
    BY <1>3, <1>8
  <2>2. i \in 1..Len(files) /\ files[i].path = f /\ files[i] \in WatchedFiles
    BY <1>2, <1>4, <1>8
  <2> DEFINE w == HandleStateChange(files[i], mask)
  <2>3. /\ w \in WatchedFiles /\ w.path = files[i].path /\ w.consumed = files[i].consumed
        /\ w.inUse <=> mask = "open"
    BY <2>2 DEF HandleStateChange, WatchedFiles
  <2> HIDE DEF w
  <2>4. /\ after \in Seq(WatchedFiles) /\ Len(after) = Len(files) /\ after[i] = w
        /\ \A j \in DOMAIN files : j # i => after[j] = files[j]
    BY <2>1, <2>2, <2>3 DEF w
  <2>5. Changes(files, after, f, i, mask = "open")
    BY <2>2, <2>3, <2>4 DEF Changes
  <2>6. mask \in {"open", "close"}
    BY <1>8 DEF Masks
  <2> QED
    BY <1>4, <2>2, <2>4, <2>5, <2>6 DEF after
<1> QED
  BY <1>5, <1>6, <1>7, <1>8

Fates == {"gone", "closed", "open"}

\* What the monitor knows of a file is its state.
Known(files, f, fate) ==
  /\ \A i \in DOMAIN files :
       files[i].path = f => fate # "gone" /\ (files[i].inUse <=> fate = "open")
  /\ \A i, j \in DOMAIN files : files[i].path = f /\ files[j].path = f => i = j

\* An event takes a file from a state to the next one.
Leads(old, mask, after) ==
  \/ mask = "create" /\ old = "gone" /\ after = "closed"
  \/ mask = "open" /\ old = "closed" /\ after = "open"
  \/ mask = "close" /\ old = "open" /\ after = "closed"
  \/ mask = "delete" /\ old = "closed" /\ after = "gone"

LEMMA KnownOfOthers ==
  ASSUME NEW files \in Seq(WatchedFiles), NEW mask \in Masks, NEW f \in Names,
         NEW g \in Names \ {f}, NEW fate, Known(files, g, fate)
  PROVE  Known(HandleEvent(files, <<mask, f>>), g, fate)
<1> DEFINE after == HandleEvent(files, <<mask, f>>)
<1>1. Len(files) \in Nat /\ DOMAIN files = 1..Len(files)
  OBVIOUS
<1>2. /\ after \in Seq(WatchedFiles)
      /\ \/ mask = "create" /\ Appends(files, after, f)
         \/ mask # "create" /\ Ignores(files, after, f)
         \/ mask = "delete" /\ \E i \in DOMAIN files : Removes(files, after, f, i)
         \/ /\ mask \in {"open", "close"}
            /\ \E i \in DOMAIN files : Changes(files, after, f, i, mask = "open")
  BY EventCases
<1> SUFFICES Known(after, g, fate)
  OBVIOUS
<1> HIDE DEF after
<1>3. DOMAIN after = 1..Len(after)
  BY <1>2
<1>4. CASE Appends(files, after, f)
  BY <1>1, <1>3, <1>4 DEF Appends, Known, WatchedFile
<1>5. CASE Ignores(files, after, f)
  BY <1>5 DEF Ignores
<1>6. CASE \E i \in DOMAIN files : Removes(files, after, f, i)
  BY <1>1, <1>3, <1>6 DEF Removes, Known
<1>7. CASE \E i \in DOMAIN files : Changes(files, after, f, i, mask = "open")
  BY <1>1, <1>3, <1>7 DEF Changes, Known
<1> QED
  BY <1>2, <1>4, <1>5, <1>6, <1>7

LEMMA KnownAfterEvent ==
  ASSUME NEW files \in Seq(WatchedFiles), NEW mask \in Masks, NEW f \in Names,
         NEW old, NEW fate, Known(files, f, old), Leads(old, mask, fate)
  PROVE  Known(HandleEvent(files, <<mask, f>>), f, fate)
<1> DEFINE after == HandleEvent(files, <<mask, f>>)
<1>1. Len(files) \in Nat /\ DOMAIN files = 1..Len(files)
  OBVIOUS
<1>2. /\ after \in Seq(WatchedFiles)
      /\ \/ mask = "create" /\ Appends(files, after, f)
         \/ mask # "create" /\ Ignores(files, after, f)
         \/ mask = "delete" /\ \E i \in DOMAIN files : Removes(files, after, f, i)
         \/ /\ mask \in {"open", "close"}
            /\ \E i \in DOMAIN files : Changes(files, after, f, i, mask = "open")
  BY EventCases
<1> SUFFICES Known(after, f, fate)
  OBVIOUS
<1> HIDE DEF after
<1>3. DOMAIN after = 1..Len(after)
  BY <1>2
<1>4. CASE mask = "create" /\ Appends(files, after, f)
  BY <1>1, <1>3, <1>4 DEF Appends, Known, Leads, WatchedFile
<1>5. CASE mask # "create" /\ Ignores(files, after, f)
  BY <1>5 DEF Ignores, Known
<1>6. CASE mask = "delete" /\ \E i \in DOMAIN files : Removes(files, after, f, i)
  BY <1>1, <1>3, <1>6 DEF Removes, Known
<1>7. CASE /\ mask \in {"open", "close"}
           /\ \E i \in DOMAIN files : Changes(files, after, f, i, mask = "open")
  BY <1>1, <1>3, <1>7 DEF Changes, Known, Leads
<1> QED
  BY <1>2, <1>4, <1>5, <1>6, <1>7

-----------------------------------------------------------------------------
\* The entries of a file that were not handed over yet.
Unhanded(files, f) == {i \in DOMAIN files : files[i].path = f /\ ~files[i].consumed}

LEMMA FiniteUnhanded ==
  ASSUME NEW files \in Seq(WatchedFiles), NEW f
  PROVE  IsFiniteSet(Unhanded(files, f)) /\ Cardinality(Unhanded(files, f)) \in Nat
<1>1. IsFiniteSet(1..Len(files))
  BY FS_Interval
<1>2. Unhanded(files, f) \subseteq 1..Len(files)
  BY DEF Unhanded
<1> QED
  BY <1>1, <1>2, FS_Subset, FS_CardinalityType

LEMMA UnhandedAfterEvent ==
  ASSUME NEW files \in Seq(WatchedFiles), NEW mask \in Masks, NEW f \in Names, NEW g \in Names
  PROVE  Cardinality(Unhanded(HandleEvent(files, <<mask, f>>), g))
         <= Cardinality(Unhanded(files, g)) + (IF mask = "create" /\ f = g THEN 1 ELSE 0)
<1> DEFINE after == HandleEvent(files, <<mask, f>>)
           S == Unhanded(files, g)
           T == Unhanded(after, g)
<1>1. Len(files) \in Nat /\ DOMAIN files = 1..Len(files)
  OBVIOUS
<1>2. /\ after \in Seq(WatchedFiles)
      /\ \/ mask = "create" /\ Appends(files, after, f)
         \/ mask # "create" /\ Ignores(files, after, f)
         \/ mask = "delete" /\ \E i \in DOMAIN files : Removes(files, after, f, i)
         \/ /\ mask \in {"open", "close"}
            /\ \E i \in DOMAIN files : Changes(files, after, f, i, mask = "open")
  BY EventCases
<1> HIDE DEF after
<1>3. DOMAIN after = 1..Len(after)
  BY <1>2
<1>4. IsFiniteSet(S) /\ Cardinality(S) \in Nat /\ IsFiniteSet(T) /\ Cardinality(T) \in Nat
  BY <1>2, FiniteUnhanded
<1>5. CASE mask = "create" /\ Appends(files, after, f)
  <2>1. CASE f = g
    <3>1. T \subseteq S \cup {Len(files) + 1}
      BY <1>1, <1>3, <1>5 DEF Appends, Unhanded
    <3> HIDE DEF S, T
    <3> DEFINE n == Len(files) + 1
    <3>2. /\ IsFiniteSet(S \cup {n})
          /\ Cardinality(S \cup {n}) = IF n \in S THEN Cardinality(S) ELSE Cardinality(S) + 1
      <4> HIDE DEF n
      <4> QED
        BY <1>4, FS_AddElement
    <3>3. Cardinality(T) <= Cardinality(S \cup {n})
      BY <3>1, <3>2, FS_Subset
    <3>4. Cardinality(T) <= Cardinality(S) + 1
      BY <1>4, <3>2, <3>3
    <3> QED
      BY <1>5, <2>1, <3>4 DEF S, T, after
  <2>2. CASE f # g
    <3>1. T \subseteq S
      BY <1>1, <1>3, <1>5, <2>2 DEF Appends, Unhanded, WatchedFile
    <3>2. Cardinality(T) <= Cardinality(S)
      BY <1>4, <3>1, FS_Subset
    <3> QED
      BY <1>4, <2>2, <3>2 DEF after
  <2> QED
    BY <2>1, <2>2
<1>6. CASE mask # "create" /\ Ignores(files, after, f)
  <2>1. after = files
    BY <1>6 DEF Ignores
  <2> QED
    BY <1>4, <1>6, <2>1 DEF after
<1>7. CASE mask = "delete" /\ \E i \in DOMAIN files : Removes(files, after, f, i)
  <2>1. PICK i \in DOMAIN files : Removes(files, after, f, i)
    BY <1>7
  <2> DEFINE m == [j \in T |-> IF j < i THEN j ELSE j + 1]
  <2>2. \A j \in T : j \in 1..(Len(files) - 1) /\ (IF j < i THEN j ELSE j + 1) \in S
    BY <1>1, <1>3, <2>1 DEF Removes, Unhanded
  <2>3. m \in [T -> S] /\ \A j, k \in T : m[j] = m[k] => j = k
    <3> HIDE DEF S, T
    <3>1. m \in [T -> S]
      BY <2>2
    <3>2. i \in Nat /\ \A j \in T : j \in Nat
      BY <1>1, <2>2
    <3> QED
      BY <3>1, <3>2
  <2> HIDE DEF S, T, m
  <2>4. m \in Injection(T, S)
    BY <2>3 DEF Injection, IsInjective
  <2>5. Cardinality(T) <= Cardinality(S)
    BY <1>4, <2>4, FS_Injection
  <2> QED
    BY <1>4, <1>7, <2>5 DEF S, T, after
<1>8. CASE /\ mask \in {"open", "close"}
           /\ \E i \in DOMAIN files : Changes(files, after, f, i, mask = "open")
  <2>1. T \subseteq S
    BY <1>1, <1>3, <1>8 DEF Changes, Unhanded
  <2>2. Cardinality(T) <= Cardinality(S)
    BY <1>4, <2>1, FS_Subset
  <2> QED
    BY <1>4, <1>8, <2>2 DEF after
<1> QED
  BY <1>2, <1>5, <1>6, <1>7, <1>8

\* The creations of a file that wait behind the first k events of the queue.
Announced(q, k, f) == {j \in (k + 1)..Len(q) : q[j] = <<"create", f>>}

LEMMA FiniteAnnounced ==
  ASSUME NEW q \in Seq(Masks \X Names), NEW k \in Nat, NEW f
  PROVE  IsFiniteSet(Announced(q, k, f)) /\ Cardinality(Announced(q, k, f)) \in Nat
<1>1. IsFiniteSet((k + 1)..Len(q))
  BY FS_Interval
<1>2. Announced(q, k, f) \subseteq (k + 1)..Len(q)
  BY DEF Announced
<1> QED
  BY <1>1, <1>2, FS_Subset, FS_CardinalityType

LEMMA AnnouncedNext ==
  ASSUME NEW q \in Seq(Masks \X Names), NEW k \in 1..Len(q), NEW f
  PROVE  Cardinality(Announced(q, k - 1, f))
         = Cardinality(Announced(q, k, f)) + (IF q[k] = <<"create", f>> THEN 1 ELSE 0)
<1> DEFINE S == Announced(q, k, f)
           T == Announced(q, k - 1, f)
<1>1. Len(q) \in Nat /\ k \in Nat
  OBVIOUS
<1>2. IsFiniteSet(S) /\ Cardinality(S) \in Nat
  BY <1>1, FiniteAnnounced
<1>3. CASE q[k] = <<"create", f>>
  <2>1. T = S \cup {k} /\ k \notin S
    BY <1>1, <1>3 DEF Announced
  <2> HIDE DEF S, T
  <2>2. Cardinality(T) = Cardinality(S) + 1
    BY <1>2, <2>1, FS_AddElement
  <2> QED
    BY <1>3, <2>2 DEF S, T
<1>4. CASE q[k] # <<"create", f>>
  <2>1. T = S
    BY <1>1, <1>4 DEF Announced
  <2> QED
    BY <1>2, <1>4, <2>1
<1> QED
  BY <1>3, <1>4

LEMMA AnnouncedRest ==
  ASSUME NEW q \in Seq(Masks \X Names), NEW k \in 0..Len(q), NEW f
  PROVE  Cardinality(Announced(SubSeq(q, k + 1, Len(q)), 0, f))
         <= Cardinality(Announced(q, k, f))
<1> DEFINE r == SubSeq(q, k + 1, Len(q))
           S == Announced(q, k, f)
           T == Announced(r, 0, f)
           m == [j \in T |-> j + k]
<1>1. Len(q) \in Nat /\ k \in Nat
  OBVIOUS
<1>2. IsFiniteSet(S)
  BY <1>1, FiniteAnnounced
<1>3. Len(r) = Len(q) - k /\ \A j \in 1..(Len(q) - k) : r[j] = q[j + k]
  BY <1>1
<1> HIDE DEF r
<1>4. \A j \in T : j \in Nat /\ j + k \in S
  BY <1>1, <1>3 DEF Announced
<1> HIDE DEF S, T
<1>5. m \in Injection(T, S)
  <2>1. m \in [T -> S]
    BY <1>4
  <2>2. \A i, j \in T : m[i] = m[j] => i = j
    BY <1>1, <1>4
  <2> QED
    BY <2>1, <2>2 DEF Injection, IsInjective
<1>6. Cardinality(T) <= Cardinality(S)
  BY <1>2, <1>5, FS_Injection
<1> QED
  BY <1>6 DEF r, S, T

\* A new event at the end of the queue.
LEMMA AnnouncedAppend ==
  ASSUME NEW q \in Seq(Masks \X Names), NEW mask \in Masks, NEW f \in Names, NEW g
  PROVE  Cardinality(Announced(Append(q, <<mask, f>>), 0, g))
         <= Cardinality(Announced(q, 0, g)) + (IF mask = "create" /\ f = g THEN 1 ELSE 0)
<1> DEFINE r == Append(q, <<mask, f>>)
           S == Announced(q, 0, g)
           T == Announced(r, 0, g)
           n == Len(q) + 1
<1>1. Len(q) \in Nat /\ Len(r) = n /\ r[n] = <<mask, f>> /\ \A j \in 1..Len(q) : r[j] = q[j]
  OBVIOUS
<1>2. IsFiniteSet(S) /\ Cardinality(S) \in Nat
  BY FiniteAnnounced
<1> HIDE DEF r
<1>3. CASE mask = "create" /\ f = g
  <2>1. T \subseteq S \cup {n}
    BY <1>1 DEF Announced
  <2> HIDE DEF S, T, n
  <2>2. /\ IsFiniteSet(S \cup {n})
        /\ Cardinality(S \cup {n}) = IF n \in S THEN Cardinality(S) ELSE Cardinality(S) + 1
    BY <1>2, FS_AddElement
  <2>3. Cardinality(T) <= Cardinality(S \cup {n}) /\ Cardinality(T) \in Nat
    BY <2>1, <2>2, FS_Subset, FS_CardinalityType
  <2>4. Cardinality(T) <= Cardinality(S) + 1
    BY <1>2, <2>2, <2>3
  <2> QED
    BY <1>3, <2>4 DEF S, T, r
<1>4. CASE ~(mask = "create" /\ f = g)
  <2>1. T \subseteq S
    BY <1>1, <1>4 DEF Announced
  <2> HIDE DEF S, T
  <2>2. Cardinality(T) <= Cardinality(S) /\ Cardinality(T) \in Nat
    BY <1>2, <2>1, FS_Subset, FS_CardinalityType
  <2>3. Cardinality(T) <= Cardinality(S) + 0
    BY <1>2, <2>2
  <2> QED
    BY <1>4, <2>3 DEF S, T, r
<1> QED
  BY <1>3, <1>4

-----------------------------------------------------------------------------
\* The files after each event of a read.
LEMMA ParsedSteps ==
  ASSUME NEW k \in 0..Len(queue), FolderTypes
  PROVE  \E files \in [0..k -> Seq(WatchedFiles)] :
           /\ files[0] = watchedFiles /\ files[k] = Parsed(k)
           /\ \A i \in 1..k : files[i] = HandleEvent(files[i - 1], queue[i])
<1> DEFINE D == Seq(WatchedFiles)
           G == [i \in 1..k |-> [x \in D |-> HandleEvent(x, queue[i])]]
           Solution(h) == h = [i \in 0..k |-> IF i = 0 THEN watchedFiles
                                           ELSE HandleEvent(h[i - 1], queue[i])]
<1>1. Len(queue) \in Nat /\ k \in Nat /\ watchedFiles \in D
  BY DEF FolderTypes
<1>2. \A i \in 1..k : \E mask \in Masks, f \in Names : queue[i] = <<mask, f>>
  <2>1. queue \in Seq(Masks \X Names)
    BY DEF FolderTypes
  <2> QED
    BY <1>1, <2>1
<1>3. ASSUME NEW i \in 1..k, NEW x \in D PROVE HandleEvent(x, queue[i]) \in D
  <2>1. PICK mask \in Masks, f \in Names : queue[i] = <<mask, f>>
    BY <1>2
  <2>2. HandleEvent(x, <<mask, f>>) \in D
    BY EventCases
  <2> QED
    BY <2>1, <2>2
<1> HIDE DEF D
<1>4. G \in [1..k -> [D -> D]]
  BY <1>3
<1>5. \A i \in 1..k : \A x \in D : G[i][x] = HandleEvent(x, queue[i])
  OBVIOUS
<1> HIDE DEF G
<1>6. PICK h \in [0..k -> D] : h[0] = watchedFiles /\ \A i \in 1..k : h[i] = G[i][h[i - 1]]
  <2>1. \A d \in D : \A n \in Nat : \A F \in [1..n -> [D -> D]] :
          \E x \in [0..n -> D] : x[0] = d /\ \A i \in 1..n : x[i] = F[i][x[i - 1]]
    BY Recursion
  <2> QED
    BY <1>1, <1>4, <2>1
<1>7. \A i \in 1..k : h[i] = HandleEvent(h[i - 1], queue[i])
  <2> TAKE i \in 1..k
  <2>1. h[i - 1] \in D
    BY <1>1
  <2> QED
    BY <1>5, <1>6, <2>1
<1>8. Solution(h)
  <2> DEFINE g == [i \in 0..k |-> IF i = 0 THEN watchedFiles ELSE HandleEvent(h[i - 1], queue[i])]
  <2>1. \A i \in 0..k : h[i] = g[i]
    BY <1>1, <1>6, <1>7
  <2>2. DOMAIN h = 0..k /\ DOMAIN g = 0..k /\ h = [i \in 0..k |-> h[i]] /\ g = [i \in 0..k |-> g[i]]
    OBVIOUS
  <2>3. h = g
    <3> HIDE DEF g
    <3> QED
      BY <2>1, <2>2
  <2> QED
    BY <2>3
<1> DEFINE files == CHOOSE x : Solution(x)
<1>9. Solution(files)
  <2> HIDE DEF Solution
  <2> QED
    BY <1>8
<1>10. files[k] = Parsed(k)
  BY DEF Parsed
<1> HIDE DEF files
<1>11. /\ DOMAIN files = 0..k /\ files[0] = watchedFiles
       /\ \A i \in 1..k : files[i] = HandleEvent(files[i - 1], queue[i])
  <2>1. DOMAIN files = 0..k
    BY <1>9, Zenon
  <2>2. \A i \in 0..k : files[i] = IF i = 0 THEN watchedFiles ELSE HandleEvent(files[i - 1], queue[i])
    BY <1>9, Zenon
  <2>3. 0 \in 0..k /\ \A i \in 1..k : i \in 0..k /\ i # 0
    BY <1>1
  <2> QED
    BY <2>1, <2>2, <2>3, Zenon
<1>12. \A i \in 0..k : files[i] \in D
  <2> DEFINE T == {i \in 0..k : files[i] \in D}
  <2>1. 0 \in T
    BY <1>1, <1>11
  <2>2. ASSUME NEW i \in 1..k, i - 1 \in T PROVE i \in T
    BY <1>1, <1>3, <1>11, <2>2
  <2>3. T \subseteq 0..k
    OBVIOUS
  <2> HIDE DEF T
  <2>4. \A i \in 0..k : i \in T
    BY <1>1, <2>1, <2>2, <2>3, UpTo
  <2> QED
    BY <2>4 DEF T
<1>13. files \in [0..k -> D]
  <2>1. files = [i \in 0..k |-> files[i]]
    BY <1>9, <1>11, Zenon
  <2> QED
    BY <1>12, <2>1
<1> QED
  BY <1>10, <1>11, <1>13 DEF D

\* A read takes no more events than there are.
LEMMA FittingEvents ==
  ASSUME FolderTypes
  PROVE  Fitting \in 0..Len(queue)
<1> DEFINE n == Len(queue)
           G == [k \in 1..n |-> [x \in Nat |-> x + EventSize[queue[k][2]]]]
           Sizes(h) == h = [k \in 0..n |-> IF k = 0 THEN 0
                                           ELSE h[k - 1] + EventSize[queue[k][2]]]
<1>1. n \in Nat
  BY DEF FolderTypes
<1>2. ASSUME NEW k \in 1..n, NEW x \in Nat PROVE x + EventSize[queue[k][2]] \in Nat
  <2>1. queue[k] \in Masks \X Names
    BY DEF FolderTypes
  <2>2. EventSize[queue[k][2]] \in Nat
    BY <2>1, EventSizeAssumption
  <2> QED
    BY <2>2
<1> HIDE DEF n
<1>3. G \in [1..n -> [Nat -> Nat]]
  BY <1>2
<1>4. \A k \in 1..n : \A x \in Nat : G[k][x] = x + EventSize[queue[k][2]]
  OBVIOUS
<1> HIDE DEF G
<1>5. PICK h \in [0..n -> Nat] : h[0] = 0 /\ \A k \in 1..n : h[k] = G[k][h[k - 1]]
  <2> DEFINE D == Nat
  <2>1. 0 \in D /\ G \in [1..n -> [D -> D]]
    BY <1>3
  <2> SUFFICES \E h \in [0..n -> D] : h[0] = 0 /\ \A k \in 1..n : h[k] = G[k][h[k - 1]]
    OBVIOUS
  <2> HIDE DEF D
  <2>2. \A d \in D : \A m \in Nat : \A F \in [1..m -> [D -> D]] :
          \E x \in [0..m -> D] : x[0] = d /\ \A i \in 1..m : x[i] = F[i][x[i - 1]]
    BY Recursion
  <2> QED
    BY <1>1, <2>1, <2>2
<1>6. \A k \in 1..n : h[k] = h[k - 1] + EventSize[queue[k][2]]
  <2> TAKE k \in 1..n
  <2>1. h[k - 1] \in Nat
    BY <1>1
  <2> QED
    BY <1>4, <1>5, <2>1
<1>7. Sizes(h)
  <2> DEFINE g == [k \in 0..n |-> IF k = 0 THEN 0 ELSE h[k - 1] + EventSize[queue[k][2]]]
  <2>1. \A k \in 0..n : h[k] = g[k]
    BY <1>1, <1>5, <1>6
  <2>2. DOMAIN h = 0..n /\ DOMAIN g = 0..n /\ h = [k \in 0..n |-> h[k]] /\ g = [k \in 0..n |-> g[k]]
    OBVIOUS
  <2>3. h = g
    <3> HIDE DEF g
    <3> QED
      BY <2>1, <2>2
  <2> QED
    BY <2>3
<1> DEFINE size == CHOOSE x : Sizes(x)
           S == {k \in 0..n : size[k] <= buffer}
<1>8. Sizes(size)
  <2> HIDE DEF Sizes
  <2> QED
    BY <1>7
<1>9. Fitting = Max(S)
  BY DEF Fitting, n
<1> HIDE DEF size
<1>10. size[0] = 0
  <2>1. 0 \in 0..n
    BY <1>1
  <2>2. \A k \in 0..n : size[k] = IF k = 0 THEN 0 ELSE size[k - 1] + EventSize[queue[k][2]]
    BY <1>8, Zenon
  <2> QED
    BY <2>1, <2>2
<1>11. S \subseteq 0..n /\ S # {}
  <2>1. 0 \in S
    BY <1>1, <1>10 DEF FolderTypes
  <2> QED
    BY <2>1
<1> HIDE DEF S
<1>12. Max(S) \in S
  BY <1>1, <1>11, MaxOfSome
<1> QED
  BY <1>9, <1>11, <1>12 DEF n

-----------------------------------------------------------------------------
\* Who has a file open.
Fate(f) == IF f \notin there THEN "gone" ELSE IF openers[f] = 0 THEN "closed" ELSE "open"

\* The states of a file before and after each event of a queue.
Course(q, f, h) ==
  /\ h \in [0..Len(q) -> Fates]
  /\ \A k \in 1..Len(q) :
       IF q[k][2] = f THEN Leads(h[k - 1], q[k][1], h[k]) ELSE h[k] = h[k - 1]

\* The events that wait take a file from what the monitor knows to what it is.
Followed(f) ==
  /\ openers[f] <= 1 /\ (openers[f] > 0 => f \in there)
  /\ \E h : Course(queue, f, h) /\ Known(watchedFiles, f, h[0]) /\ h[Len(queue)] = Fate(f)

\* A file is handed over, or its entry is, or its creation waits.
Counted(f) ==
  handed[f] + Cardinality(Unhanded(watchedFiles, f)) + Cardinality(Announced(queue, 0, f))
    <= created[f]

FolderInv ==
  /\ FolderTypes
  /\ \A f \in Names : Counted(f)
  /\ \A f \in Names \ crossed : Followed(f)

LEMMA CourseAppend ==
  ASSUME NEW q \in Seq(Masks \X Names), NEW mask \in Masks, NEW f \in Names, NEW g \in Names,
         NEW h, Course(q, g, h), NEW fate \in Fates,
         IF f = g THEN Leads(h[Len(q)], mask, fate) ELSE fate = h[Len(q)]
  PROVE  \E e : /\ Course(Append(q, <<mask, f>>), g, e)
                /\ e[0] = h[0] /\ e[Len(q) + 1] = fate
<1> DEFINE r == Append(q, <<mask, f>>)
           n == Len(q)
           e == [k \in 0..(n + 1) |-> IF k = n + 1 THEN fate ELSE h[k]]
<1>1. n \in Nat /\ Len(r) = n + 1 /\ r[n + 1] = <<mask, f>> /\ \A j \in 1..n : r[j] = q[j]
  OBVIOUS
<1> HIDE DEF r
<1>2. h \in [0..n -> Fates]
  BY DEF Course
<1>3. e \in [0..(n + 1) -> Fates]
  BY <1>2
<1>4. e[0] = h[0] /\ e[n + 1] = fate /\ e[n] = h[n]
  BY <1>1
<1>5. ASSUME NEW k \in 1..(n + 1)
      PROVE  IF r[k][2] = g THEN Leads(e[k - 1], r[k][1], e[k]) ELSE e[k] = e[k - 1]
  <2>1. CASE k = n + 1
    <3>1. e[k - 1] = h[n] /\ e[k] = fate /\ r[k][1] = mask /\ r[k][2] = f
      BY <1>1, <2>1
    <3> HIDE DEF e
    <3> QED
      BY <3>1
  <2>2. CASE k # n + 1
    <3>1. k \in 1..n /\ e[k - 1] = h[k - 1] /\ e[k] = h[k] /\ r[k] = q[k]
      BY <1>1, <2>2
    <3>2. IF q[k][2] = g THEN Leads(h[k - 1], q[k][1], h[k]) ELSE h[k] = h[k - 1]
      BY <3>1 DEF Course
    <3> HIDE DEF e
    <3> QED
      BY <3>1, <3>2
  <2> QED
    BY <2>1, <2>2
<1> HIDE DEF e
<1>6. Course(r, g, e)
  BY <1>1, <1>3, <1>5 DEF Course
<1> QED
  BY <1>4, <1>6 DEF r

LEMMA CourseRest ==
  ASSUME NEW q \in Seq(Masks \X Names), NEW k \in 0..Len(q), NEW g, NEW h, Course(q, g, h)
  PROVE  \E e : /\ Course(SubSeq(q, k + 1, Len(q)), g, e) /\ e[0] = h[k]
                /\ e[Len(SubSeq(q, k + 1, Len(q)))] = h[Len(q)]
<1> DEFINE r == SubSeq(q, k + 1, Len(q))
           n == Len(q) - k
           e == [j \in 0..n |-> h[j + k]]
<1>1. Len(q) \in Nat /\ k \in Nat /\ n \in Nat
  OBVIOUS
<1>2. Len(r) = n /\ \A j \in 1..n : r[j] = q[j + k]
  BY <1>1
<1> HIDE DEF r
<1>3. h \in [0..Len(q) -> Fates]
  BY DEF Course
<1>4. e \in [0..n -> Fates] /\ e[0] = h[k] /\ e[n] = h[Len(q)]
  BY <1>1, <1>3
<1>5. ASSUME NEW j \in 1..n
      PROVE  IF r[j][2] = g THEN Leads(e[j - 1], r[j][1], e[j]) ELSE e[j] = e[j - 1]
  <2>1. /\ j + k \in 1..Len(q) /\ e[j - 1] = h[(j + k) - 1] /\ e[j] = h[j + k]
        /\ r[j] = q[j + k]
    BY <1>1, <1>2
  <2>2. IF q[j + k][2] = g THEN Leads(h[(j + k) - 1], q[j + k][1], h[j + k])
        ELSE h[j + k] = h[(j + k) - 1]
    BY <2>1 DEF Course
  <2> HIDE DEF e
  <2> QED
    BY <2>1, <2>2
<1> HIDE DEF e
<1>6. Course(r, g, e)
  BY <1>2, <1>4, <1>5 DEF Course
<1> QED
  BY <1>2, <1>4, <1>6 DEF r

\* Something happens to file f in the folder.
LEMMA ChangeKeeps ==
  ASSUME FolderTypes, NEW mask \in Masks, NEW f \in Names, Change(mask, f),
         NEW g \in Names \ crossed, Followed(g),
         openers[g]' <= 1 /\ (openers[g]' > 0 => g \in there'),
         IF f = g THEN Leads(Fate(g), mask, Fate(g)') ELSE Fate(g)' = Fate(g)
  PROVE  Followed(g)'
<1>1. queue \in Seq(Masks \X Names) /\ Len(queue) \in Nat
  BY DEF FolderTypes
<1>2. watchedFiles' = watchedFiles
  BY DEF Change, monitorFilesVars
<1>3. PICK h : Course(queue, g, h) /\ Known(watchedFiles, g, h[0]) /\ h[Len(queue)] = Fate(g)
  BY DEF Followed
<1>4. Fate(g)' \in Fates
  BY DEF Fate, Fates
<1>5. CASE queue' = Append(queue, <<mask, f>>)
  <2>1. IF f = g THEN Leads(h[Len(queue)], mask, Fate(g)') ELSE Fate(g)' = h[Len(queue)]
    BY <1>3
  <2>2. PICK e : /\ Course(Append(queue, <<mask, f>>), g, e)
                 /\ e[0] = h[0] /\ e[Len(queue) + 1] = Fate(g)'
    BY <1>1, <1>3, <1>4, <2>1, CourseAppend
  <2>3. Len(queue') = Len(queue) + 1
    BY <1>1, <1>5
  <2> QED
    BY <1>2, <1>3, <1>5, <2>2, <2>3 DEF Followed
<1>6. CASE queue # <<>> /\ queue[Len(queue)] = <<mask, f>> /\ queue' = queue
  <2>1. f # g
    <3> SUFFICES ASSUME f = g PROVE FALSE
      OBVIOUS
    <3>1. Len(queue) \in 1..Len(queue)
      BY <1>1, <1>6
    <3>2. queue[Len(queue)][1] = mask /\ queue[Len(queue)][2] = g
      BY <1>6
    <3>3. Leads(h[Len(queue) - 1], mask, Fate(g))
      BY <1>3, <3>1, <3>2 DEF Course
    <3>4. Leads(Fate(g), mask, Fate(g)')
      OBVIOUS
    <3> QED
      BY <3>3, <3>4 DEF Leads
  <2>2. Fate(g)' = Fate(g)
    BY <2>1
  <2> QED
    BY <1>2, <1>3, <1>6, <2>2 DEF Followed
<1>7. (queue # <<>> /\ queue[Len(queue)] = <<mask, f>> /\ queue' = queue)
      \/ queue' = Append(queue, <<mask, f>>)
  BY DEF Change, Last, inotifyVars
<1> QED
  BY <1>5, <1>6, <1>7

LEMMA ChangeCounts ==
  ASSUME FolderTypes, NEW mask \in Masks, NEW f \in Names, Change(mask, f),
         NEW g \in Names, Counted(g),
         IF mask = "create" /\ f = g THEN created[g]' = created[g] + 1
         ELSE created[g]' = created[g]
  PROVE  Counted(g)'
<1> DEFINE u == Cardinality(Unhanded(watchedFiles, g))
           a == Cardinality(Announced(queue, 0, g))
           b == Cardinality(Announced(queue', 0, g))
           one == IF mask = "create" /\ f = g THEN 1 ELSE 0
<1>1. queue \in Seq(Masks \X Names) /\ watchedFiles \in Seq(WatchedFiles)
  BY DEF FolderTypes
<1>2. u \in Nat /\ a \in Nat /\ handed[g] \in Nat /\ created[g] \in Nat
  BY <1>1, FiniteUnhanded, FiniteAnnounced DEF FolderTypes
<1>3. watchedFiles' = watchedFiles /\ handed' = handed
  BY DEF Change, monitorFilesVars
<1>4. b \in Nat /\ b <= a + one
  <2>1. queue' = queue \/ queue' = Append(queue, <<mask, f>>)
    BY DEF Change, inotifyVars
  <2>2. CASE queue' = queue
    BY <1>2, <2>2
  <2>3. CASE queue' = Append(queue, <<mask, f>>)
    <3>1. queue' \in Seq(Masks \X Names)
      BY <1>1, <2>3
    <3>2. b \in Nat
      BY <3>1, FiniteAnnounced
    <3>3. Cardinality(Announced(Append(queue, <<mask, f>>), 0, g)) <= a + one
      BY <1>1, AnnouncedAppend
    <3> QED
      BY <2>3, <3>2, <3>3
  <2> QED
    BY <2>1, <2>2, <2>3
<1>5. handed[g] + u + a <= created[g]
  BY DEF Counted
<1>6. created[g]' = created[g] + one
  BY <1>2
<1>7. one \in Nat
  OBVIOUS
<1> SUFFICES handed[g]' + u + b <= created[g]'
  BY <1>3 DEF Counted
<1> HIDE DEF u, a, b, one
<1> QED
  BY <1>2, <1>3, <1>4, <1>5, <1>6, <1>7

LEMMA WorldInv ==
  ASSUME FolderInv, FolderWorld
  PROVE  FolderInv'
<1>1. PICK f \in Names :
        Create(f) \/ OpenFile(f) \/ CloseFile(f) \/ Delete(f) \/ RenameAway(f)
  BY DEF FolderWorld
<1>2. FolderTypes /\ openers \in [Names -> Nat] /\ created \in [Names -> Nat]
  BY DEF FolderInv, FolderTypes
<1>3. ASSUME NEW mask \in Masks, Change(mask, f)
      PROVE  /\ queue' \in Seq(Masks \X Names) /\ buffer' = buffer
             /\ watchedFiles' = watchedFiles /\ handed' = handed
  <2>1. queue \in Seq(Masks \X Names) /\ <<mask, f>> \in Masks \X Names
    BY <1>2 DEF FolderTypes
  <2>2. queue' = queue \/ queue' = Append(queue, <<mask, f>>)
    BY <1>3 DEF Change, inotifyVars
  <2>3. queue' \in Seq(Masks \X Names)
    BY <2>1, <2>2
  <2> QED
    BY <1>3, <2>3 DEF Change, monitorFilesVars
<1>4. CASE Create(f)
  <2>1. Change("create", f) /\ "create" \in Masks
    BY <1>4 DEF Create, Masks
  <2>2. /\ f \notin there /\ there' = there \cup {f} /\ openers' = openers /\ crossed' = crossed
        /\ created' = [created EXCEPT ![f] = @ + 1]
    BY <1>4 DEF Create
  <2>3. FolderTypes'
    BY <1>2, <1>3, <2>1, <2>2 DEF FolderTypes
  <2>4. ASSUME NEW g \in Names PROVE Counted(g)'
    <3>1. IF f = g THEN created[g]' = created[g] + 1 ELSE created[g]' = created[g]
      BY <1>2, <2>2
    <3> QED
      BY <1>2, <2>1, <3>1, ChangeCounts DEF FolderInv
  <2>5. ASSUME NEW g \in Names \ crossed PROVE Followed(g)'
    <3>1. Followed(g) /\ openers[g] <= 1 /\ (openers[g] > 0 => g \in there)
      BY DEF FolderInv, Followed
    <3>2. openers[g]' <= 1 /\ (openers[g]' > 0 => g \in there')
      BY <2>2, <3>1
    <3>3. IF f = g THEN Leads(Fate(g), "create", Fate(g)') ELSE Fate(g)' = Fate(g)
      BY <1>2, <2>2, <3>1 DEF Fate, Leads
    <3> QED
      BY <1>2, <2>1, <3>1, <3>2, <3>3, ChangeKeeps
  <2> QED
    BY <2>2, <2>3, <2>4, <2>5 DEF FolderInv
<1>5. CASE OpenFile(f)
  <2>1. Change("open", f) /\ "open" \in Masks
    BY <1>5 DEF OpenFile, Masks
  <2>2. /\ f \in there /\ there' = there /\ openers' = [openers EXCEPT ![f] = @ + 1]
        /\ crossed' = IF openers[f] > 0 THEN crossed \cup {f} ELSE crossed
        /\ created' = created
    BY <1>5 DEF OpenFile
  <2>3. FolderTypes'
    BY <1>2, <1>3, <2>1, <2>2 DEF FolderTypes
  <2>4. ASSUME NEW g \in Names PROVE Counted(g)'
    BY <1>2, <2>1, <2>2, ChangeCounts DEF FolderInv
  <2>5. ASSUME NEW g \in Names \ crossed' PROVE Followed(g)'
    <3>1. g \in Names \ crossed /\ (g = f => openers[g] = 0)
      BY <1>2, <2>2
    <3>2. Followed(g) /\ openers[g] <= 1 /\ (openers[g] > 0 => g \in there)
      BY <3>1 DEF FolderInv, Followed
    <3>3. openers[g]' = IF f = g THEN 1 ELSE openers[g]
      BY <1>2, <2>2, <3>1
    <3>4. openers[g]' <= 1 /\ (openers[g]' > 0 => g \in there')
      BY <2>2, <3>2, <3>3
    <3>5. IF f = g THEN Leads(Fate(g), "open", Fate(g)') ELSE Fate(g)' = Fate(g)
      BY <2>2, <3>1, <3>3 DEF Fate, Leads
    <3> QED
      BY <1>2, <2>1, <3>1, <3>2, <3>4, <3>5, ChangeKeeps
  <2> QED
    BY <2>3, <2>4, <2>5 DEF FolderInv
<1>6. CASE CloseFile(f)
  <2>1. Change("close", f) /\ "close" \in Masks
    BY <1>6 DEF CloseFile, Masks
  <2>2. /\ openers[f] > 0 /\ there' = there /\ openers' = [openers EXCEPT ![f] = @ - 1]
        /\ crossed' = crossed /\ created' = created
    BY <1>6 DEF CloseFile
  <2>3. FolderTypes'
    <3>1. openers' \in [Names -> Nat]
      BY <1>2, <2>2
    <3> QED
      BY <1>2, <1>3, <2>1, <2>2, <3>1 DEF FolderTypes
  <2>4. ASSUME NEW g \in Names PROVE Counted(g)'
    BY <1>2, <2>1, <2>2, ChangeCounts DEF FolderInv
  <2>5. ASSUME NEW g \in Names \ crossed PROVE Followed(g)'
    <3>1. Followed(g) /\ openers[g] <= 1 /\ (openers[g] > 0 => g \in there)
      BY DEF FolderInv, Followed
    <3>2. openers[g]' = (IF f = g THEN openers[g] - 1 ELSE openers[g]) /\ openers[g] \in Nat
      BY <1>2, <2>2
    <3>3. openers[g]' <= 1 /\ (openers[g]' > 0 => g \in there')
      BY <2>2, <3>1, <3>2
    <3>4. IF f = g THEN Leads(Fate(g), "close", Fate(g)') ELSE Fate(g)' = Fate(g)
      BY <2>2, <3>1, <3>2 DEF Fate, Leads
    <3> QED
      BY <1>2, <2>1, <3>1, <3>3, <3>4, ChangeKeeps
  <2> QED
    BY <2>2, <2>3, <2>4, <2>5 DEF FolderInv
<1>7. CASE Delete(f)
  <2>1. Change("delete", f) /\ "delete" \in Masks
    BY <1>7 DEF Delete, Masks
  <2>2. /\ f \in there /\ there' = there \ {f} /\ openers' = openers
        /\ crossed' = IF openers[f] > 0 THEN crossed \cup {f} ELSE crossed
        /\ created' = created
    BY <1>7 DEF Delete
  <2>3. FolderTypes'
    BY <1>2, <1>3, <2>1, <2>2 DEF FolderTypes
  <2>4. ASSUME NEW g \in Names PROVE Counted(g)'
    BY <1>2, <2>1, <2>2, ChangeCounts DEF FolderInv
  <2>5. ASSUME NEW g \in Names \ crossed' PROVE Followed(g)'
    <3>1. g \in Names \ crossed /\ (g = f => openers[g] = 0)
      BY <1>2, <2>2
    <3>2. Followed(g) /\ openers[g] <= 1 /\ (openers[g] > 0 => g \in there)
      BY <3>1 DEF FolderInv, Followed
    <3>3. openers[g]' <= 1 /\ (openers[g]' > 0 => g \in there')
      BY <2>2, <3>1, <3>2
    <3>4. IF f = g THEN Leads(Fate(g), "delete", Fate(g)') ELSE Fate(g)' = Fate(g)
      BY <2>2, <3>1 DEF Fate, Leads
    <3> QED
      BY <1>2, <2>1, <3>1, <3>2, <3>3, <3>4, ChangeKeeps
  <2> QED
    BY <2>3, <2>4, <2>5 DEF FolderInv
<1>8. CASE RenameAway(f)
  <2>1. /\ openers' = openers /\ queue' = queue /\ watchedFiles' = watchedFiles
        /\ buffer' = buffer /\ created' = created /\ handed' = handed
        /\ there' = there \ {f} /\ crossed' = crossed \cup {f}
    BY <1>8 DEF RenameAway, inotifyVars, monitorFilesVars
  <2>2. FolderTypes'
    BY <1>2, <2>1 DEF FolderTypes
  <2>3. ASSUME NEW g \in Names PROVE Counted(g)'
    BY <2>1 DEF FolderInv, Counted
  <2>4. ASSUME NEW g \in Names \ crossed' PROVE Followed(g)'
    <3>1. g \in Names \ crossed /\ g # f
      BY <2>1
    <3>2. Followed(g)
      BY <3>1 DEF FolderInv
    <3>3. Fate(g)' = Fate(g)
      BY <2>1, <3>1 DEF Fate
    <3> QED
      BY <2>1, <3>1, <3>2, <3>3 DEF Followed
  <2> QED
    BY <2>2, <2>3, <2>4 DEF FolderInv
<1> QED
  BY <1>1, <1>4, <1>5, <1>6, <1>7, <1>8

LEMMA ReadInv ==
  ASSUME FolderInv, HandleIncommingEvents
  PROVE  FolderInv'
<1> DEFINE k == Fitting
           rest == SubSeq(queue, k + 1, Len(queue))
<1>1. FolderTypes /\ queue \in Seq(Masks \X Names) /\ Len(queue) \in Nat
  BY DEF FolderInv, FolderTypes
<1>2. k \in 0..Len(queue)
  BY <1>1, FittingEvents
<1>3. /\ there' = there /\ openers' = openers /\ buffer' = buffer /\ created' = created
      /\ handed' = handed /\ crossed' = crossed
      /\ queue' = rest /\ watchedFiles' = Parsed(k)
  BY DEF HandleIncommingEvents, worldVars, handoverVars
<1> HIDE DEF k
<1>4. PICK files \in [0..k -> Seq(WatchedFiles)] :
        /\ files[0] = watchedFiles /\ files[k] = Parsed(k)
        /\ \A i \in 1..k : files[i] = HandleEvent(files[i - 1], queue[i])
  BY <1>1, <1>2, ParsedSteps
<1>5. k \in Nat /\ k \in 0..k
  BY <1>1, <1>2
<1>6. queue' \in Seq(Masks \X Names) /\ watchedFiles' \in Seq(WatchedFiles)
  <2>1. rest \in Seq(Masks \X Names)
    BY <1>1, <1>2
  <2> QED
    BY <1>3, <1>4, <1>5, <2>1
<1>7. FolderTypes'
  BY <1>1, <1>3, <1>6 DEF FolderTypes
<1>8. ASSUME NEW i \in 1..k
      PROVE  /\ i \in 1..Len(queue) /\ files[i - 1] \in Seq(WatchedFiles) /\ i - 1 \in 0..k
             /\ files[i] = HandleEvent(files[i - 1], queue[i])
             /\ \E mask \in Masks, f \in Names : queue[i] = <<mask, f>>
  <2>1. i \in 1..Len(queue) /\ i - 1 \in 0..k
    BY <1>1, <1>2
  <2>2. queue[i] \in Masks \X Names
    BY <1>1, <2>1
  <2> QED
    BY <1>4, <2>1, <2>2
<1>9. ASSUME NEW g \in Names PROVE Counted(g)'
  <2> DEFINE u(i) == Cardinality(Unhanded(files[i], g))
             a(i) == Cardinality(Announced(queue, i, g))
             T == {i \in 0..k : u(i) + a(i) <= u(0) + a(0)}
  <2>1. \A i \in 0..k : u(i) \in Nat /\ a(i) \in Nat
    <3> TAKE i \in 0..k
    <3>1. i \in Nat /\ files[i] \in Seq(WatchedFiles)
      BY <1>5
    <3> QED
      BY <1>1, <3>1, FiniteUnhanded, FiniteAnnounced
  <2>2. 0 \in T
    BY <1>5, <2>1
  <2>3. ASSUME NEW i \in 1..k, i - 1 \in T PROVE i \in T
    <3>1. PICK mask \in Masks, f \in Names : queue[i] = <<mask, f>>
      BY <1>8
    <3> DEFINE one == IF mask = "create" /\ f = g THEN 1 ELSE 0
    <3>2. u(i) <= u(i - 1) + one
      <4>1. /\ files[i - 1] \in Seq(WatchedFiles)
            /\ files[i] = HandleEvent(files[i - 1], <<mask, f>>)
        BY <1>8, <3>1
      <4> QED
        BY <4>1, UnhandedAfterEvent
    <3>3. a(i - 1) = a(i) + one
      <4>1. queue[i] = <<"create", g>> <=> mask = "create" /\ f = g
        BY <3>1
      <4>2. i \in 1..Len(queue)
        BY <1>8
      <4>3. a(i - 1) = a(i) + (IF queue[i] = <<"create", g>> THEN 1 ELSE 0)
        BY <1>1, <4>2, AnnouncedNext
      <4> QED
        BY <4>1, <4>3
    <3>4. u(i - 1) + a(i - 1) <= u(0) + a(0)
      BY <2>3
    <3>5. /\ u(i) \in Nat /\ a(i) \in Nat /\ u(i - 1) \in Nat /\ a(i - 1) \in Nat
          /\ u(0) \in Nat /\ a(0) \in Nat /\ one \in Nat
      BY <1>5, <1>8, <2>1
    <3> HIDE DEF u, a, one
    <3>6. u(i) + a(i) <= u(0) + a(0)
      BY <3>2, <3>3, <3>4, <3>5
    <3> QED
      BY <3>6
  <2>4. T \subseteq 0..k
    OBVIOUS
  <2> HIDE DEF T
  <2>5. k \in T
    <3>1. \A i \in 0..k : i \in T
      BY <1>5, <2>2, <2>3, <2>4, UpTo
    <3> QED
      BY <1>5, <3>1
  <2>6. u(k) + a(k) <= u(0) + a(0)
    BY <2>5 DEF T
  <2> DEFINE b == Cardinality(Announced(rest, 0, g))
  <2>7. b <= a(k) /\ b \in Nat
    <3>1. b \in Nat
      BY <1>3, <1>6, FiniteAnnounced
    <3> QED
      BY <1>1, <1>2, <3>1, AnnouncedRest
  <2>8. handed[g] + u(0) + a(0) <= created[g]
    BY <1>4 DEF FolderInv, Counted
  <2>9. handed[g] \in Nat /\ created[g] \in Nat
    BY <1>1 DEF FolderTypes
  <2>10. u(0) \in Nat /\ a(0) \in Nat /\ u(k) \in Nat /\ a(k) \in Nat
    BY <1>5, <2>1
  <2>11. handed[g] + u(k) + b <= created[g]
    <3> HIDE DEF u, a, b
    <3> QED
      BY <2>6, <2>7, <2>8, <2>9, <2>10
  <2> QED
    BY <1>3, <1>4, <2>11 DEF Counted
<1>10. ASSUME NEW g \in Names \ crossed PROVE Followed(g)'
  <2>1. openers[g] <= 1 /\ (openers[g] > 0 => g \in there)
    BY DEF FolderInv, Followed
  <2>2. PICK h : Course(queue, g, h) /\ Known(watchedFiles, g, h[0]) /\ h[Len(queue)] = Fate(g)
    BY DEF FolderInv, Followed
  <2> DEFINE T == {i \in 0..k : Known(files[i], g, h[i])}
  <2>3. 0 \in T
    BY <1>4, <1>5, <2>2
  <2>4. ASSUME NEW i \in 1..k, i - 1 \in T PROVE i \in T
    <3>1. PICK mask \in Masks, f \in Names : queue[i] = <<mask, f>>
      BY <1>8
    <3>2. /\ i \in 1..Len(queue) /\ files[i - 1] \in Seq(WatchedFiles)
          /\ files[i] = HandleEvent(files[i - 1], <<mask, f>>)
      BY <1>8, <3>1
    <3>3. IF f = g THEN Leads(h[i - 1], mask, h[i]) ELSE h[i] = h[i - 1]
      <4>1. queue[i][1] = mask /\ queue[i][2] = f
        BY <3>1
      <4>2. IF queue[i][2] = g THEN Leads(h[i - 1], queue[i][1], h[i]) ELSE h[i] = h[i - 1]
        BY <2>2, <3>2 DEF Course
      <4> QED
        BY <4>1, <4>2
    <3>4. Known(files[i - 1], g, h[i - 1])
      BY <2>4
    <3>5. Known(files[i], g, h[i])
      <4>1. CASE f = g
        <5>1. Leads(h[i - 1], mask, h[i]) /\ Known(files[i - 1], f, h[i - 1])
          BY <3>3, <3>4, <4>1
        <5>2. Known(HandleEvent(files[i - 1], <<mask, f>>), f, h[i])
          BY <3>2, <5>1, KnownAfterEvent
        <5> QED
          BY <3>2, <4>1, <5>2
      <4>2. CASE f # g
        <5>1. g \in Names \ {f} /\ h[i] = h[i - 1]
          BY <3>3, <4>2
        <5>2. Known(HandleEvent(files[i - 1], <<mask, f>>), g, h[i - 1])
          BY <3>2, <3>4, <5>1, KnownOfOthers
        <5> QED
          BY <3>2, <5>1, <5>2
      <4> QED
        BY <4>1, <4>2
    <3> QED
      BY <3>5
  <2>5. T \subseteq 0..k
    OBVIOUS
  <2> HIDE DEF T
  <2>6. k \in T
    <3>1. \A i \in 0..k : i \in T
      BY <1>5, <2>3, <2>4, <2>5, UpTo
    <3> QED
      BY <1>5, <3>1
  <2>7. Known(watchedFiles', g, h[k])
    BY <1>3, <1>4, <2>6 DEF T
  <2>8. PICK e : Course(rest, g, e) /\ e[0] = h[k] /\ e[Len(rest)] = h[Len(queue)]
    <3>1. \A q \in Seq(Masks \X Names) : \A i \in 0..Len(q) : Course(q, g, h) =>
            \E e : /\ Course(SubSeq(q, i + 1, Len(q)), g, e) /\ e[0] = h[i]
                   /\ e[Len(SubSeq(q, i + 1, Len(q)))] = h[Len(q)]
      BY CourseRest
    <3> QED
      BY <1>1, <1>2, <2>2, <3>1
  <2>9. Fate(g)' = Fate(g)
    BY <1>3 DEF Fate
  <2>10. Course(queue', g, e) /\ Known(watchedFiles', g, e[0]) /\ e[Len(queue')] = Fate(g)'
    BY <1>3, <2>2, <2>7, <2>8, <2>9
  <2> QED
    BY <1>3, <2>1, <2>10 DEF Followed
<1> QED
  BY <1>3, <1>7, <1>9, <1>10 DEF FolderInv

LEMMA ProcessInv ==
  ASSUME FolderInv, ProcessFiles
  PROVE  /\ FolderInv'
         /\ \A f \in Names : handed[f]' > handed[f] =>
              handed[f]' <= created[f] /\ \E i \in DOMAIN watchedFiles :
                watchedFiles[i].path = f /\ ~watchedFiles[i].inUse
<1> DEFINE next == [i \in DOMAIN watchedFiles |->
             [watchedFiles[i] EXCEPT !.consumed = @ \/ Ready(watchedFiles[i])]]
<1>1. FolderTypes /\ watchedFiles \in Seq(WatchedFiles) /\ queue \in Seq(Masks \X Names)
  BY DEF FolderInv, FolderTypes
<1>2. /\ there' = there /\ openers' = openers /\ buffer' = buffer /\ created' = created
      /\ crossed' = crossed /\ queue' = queue /\ watchedFiles' = next
      /\ handed' = [f \in Names |-> handed[f] + Cardinality(ReadyOf(f))]
  BY DEF ProcessFiles, worldVars, inotifyVars
<1>3. \A i \in DOMAIN watchedFiles :
        /\ next[i] \in WatchedFiles /\ next[i].path = watchedFiles[i].path
        /\ next[i].inUse = watchedFiles[i].inUse
        /\ next[i].consumed = (watchedFiles[i].consumed \/ Ready(watchedFiles[i]))
  <2> TAKE i \in DOMAIN watchedFiles
  <2>1. watchedFiles[i] \in WatchedFiles
    BY <1>1
  <2>2. Ready(watchedFiles[i]) \in BOOLEAN
    BY DEF Ready
  <2> QED
    BY <2>1, <2>2 DEF WatchedFiles
<1>4. DOMAIN next = DOMAIN watchedFiles /\ DOMAIN watchedFiles = 1..Len(watchedFiles)
      /\ Len(watchedFiles) \in Nat
  BY <1>1
<1> HIDE DEF next
<1>5. next \in Seq(WatchedFiles)
  <2>1. next \in [1..Len(watchedFiles) -> WatchedFiles]
    <3>1. next = [i \in DOMAIN watchedFiles |-> next[i]]
      BY DEF next
    <3> QED
      BY <1>3, <1>4, <3>1
  <2> QED
    BY <1>4, <2>1
<1>6. ASSUME NEW f \in Names
      PROVE  /\ IsFiniteSet(ReadyOf(f)) /\ Cardinality(ReadyOf(f)) \in Nat
             /\ Cardinality(Unhanded(next, f)) + Cardinality(ReadyOf(f))
                  = Cardinality(Unhanded(watchedFiles, f))
  <2> DEFINE R == ReadyOf(f)
             U == Unhanded(watchedFiles, f)
             V == Unhanded(next, f)
  <2>1. V = U \ R /\ R \subseteq U
    BY <1>3, <1>4 DEF Unhanded, ReadyOf, Ready
  <2>2. IsFiniteSet(U) /\ Cardinality(U) \in Nat
    BY <1>1, FiniteUnhanded
  <2>3. IsFiniteSet(V) /\ Cardinality(V) \in Nat
    BY <1>5, FiniteUnhanded
  <2> HIDE DEF U, V, R
  <2>4. IsFiniteSet(R) /\ Cardinality(R) \in Nat
    BY <2>1, <2>2, FS_Subset, FS_CardinalityType
  <2>5. V \cap R = {} /\ V \cup R = U
    BY <2>1
  <2>6. Cardinality(V \cup R) = Cardinality(V) + Cardinality(R) - Cardinality(V \cap R)
    BY <2>3, <2>4, FS_Union
  <2>7. Cardinality(U) = Cardinality(V) + Cardinality(R)
    <3>1. Cardinality(V \cap R) = 0 /\ Cardinality(V \cup R) = Cardinality(U)
      BY <2>5, FS_EmptySet
    <3> QED
      BY <2>3, <2>4, <2>6, <3>1
  <2> QED
    BY <2>4, <2>7 DEF U, V, R
<1>7. FolderTypes'
  <2>1. handed' \in [Names -> Nat]
    BY <1>1, <1>2, <1>6 DEF FolderTypes
  <2> QED
    BY <1>1, <1>2, <1>5, <2>1 DEF FolderTypes
<1>8. ASSUME NEW f \in Names PROVE Counted(f)' /\ handed[f]' <= created[f]
  <2> DEFINE r == Cardinality(ReadyOf(f))
             u == Cardinality(Unhanded(watchedFiles, f))
             v == Cardinality(Unhanded(next, f))
             a == Cardinality(Announced(queue, 0, f))
  <2>1. r \in Nat /\ u \in Nat /\ v \in Nat /\ a \in Nat /\ v + r = u
    BY <1>1, <1>5, <1>6, FiniteUnhanded, FiniteAnnounced
  <2>2. handed[f] \in Nat /\ created[f] \in Nat
    BY <1>1 DEF FolderTypes
  <2>3. handed[f] + u + a <= created[f]
    BY DEF FolderInv, Counted
  <2>4. handed[f]' = handed[f] + r
    BY <1>2
  <2>5. handed[f]' + v + a <= created[f] /\ handed[f]' <= created[f]
    <3> HIDE DEF r, u, v, a
    <3> QED
      BY <2>1, <2>2, <2>3, <2>4
  <2> QED
    BY <1>2, <2>5 DEF Counted
<1>9. ASSUME NEW f \in Names \ crossed PROVE Followed(f)'
  <2>1. openers[f] <= 1 /\ (openers[f] > 0 => f \in there)
    BY DEF FolderInv, Followed
  <2>2. PICK h : Course(queue, f, h) /\ Known(watchedFiles, f, h[0]) /\ h[Len(queue)] = Fate(f)
    BY DEF FolderInv, Followed
  <2>3. Known(next, f, h[0])
    BY <1>3, <1>4, <2>2 DEF Known
  <2>4. Fate(f)' = Fate(f)
    BY <1>2 DEF Fate
  <2> QED
    BY <1>2, <2>1, <2>2, <2>3, <2>4 DEF Followed
<1>10. ASSUME NEW f \in Names, handed[f]' > handed[f]
       PROVE  \E i \in DOMAIN watchedFiles : watchedFiles[i].path = f /\ ~watchedFiles[i].inUse
  <2>1. ReadyOf(f) # {}
    <3>1. handed[f]' = handed[f] + Cardinality(ReadyOf(f)) /\ handed[f] \in Nat
      BY <1>1, <1>2 DEF FolderTypes
    <3> QED
      BY <1>10, <3>1, FS_EmptySet
  <2> QED
    BY <2>1 DEF ReadyOf, Ready
<1> QED
  BY <1>2, <1>7, <1>8, <1>9, <1>10 DEF FolderInv

LEMMA RestInv ==
  ASSUME FolderInv, Rest
  PROVE  FolderInv'
<1>1. FolderTypes /\ watchedFiles \in Seq(WatchedFiles) /\ queue \in Seq(Masks \X Names)
  BY DEF FolderInv, FolderTypes
<1>2. PICK n \in DOMAIN watchedFiles :
        watchedFiles' = [watchedFiles EXCEPT ![n].rested = TRUE]
  BY DEF Rest
<1>3. /\ there' = there /\ openers' = openers /\ buffer' = buffer /\ created' = created
      /\ crossed' = crossed /\ queue' = queue /\ handed' = handed
  BY DEF Rest, worldVars, inotifyVars, handoverVars
<1>4. /\ watchedFiles' \in Seq(WatchedFiles)
      /\ DOMAIN watchedFiles' = DOMAIN watchedFiles
      /\ \A i \in DOMAIN watchedFiles :
           /\ watchedFiles'[i].path = watchedFiles[i].path
           /\ watchedFiles'[i].inUse = watchedFiles[i].inUse
           /\ watchedFiles'[i].consumed = watchedFiles[i].consumed
  <2>1. watchedFiles[n] \in WatchedFiles
    BY <1>1
  <2>2. [watchedFiles[n] EXCEPT !.rested = TRUE] \in WatchedFiles
    BY <2>1 DEF WatchedFiles
  <2>3. watchedFiles' = [watchedFiles EXCEPT ![n] = [watchedFiles[n] EXCEPT !.rested = TRUE]]
    BY <1>2
  <2> QED
    BY <1>1, <2>1, <2>2, <2>3 DEF WatchedFiles
<1>5. FolderTypes'
  BY <1>1, <1>3, <1>4 DEF FolderTypes
<1>6. ASSUME NEW f \in Names PROVE Counted(f)'
  <2>1. Unhanded(watchedFiles', f) = Unhanded(watchedFiles, f)
    BY <1>4 DEF Unhanded
  <2> QED
    BY <1>3, <2>1 DEF FolderInv, Counted
<1>7. ASSUME NEW f \in Names \ crossed PROVE Followed(f)'
  <2>1. PICK h : Course(queue, f, h) /\ Known(watchedFiles, f, h[0]) /\ h[Len(queue)] = Fate(f)
    BY DEF FolderInv, Followed
  <2>2. Known(watchedFiles', f, h[0])
    BY <1>4, <2>1 DEF Known
  <2>3. Fate(f)' = Fate(f)
    BY <1>3 DEF Fate
  <2>4. openers[f] <= 1 /\ (openers[f] > 0 => f \in there)
    BY DEF FolderInv, Followed
  <2> QED
    BY <1>3, <2>1, <2>2, <2>3, <2>4 DEF Followed
<1> QED
  BY <1>3, <1>5, <1>6, <1>7 DEF FolderInv

LEMMA FolderStays ==
  ASSUME FolderInv, UNCHANGED <<worldVars, inotifyVars, buffer, watchedFiles, handoverVars>>
  PROVE  FolderInv'
<1>1. /\ there' = there /\ openers' = openers /\ buffer' = buffer /\ created' = created
      /\ crossed' = crossed /\ queue' = queue /\ handed' = handed /\ watchedFiles' = watchedFiles
  BY DEF worldVars, inotifyVars, handoverVars
<1>2. \A f : Fate(f)' = Fate(f)
  BY <1>1 DEF Fate
<1>3. FolderTypes'
  BY <1>1 DEF FolderInv, FolderTypes
<1>4. \A f \in Names : Counted(f)'
  BY <1>1 DEF FolderInv, Counted
<1>5. \A f \in Names \ crossed : Followed(f)'
  BY <1>1, <1>2 DEF FolderInv, Followed
<1> QED
  BY <1>1, <1>3, <1>4, <1>5 DEF FolderInv

LEMMA FolderInvInit == FolderInit => FolderInv
<1> SUFFICES ASSUME FolderInit PROVE FolderInv
  OBVIOUS
<1>1. /\ there \in SUBSET Names /\ openers = [f \in Names |-> 0] /\ queue = <<>>
      /\ buffer \in {0, Capacity} /\ watchedFiles = <<>> /\ crossed = {}
      /\ created = [f \in Names |-> 0] /\ handed = [f \in Names |-> 0]
  BY DEF FolderInit
<1>2. FolderTypes
  BY <1>1, EventSizeAssumption DEF FolderTypes
<1>3. ASSUME NEW f \in Names PROVE Counted(f)
  <2>1. Unhanded(watchedFiles, f) = {} /\ Announced(queue, 0, f) = {}
    BY <1>1 DEF Unhanded, Announced
  <2>2. handed[f] = 0 /\ created[f] = 0
    BY <1>1
  <2> QED
    BY <2>1, <2>2, FS_EmptySet DEF Counted
<1>4. ASSUME NEW f \in Names PROVE Followed(f)
  <2> DEFINE h == [k \in 0..0 |-> Fate(f)]
  <2>1. Fate(f) \in Fates /\ openers[f] = 0
    BY <1>1 DEF Fate, Fates
  <2>2. Len(queue) = 0 /\ h[0] = Fate(f) /\ h \in [0..0 -> Fates]
    BY <1>1, <2>1
  <2> HIDE DEF h
  <2>3. Course(queue, f, h)
    BY <2>2 DEF Course
  <2>4. Known(watchedFiles, f, h[0])
    BY <1>1 DEF Known
  <2> QED
    BY <2>1, <2>2, <2>3, <2>4 DEF Followed
<1> QED
  BY <1>2, <1>3, <1>4 DEF FolderInv

LEMMA FolderInvNext == FolderInv /\ [FolderNext]_folderVars => FolderInv'
<1> SUFFICES ASSUME FolderInv, [FolderNext]_folderVars PROVE FolderInv'
  OBVIOUS
<1>1. CASE FolderWorld
  BY <1>1, WorldInv
<1>2. CASE HandleIncommingEvents
  BY <1>2, ReadInv
<1>3. CASE NoEvent
  BY <1>3, FolderStays DEF NoEvent
<1>4. CASE ProcessFiles
  BY <1>4, ProcessInv
<1>5. CASE Rest
  BY <1>5, RestInv
<1>6. CASE UNCHANGED folderVars
  BY <1>6, FolderStays DEF folderVars, monitorFilesVars
<1> QED
  BY <1>1, <1>2, <1>3, <1>4, <1>5, <1>6 DEF FolderNext, MonitorFolder

\* What is handed over is what the folder holds, once all of a file's events were read.
LEMMA HandedIsReady ==
  ASSUME FolderInv, [FolderNext]_folderVars, NEW f \in Names, handed'[f] > handed[f]
  PROVE  /\ handed'[f] <= created[f]
         /\ Unread(f) \/ f \in crossed \/ (f \in there /\ openers[f] = 0)
<1>1. handed[f] \in Nat /\ queue \in Seq(Masks \X Names)
  BY DEF FolderInv, FolderTypes
<1>2. ProcessFiles
  <2>1. handed' # handed
    BY <1>1
  <2>2. ~FolderWorld
    <3>1. ASSUME NEW g, NEW mask, Change(mask, g) PROVE handed' = handed
      BY <3>1 DEF Change
    <3>2. ASSUME NEW g, RenameAway(g) PROVE handed' = handed
      BY <3>2 DEF RenameAway
    <3> QED
      BY <2>1, <3>1, <3>2 DEF FolderWorld, Create, OpenFile, CloseFile, Delete
  <2>3. ~HandleIncommingEvents /\ ~NoEvent /\ ~Rest /\ ~UNCHANGED folderVars
    BY <2>1 DEF HandleIncommingEvents, NoEvent, Rest, folderVars, handoverVars
  <2> QED
    BY <2>2, <2>3 DEF FolderNext, MonitorFolder
<1>3. /\ handed[f]' <= created[f]
      /\ \E i \in DOMAIN watchedFiles : watchedFiles[i].path = f /\ ~watchedFiles[i].inUse
  BY <1>2, ProcessInv
<1>4. ASSUME ~Unread(f), f \notin crossed PROVE f \in there /\ openers[f] = 0
  <2>1. PICK h : Course(queue, f, h) /\ Known(watchedFiles, f, h[0]) /\ h[Len(queue)] = Fate(f)
    BY <1>4 DEF FolderInv, Followed
  <2> DEFINE n == Len(queue)
             T == {i \in 0..n : h[i] = h[0]}
  <2>2. n \in Nat /\ DOMAIN queue = 1..n
    BY <1>1
  <2>3. ASSUME NEW i \in 1..n, i - 1 \in T PROVE i \in T
    <3>1. queue[i][2] # f
      BY <1>4, <2>2 DEF Unread
    <3>2. h[i] = h[i - 1]
      BY <2>1, <3>1 DEF Course
    <3> QED
      BY <2>2, <2>3, <3>2
  <2>4. T \subseteq 0..n /\ 0 \in T
    BY <2>2
  <2> HIDE DEF T
  <2>5. n \in T
    <3>1. \A i \in 0..n : i \in T
      BY <2>2, <2>3, <2>4, UpTo
    <3> QED
      BY <2>2, <3>1
  <2>6. h[0] = Fate(f)
    BY <2>1, <2>5 DEF T
  <2>7. Fate(f) # "gone" /\ Fate(f) # "open"
    BY <1>3, <2>1, <2>6 DEF Known
  <2> QED
    BY <2>7 DEF Fate
<1> QED
  BY <1>3, <1>4

\* For any names, sizes of events and buffers.
THEOREM FilesHandedOnce == FolderSpec => ReadyFilesOnly
<1>1. FolderInv /\ [FolderNext]_folderVars =>
        [\A f \in Names :
           handed'[f] > handed[f] =>
             /\ handed'[f] <= created[f]
             /\ Unread(f) \/ f \in crossed \/ (f \in there /\ openers[f] = 0)]_folderVars
  BY HandedIsReady
<1> QED
  BY FolderInvInit, FolderInvNext, <1>1, PTL DEF FolderSpec, ReadyFilesOnly
=============================================================================
