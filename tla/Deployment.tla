----------------------------- MODULE Deployment -----------------------------
(***************************************************************************)
(* UsbProcessingPipeline and DeployPipeline of the DeploymentAgent, with   *)
(* FileMover, Unpacker and TemporaryFolder: a package of one archive and   *)
(* one policy file is moved from a USB stick to a temporary folder, the    *)
(* platform is stopped, the archive unpacked, the policy file replaced and *)
(* the platform started again.                                             *)
(*                                                                         *)
(* Every file operation and every shell command is a step of its own and   *)
(* may fail, and the agent may end between two steps.  Files are named by  *)
(* the version they are of: the stick they came from, or Installed.  The   *)
(* stick is another file system than the temporary folder, so files are    *)
(* copied from it; the policy file may be renamed or copied into its place.*)
(***************************************************************************)
EXTENDS UsbSticks

CONSTANTS
  Installed,    \* the version installed at the start
  Broken,       \* a file that was copied in part
  None,         \* no file, no stick
  MaxCrashes    \* bound: how often the agent is killed

ASSUME VersionsAssumption ==
  /\ None # Broken /\ None # Installed /\ Broken # Installed
  /\ {None, Broken, Installed} \cap Sticks = {}
ASSUME CrashesAssumption == MaxCrashes \in Nat

VARIABLES
  tmp,          \* the package's files in the temporary folder
  policy,       \* the file at policyPath
  backup,       \* the file at policyPath.old
  module,       \* the module's folder at modulesDeployPath
  nested,       \* a folder of the same name inside it
  platform,     \* "up" or "down"
  step,         \* the next step of the pipelines, or "idle" or "ended"
  stick,        \* the stick in work, or worked on last
  crashes,
  before,       \* history: policy when the work on stick began
  outcome,      \* history: how that work ended
  ioError,      \* history: open, remove or rename failed at the policy file
  unopened,     \* history: it was replaced, not opened for the backup
  excused       \* history: the last stop or start command failed, or the
                \* agent ended before it gave the start command

policyVars == <<policy, backup>>
moduleVars == <<module, nested>>
historyVars == <<before, outcome, ioError, unopened, excused>>
pipelineVars == <<tmp, policyVars, moduleVars, platform, step, stick, crashes, historyVars>>

Versions == Sticks \cup {Installed}
Files == Versions \cup {None, Broken}
Steps == {"idle", "detect", "temp", "moveArchive", "movePolicy", "stop", "unpack",
          "backup", "backupMove", "deploy", "deployMove", "restore", "restoreMove",
          "start", "fallback", "cleanup", "ended"}
Outcomes == {"none", "refused", "installed", "aborted", "down", "killed"}

PipelineTypeOK ==
  /\ tmp \subseteq Parts
  /\ policy \in Files /\ backup \in Files /\ module \in Files /\ nested \in Files
  /\ platform \in {"up", "down"}
  /\ step \in Steps /\ stick \in Sticks \cup {None}
  /\ crashes \in 0..MaxCrashes
  /\ before \in Files /\ outcome \in Outcomes
  /\ ioError \in BOOLEAN /\ unopened \in BOOLEAN /\ excused \in BOOLEAN

PipelineInit ==
  /\ tmp = {}
  /\ policy = Installed /\ backup = None
  /\ module \in {Installed, None} /\ nested = None
  /\ platform = "up"
  /\ step = "idle" /\ stick = None
  /\ crashes = 0
  /\ before = Installed /\ outcome = "none"
  /\ ioError = FALSE /\ unopened = FALSE /\ excused = FALSE

\* From step this to step next.
Go(this, next) == step = this /\ step' = next

-----------------------------------------------------------------------------
(* UsbProcessingPipeline. *)

\* The consumer is called with a stick.
Begin(s) ==
  /\ Go("idle", "detect")
  /\ stick' = s
  /\ before' = policy /\ outcome' = "refused" /\ ioError' = FALSE
  /\ unopened' = (unopened /\ policy = None /\ backup = None)
  /\ UNCHANGED <<usb, tmp, policyVars, moduleVars, platform, crashes, excused>>

\* What the detectors of policy files and archives find: nothing once the
\* stick is unmounted, whose folder cannot be opened or is empty.
Listed == IF stick \in mounted THEN usb[stick] ELSE {}

\* InstallPackageDetector, on what the stick holds now: a policy file and
\* exactly one archive.
Complete == Listed = Parts
Detect ==
  /\ \/ Complete /\ Go("detect", "temp")
     \/ ~Complete /\ Go("detect", "idle")
  /\ UNCHANGED <<usb, tmp, policyVars, moduleVars, platform, stick, crashes, historyVars>>

\* The folder cannot be made, or its parent cannot be opened: that exception
\* is caught nowhere, and the agent ends.
MakeTemp ==
  /\ Go("temp", "moveArchive") \/ Go("temp", "idle") \/ Go("temp", "ended")
  /\ UNCHANGED <<usb, tmp, policyVars, moduleVars, platform, stick, crashes, historyVars>>

\* moveFile from the stick: cp -rf, then remove(source), whose failure (it
\* fails on every folder) goes unnoticed.
CopyOff(part) ==
  /\ stick \in mounted
  /\ tmp' = tmp \cup {part}
  /\ \/ /\ part = "policy" \/ Kind[stick] # "folder"
        /\ usb' = [usb EXCEPT ![stick] = @ \ {part}]
     \/ UNCHANGED usb

MoveArchive ==
  /\ \/ Go("moveArchive", "movePolicy") /\ CopyOff("archive")
     \/ Go("moveArchive", "cleanup") /\ UNCHANGED <<usb, tmp>>
  /\ UNCHANGED <<policyVars, moduleVars, platform, stick, crashes, historyVars>>

MovePolicy ==
  /\ \/ Go("movePolicy", "stop") /\ CopyOff("policy")
     \/ Go("movePolicy", "cleanup") /\ UNCHANGED <<usb, tmp>>
  /\ UNCHANGED <<policyVars, moduleVars, platform, stick, crashes, historyVars>>

\* The pipeline returns; ~TemporaryFolder removes what is left of the package.
Cleanup ==
  /\ Go("cleanup", "idle")
  /\ tmp' = {}
  /\ UNCHANGED <<usb, policyVars, moduleVars, platform, stick, crashes, historyVars>>

-----------------------------------------------------------------------------
(* DeployPipeline. *)

\* A stop command that fails may have stopped the platform.
StopPlatform ==
  /\ \/ Go("stop", "unpack") /\ platform' = "down" /\ excused' = FALSE
     \/ /\ Go("stop", "cleanup") /\ platform' \in {platform, "down"}
        /\ excused' = (excused \/ platform' = "down")
  /\ UNCHANGED <<usb, tmp, policyVars, moduleVars, stick, crashes, before, outcome, ioError,
                 unopened>>

\* Mutant of Unpack: a failure ends the pipeline at once.
UnpackReturn ==
  /\ \/ Go("unpack", "backup") /\ module' = stick
     \/ Go("unpack", "cleanup") /\ UNCHANGED module
  /\ UNCHANGED <<usb, tmp, policyVars, nested, platform, stick, crashes, historyVars>>

\* Mutant of Unpack: the exit status of the command is not looked at.
UnpackUnchecked ==
  /\ Go("unpack", "backup") /\ module' \in {stick, Broken}
  /\ UNCHANGED <<usb, tmp, policyVars, nested, platform, stick, crashes, historyVars>>

\* unzip -o and tar write over what is there (the files that only an older
\* version had stay, and are left aside here); cp -fr copies a folder into the
\* destination when that exists already.
Unpack ==
  /\ \E done \in BOOLEAN :
       LET content == IF done THEN stick ELSE Broken
           inside == Kind[stick] = "folder" /\ module # None
       IN /\ Go("unpack", IF done THEN "backup" ELSE "fallback")
          /\ IF inside THEN UNCHANGED module
             ELSE module' = content \/ (~done /\ UNCHANGED module)
          /\ IF inside THEN nested' = content \/ (~done /\ UNCHANGED nested)
             ELSE UNCHANGED nested
  /\ UNCHANGED <<usb, tmp, policyVars, platform, stick, crashes, historyVars>>

\* Mutant of Backup: an older backup makes a new one unnecessary.
BackupOnce ==
  /\ Go("backup", IF policy = None \/ backup # None THEN "deploy" ELSE "backupMove")
  /\ UNCHANGED <<usb, tmp, policyVars, moduleVars, platform, stick, crashes, historyVars>>

\* backupPolicy: a policy file that cannot be opened, be it there or not, is
\* not backed up; otherwise moveFile first removes an older backup ...
Backup ==
  /\ \/ /\ Go("backup", "deploy")
        /\ ioError' = (ioError \/ policy # None)
        /\ unopened' = (unopened \/ policy # None)
        /\ UNCHANGED backup
     \/ /\ policy # None /\ Go("backup", "backupMove")
        /\ \/ backup' = None /\ UNCHANGED ioError
           \/ backup # None /\ ioError' = TRUE /\ UNCHANGED backup
        /\ UNCHANGED unopened
  /\ UNCHANGED <<usb, tmp, policy, moduleVars, platform, stick, crashes, before, outcome, excused>>

\* ... and then renames the policy file.
BackupMove ==
  /\ \/ /\ Go("backupMove", "deploy")
        /\ backup' = policy /\ policy' = None
        /\ UNCHANGED ioError
     \/ /\ Go("backupMove", "fallback")
        /\ ioError' = TRUE
        /\ UNCHANGED policyVars
  /\ UNCHANGED <<usb, tmp, moduleVars, platform, stick, crashes, before, outcome, unopened,
                 excused>>

\* remove(policyPath), whose failure is noticed only later.
RemovePolicy ==
  \/ policy' = None /\ UNCHANGED ioError
  \/ policy # None /\ ioError' = TRUE /\ UNCHANGED policy

\* moveFile of the new policy file: what is still in its place is removed ...
Deploy ==
  /\ Go("deploy", "deployMove")
  /\ RemovePolicy
  /\ UNCHANGED <<usb, tmp, backup, moduleVars, platform, stick, crashes, before, outcome,
                 unopened, excused>>

\* ... and then it is renamed or copied; a copy may fail half way.
DeployMove ==
  /\ \/ /\ Go("deployMove", "start")
        /\ policy' = stick /\ tmp' = tmp \ {"policy"}
     \/ /\ Go("deployMove", "restore")
        /\ policy' \in {policy, Broken}
        /\ UNCHANGED tmp
  /\ UNCHANGED <<usb, backup, moduleVars, platform, stick, crashes, historyVars>>

\* Mutant of Restore: the backup is removed instead of the new file.
RestoreWrong ==
  /\ Go("restore", "restoreMove")
  /\ backup' = None
  /\ UNCHANGED <<usb, tmp, policy, moduleVars, platform, stick, crashes, historyVars>>

\* restorePolicy: what is left of the new policy file is removed ...
Restore ==
  /\ Go("restore", "restoreMove")
  /\ RemovePolicy
  /\ UNCHANGED <<usb, tmp, backup, moduleVars, platform, stick, crashes, before, outcome,
                 unopened, excused>>

\* ... and the backup, if there is one, is renamed, whatever it is of.
RestoreMove ==
  /\ Go("restoreMove", "fallback")
  /\ \/ /\ backup # None
        /\ policy' = backup /\ backup' = None
        /\ UNCHANGED ioError
     \/ ioError' = TRUE /\ UNCHANGED policyVars
  /\ UNCHANGED <<usb, tmp, moduleVars, platform, stick, crashes, before, outcome, unopened,
                 excused>>

\* The start command, from this step, with its outcome when it works.  One that
\* fails may have started the platform.
StartCommand(this, good) ==
  /\ Go(this, "cleanup")
  /\ \/ platform' = "up" /\ excused' = FALSE /\ outcome' = good
     \/ platform' \in {platform, "up"} /\ excused' = TRUE /\ outcome' = "down"
  /\ UNCHANGED <<usb, tmp, policyVars, moduleVars, stick, crashes, before, ioError, unopened>>

\* The configure command's failure is only logged.
StartPlatform == StartCommand("start", "installed")
Fallback == StartCommand("fallback", "aborted")

-----------------------------------------------------------------------------
\* The agent is killed.  What is in the temporary folder stays there, under a
\* name nobody will use again.
Crash ==
  /\ step # "ended" /\ crashes < MaxCrashes
  /\ crashes' = crashes + 1
  /\ step' = "ended" /\ tmp' = {}
  /\ outcome' = IF step = "idle" THEN outcome ELSE "killed"
  /\ excused' = (excused \/ platform = "down")
  /\ UNCHANGED <<usb, policyVars, moduleVars, platform, stick, before, ioError, unopened>>

\* Somebody starts the agent again.
Launch ==
  /\ Go("ended", "idle")
  /\ UNCHANGED <<usb, tmp, policyVars, moduleVars, platform, stick, crashes, historyVars>>

Pipeline ==
  \/ Detect \/ MakeTemp \/ MoveArchive \/ MovePolicy \/ Cleanup
  \/ StopPlatform \/ Unpack \/ Backup \/ BackupMove \/ Deploy \/ DeployMove
  \/ Restore \/ RestoreMove \/ StartPlatform \/ Fallback
=============================================================================
