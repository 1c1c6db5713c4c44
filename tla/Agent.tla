-------------------------------- MODULE Agent --------------------------------
(***************************************************************************)
(* The DeploymentAgent (DeploymentAgent/src/main.cpp): one thread runs the *)
(* observer's loop, and the pipelines inside it, for one stick at a time.  *)
(* Sticks come and go meanwhile.                                           *)
(***************************************************************************)
EXTENDS UsbMonitor, Deployment

LOCAL INSTANCE Functions

vars == <<stickVars, monitorVars, pipelineVars>>

TypeOK == SticksTypeOK /\ MonitorTypeOK /\ PipelineTypeOK

Init == SticksInit /\ MonitorInit /\ PipelineInit

Observe ==
  /\ step = "idle"
  /\ \/ Await /\ UNCHANGED pipelineVars
     \/ \E s \in Sticks : Pass(s) /\ UNCHANGED pipelineVars
     \/ \E s \in Sticks : Consume(s) /\ Begin(s)

Process == Pipeline /\ UNCHANGED <<deviceVars, eventVars, monitorVars>>

Next ==
  \/ Observe \/ Process
  \/ Crash /\ UNCHANGED <<deviceVars, eventVars, monitorVars>>
  \/ Launch /\ Restart /\ UNCHANGED deviceVars
  \/ SticksNext /\ UNCHANGED <<monitorVars, pipelineVars>>

Spec == Init /\ [][Next]_vars

\* The agent's thread runs; nobody has to plug in or mount anything.
FairSpec == Spec /\ WF_vars(Observe) /\ WF_vars(Process)

-----------------------------------------------------------------------------
\* Whatever fails, and whenever the agent is killed, the policy file or its
\* backup exists: moveFile removes the backup only while there is a policy to
\* rename (backupPolicy), and restorePolicy removes what a backup replaces.
\* Unless a policy file was there that backupPolicy could not open.
PolicyOrBackup == policy # None \/ backup # None \/ unopened

\* A deployment that is broken off leaves the policy as it was, provided that
\* there was one, that it can be opened and that remove and rename work beside
\* it and the agent is not killed: copying the new file may fail half way.
RestoredAfterFailure ==
  step = "idle" /\ outcome = "aborted" /\ ~ioError /\ before # None => policy = before

\* A deployment that reports success ("Succesfully handled mass storage",
\* usb_processing_pipeline.h:46) has installed policy and module of one and
\* the same package.
SuccessInstalls == outcome = "installed" => policy = stick /\ module = stick

\* The same, but for packages whose archive is a folder.
ArchiveInstalls ==
  outcome = "installed" => policy = stick /\ (module = stick \/ Kind[stick] = "folder")

\* Once the stop command has worked, every way out of the pipeline comes by a
\* start command.
PlatformComesBack == step = "idle" /\ platform = "down" => excused

\* A device that has been noted, and whose removal is not on its way, is
\* handed to the consumer, however late it is mounted, unless it is unplugged
\* or never (again) mounted: every turn of the observer looks at it again.  The
\* agent is not killed any more then, and does not end by an exception (a new
\* process knows of no device).
Noted(s) == s \in delayed /\ crashes = MaxCrashes /\ <<"remove", s>> \notin Range(udev)
HandedOver(s) == step = "detect" /\ stick = s
MountedIsConsumed ==
  \A s \in Sticks : Noted(s) ~> HandedOver(s) \/ s \notin plugged \/ [](s \notin mounted)
                \/ step = "ended"
=============================================================================
