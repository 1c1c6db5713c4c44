------------------------------ MODULE MCFrames ------------------------------
(***************************************************************************)
(* Two ways of a frame for TLC: a history has either the connection of     *)
(* FrameStream or the files of DatFile, which share nothing.  Two frames   *)
(* go over the connection: one with a long header and data, one with       *)
(* neither.  Of the frames of a file only those of time 1 share it.        *)
(***************************************************************************)
EXTENDS FrameStream, DatFile

CONSTANTS f1, f2

MCHeaderSize == [f \in Frames |-> IF f = f1 THEN 4 ELSE 3]
MCDataSize == [f \in Frames |-> IF f = f1 THEN 2 ELSE 0]

MCInit == Init /\ DatInit
MCNext ==
  \/ Next /\ sessions = 0 /\ ~entryFirst /\ UNCHANGED datVars
  \/ /\ DatNext
     /\ \A i, j \in DOMAIN recorded' :
          i < j /\ recorded'[i].time = recorded'[j].time => recorded'[j].time = 1
     /\ calls = 0 /\ ~gone /\ frame = f1 /\ UNCHANGED vars

MCSpec ==
  /\ MCInit /\ [][MCNext]_<<vars, datVars>>
  /\ WF_vars(AsyncDeserializeFrom) /\ WF_datVars(ReaderThread)
=============================================================================
