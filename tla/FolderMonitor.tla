---------------------------- MODULE FolderMonitor ----------------------------
(***************************************************************************)
(* FolderMonitor (DeploymentAgent/src/folder_monitor.h) in the loop of     *)
(* SystemObserver::monitor: it follows the files of one folder by inotify  *)
(* and hands each of them to a consumer when nobody has it open any more   *)
(* and nothing has happened to it for fileReadyTimeout.                    *)
(*                                                                         *)
(* The world creates, opens, closes, deletes and renames files as it likes.*)
(* Directories and links are files that are created without being opened.  *)
(* Reading with an empty buffer, which a moved monitor has, and reading an *)
(* event that is larger than the buffer fail, and the event stays.         *)
(***************************************************************************)
EXTENDS Integers, Sequences, SequencesExt, FiniteSetsExt

CONSTANTS
  Names,        \* names of files in the folder
  EventSize,    \* the size of an event of each, in sizes of its header
  Capacity,     \* EVENT_BUFF_SIZE, in the same unit
  MaxOpeners,   \* bound: how many have a file open
  MaxChanges    \* bound: what happens in the folder

ASSUME EventSizeAssumption ==
  EventSize \in [Names -> Nat \ {0}] /\ Capacity \in Nat

VARIABLES
  there,        \* the files that exist
  openers,      \* how many have a file of this name open
  changes,
  queue,        \* the events inotify holds
  edge,         \* epoll_wait will report the descriptor
  buffer,       \* the size of eventBuffer
  watchedFiles,
  turn,         \* what the loop does next: "wait" or "process"
  created,      \* how often a file of this name was created,
  handed,       \* and how often one was handed over
  crossed       \* the names whose events do not tell who has the file open

worldVars == <<there, openers, changes>>
inotifyVars == <<queue, edge>>
handoverVars == <<created, handed, crossed>>
monitorFilesVars == <<buffer, watchedFiles, turn>>
folderVars == <<worldVars, inotifyVars, monitorFilesVars, handoverVars>>

\* A WatchedFile; rested says that notTouchedIn(fileReadyTimeout) holds.
WatchedFile(f) == [path |-> f, inUse |-> FALSE, consumed |-> FALSE, rested |-> FALSE]

\* The monitor is used where it was made, or was moved into a SystemObservable.
FolderInit ==
  /\ there \in SUBSET Names
  /\ openers = [f \in Names |-> 0] /\ changes = 0
  /\ queue = <<>> /\ edge = FALSE
  /\ buffer \in {0, Capacity} /\ watchedFiles = <<>> /\ turn = "wait"
  /\ created = [f \in Names |-> 0] /\ handed = [f \in Names |-> 0] /\ crossed = {}

-----------------------------------------------------------------------------
(* The folder.  inotify drops an event that equals the last one it holds. *)

Change(mask, f) ==
  /\ changes < MaxChanges /\ changes' = changes + 1
  /\ IF queue # <<>> /\ Last(queue) = <<mask, f>>
     THEN UNCHANGED inotifyVars
     ELSE queue' = Append(queue, <<mask, f>>) /\ edge' = TRUE
  /\ UNCHANGED <<monitorFilesVars, handed>>

Create(f) ==
  /\ f \notin there
  /\ there' = there \cup {f} /\ created' = [created EXCEPT ![f] = @ + 1]
  /\ Change("create", f)
  /\ UNCHANGED <<openers, crossed>>

\* A second opener, or one of a file that was there before under this name.
OpenFile(f) ==
  /\ f \in there /\ openers[f] < MaxOpeners
  /\ openers' = [openers EXCEPT ![f] = @ + 1]
  /\ crossed' = IF openers[f] > 0 THEN crossed \cup {f} ELSE crossed
  /\ Change("open", f)
  /\ UNCHANGED <<there, created>>

\* Also of a file that is deleted by now: events carry the name it had.
CloseFile(f) ==
  /\ openers[f] > 0
  /\ openers' = [openers EXCEPT ![f] = @ - 1]
  /\ Change("close", f)
  /\ UNCHANGED <<there, created, crossed>>

Delete(f) ==
  /\ f \in there
  /\ there' = there \ {f}
  /\ crossed' = IF openers[f] > 0 THEN crossed \cup {f} ELSE crossed
  /\ Change("delete", f)
  /\ UNCHANGED <<openers, created>>

\* A file leaves the folder by rename, which the monitor does not watch.
RenameAway(f) ==
  /\ f \in there /\ openers[f] = 0
  /\ changes < MaxChanges /\ changes' = changes + 1
  /\ there' = there \ {f} /\ crossed' = crossed \cup {f}
  /\ UNCHANGED <<openers, inotifyVars, monitorFilesVars, created, handed>>

FolderWorld ==
  \E f \in Names :
    Create(f) \/ OpenFile(f) \/ CloseFile(f) \/ Delete(f) \/ RenameAway(f)

-----------------------------------------------------------------------------
(* The monitor. *)

\* read() takes as many whole events as the buffer has room for.
Fitting ==
  LET size[k \in 0..Len(queue)] ==
        IF k = 0 THEN 0 ELSE size[k - 1] + EventSize[queue[k][2]]
  IN Max({k \in 0..Len(queue) : size[k] <= buffer})

\* getWatchedFileIterator: the first of this path, or the end.
Position(files, f) ==
  Min({i \in DOMAIN files : files[i].path = f} \cup {Len(files) + 1})

\* Mutant of HandleStateChange: closing does not end the use.
HandleStateChangeKept(w, mask) ==
  [w EXCEPT !.inUse = (@ \/ mask = "open"), !.rested = FALSE]

HandleStateChange(w, mask) ==
  [w EXCEPT !.inUse = (mask = "open"), !.rested = FALSE]

\* One event of parseEvents.
HandleEvent(files, event) ==
  LET mask == event[1]
      i == Position(files, event[2])
  IN IF mask = "create" THEN Append(files, WatchedFile(event[2]))
     ELSE IF i > Len(files) THEN files
     ELSE IF mask = "delete" THEN RemoveAt(files, i)
     ELSE [files EXCEPT ![i] = HandleStateChange(@, mask)]

\* The files after the first k events of the queue.
Parsed(k) ==
  LET after[i \in 0..k] ==
        IF i = 0 THEN watchedFiles ELSE HandleEvent(after[i - 1], queue[i])
  IN after[k]

\* Mutant of HandleIncommingEvents: only the first event is parsed.
HandleIncommingEventsFirst ==
  /\ turn = "wait" /\ edge
  /\ edge' = FALSE /\ turn' = "process"
  /\ queue' = SubSeq(queue, Fitting + 1, Len(queue))
  /\ watchedFiles' = Parsed(Min({1, Fitting}))
  /\ UNCHANGED <<worldVars, buffer, handoverVars>>

\* The descriptor is edge triggered, and one read is made for an edge: what it
\* leaves waits for the next event.
HandleIncommingEvents ==
  /\ turn = "wait" /\ edge
  /\ edge' = FALSE /\ turn' = "process"
  /\ queue' = SubSeq(queue, Fitting + 1, Len(queue))
  /\ watchedFiles' = Parsed(Fitting)
  /\ UNCHANGED <<worldVars, buffer, handoverVars>>

\* epoll_wait times out.
NoEvent ==
  /\ turn = "wait" /\ ~edge
  /\ turn' = "process"
  /\ UNCHANGED <<worldVars, inotifyVars, buffer, watchedFiles, handoverVars>>

Ready(w) == ~w.consumed /\ ~w.inUse /\ w.rested

ReadyOf(f) == {i \in DOMAIN watchedFiles : watchedFiles[i].path = f /\ Ready(watchedFiles[i])}

\* process, for all files.
ProcessFiles ==
  /\ turn = "process" /\ turn' = "wait"
  /\ watchedFiles' = [i \in DOMAIN watchedFiles |->
       [watchedFiles[i] EXCEPT !.consumed = @ \/ Ready(watchedFiles[i])]]
  /\ handed' = [f \in Names |-> handed[f] + Cardinality(ReadyOf(f))]
  /\ UNCHANGED <<worldVars, inotifyVars, buffer, created, crossed>>

\* fileReadyTimeout passes for a file.
Rest ==
  /\ \E i \in DOMAIN watchedFiles :
       /\ ~watchedFiles[i].rested
       /\ watchedFiles' = [watchedFiles EXCEPT ![i].rested = TRUE]
  /\ UNCHANGED <<worldVars, inotifyVars, buffer, turn, handoverVars>>

MonitorFolder == HandleIncommingEvents \/ NoEvent \/ ProcessFiles

FolderNext == FolderWorld \/ MonitorFolder \/ Rest

FolderSpec == FolderInit /\ [][FolderNext]_folderVars

-----------------------------------------------------------------------------
\* The consumer gets a file once, however often it is opened again afterwards,
\* and none that was there before the monitor.  It gets none that somebody has
\* open or that is gone, unless an event of that name was not read yet, or its
\* events do not tell: two had it open, it was deleted while open, or it was
\* renamed away (the next file of its name is then taken for the old one).
Unread(f) == \E k \in DOMAIN queue : queue[k][2] = f
ReadyFilesOnly ==
  [][\A f \in Names :
       handed'[f] > handed[f] =>
         /\ handed'[f] <= created[f]
         /\ Unread(f) \/ f \in crossed \/ (f \in there /\ openers[f] = 0)]_folderVars

\* A file that nobody has open, and whose events were read, is handed over: it
\* rests some day.
Settled(f) ==
  /\ f \in there \ crossed /\ openers[f] = 0 /\ created[f] > 0
  /\ queue = <<>> /\ buffer > 0
Consumed(f) ==
  \E i \in DOMAIN watchedFiles : watchedFiles[i].path = f /\ watchedFiles[i].consumed
SettledIsHanded ==
  \A f \in Names : Settled(f) ~> Consumed(f) \/ ~Settled(f)
=============================================================================
