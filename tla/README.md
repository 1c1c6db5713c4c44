# TLA+ models of NewCPP

This directory models the code of the NewCPP repository (the MLCommon library,
the DeploymentAgent and a few Linux experiments) in TLA+. TLC checks small
instances; TLAPS proves the theorems listed below for every value of the
constants. Line numbers refer to the repository's sources; paths are relative
to `src/`.

Contents: 1 inventory, 2 plan, 3 the modules and what their runs show, 4 bounds
and fairness, 5 what is proved, 6 what is only model-checked, 7 what is not
modelled.

    tlc -workers 2 -config worker_timers.cfg MCWorker     # a run
    tlapm WorkerProofs.tla                                # the proofs of a module

`PROJECT.json` names the runs, the lines every definition stands for, a mutant
for every property, the hazards and the theorems.

## 1. Inventory

| Part | State it keeps | Operations | What is hard | What makes it correct |
|---|---|---|---|---|
| **Worker** (`MLCommon/src/TimerFramework/Worker.cpp`) | `_StopRequested`, `_Thread`, `_Queue`, `_TimerList` | Start, Stop, StopWithJoin, RequestStop, SendMessage, StartTimer, StopTimer; the dispatcher loop | clients, dispatcher and timer threads meet in one queue; the stop flag, `_Thread` and the list are only partly protected | one dispatcher; messages handled once and in order; registered timers unique and alive |
| **Timer** (`.../Timer.cpp`) | `_isRunning`, `_Thread`, `_abortMutex` | Start, Stop, Run, InvokeCallback | a mutex used as a cancellable sleep; stop against expiry; stale callbacks | no callback before the interval; no thread left after Stop |
| **Ipc** (`MLCommon/src/Network`, `inc/Network/Ipc`) | client descriptors of every listening socket, epoll sets, transmitter queue | Connector accept loop, Receiver poll loop, Transmitter send loop, Start/Stop; each in a Unix and a Windows build | three threads share the descriptor list; edge-triggered epoll, level-triggered select; descriptors are numbers the kernel reuses | no event of an unmanaged descriptor; clients that stay are served; data sent in order |
| **FsmHandler** (`MLCommon/inc/Stm`) | current state, pending event and parameter | Initialize, SetCurrentState, fire_event | several callers, chains of catch-all rows; the state is written without the mutex the run holds | run to completion, parameters freed once |
| **SlidingWindow**, **SlidingWindowMgr** (`MLCommon/inc/Tools`) | a deque, a read position, a history depth | AddData, GetNextData, HasNextData, setHistoryDepth, move | the position is an iterator into a container that grows and shrinks at both ends | every element read once and in order; bounded history |
| **Ticker** (`MLCommon/inc/Tools/Ticker.h`) | running and stop flags, a detached thread | setters, Start, Stop, IsRunning | the controller and the thread share plain flags | one thread per Ticker; configuration fixed while it runs |
| **V4LFrame, converter** (`.../SensorData/Frame`, `src/Converter`) | header and data under construction, `accumulatedBytes` | SerializeTo, DeserializeFrom, AsyncDeserializeFrom | a frame arrives in pieces; a write may be partial | what is written is read back |
| **DatFile** (`.../SensorData/DatFile`) | data and index files; a map of timestamps to offsets | writer OpenFiles, SaveMetaData, Write, close; reader Start, Stop, Loop, GetFramesAtTimestamp | index and data are separate files behind buffers, the writer may be killed; the map is consumed while it is walked; Stop detaches the thread | an index entry points at a whole frame; a replay is in order and complete, and ends |
| **TcpClient, Socket, URI** (`MLCommon/src/Network`) | descriptors, addresses | connect, listen, accept, writeData, readData, close; parse | partial sends; copies that share a descriptor | bytes sent once and in order |
| **Deployment pipelines** (`DeploymentAgent/src/*pipeline.h`, `unpacker.h`, `file_mover.h`, `temporary_folder.h`) | files on the stick, in the temporary folder, in the install and policy directories | detect, move, stop, unpack, back up, deploy, restore, start | every step can fail half way, and the agent can be killed between any two | a package is deployed, or the old policy is back |
| **UsbMassStorageMonitor, SystemObserver** (`DeploymentAgent/src`) | the noted devices | monitor, handleIncommingEvents, process | udev events come through an edge-triggered epoll; mounting comes later | every mounted stick is processed |
| **FolderMonitor** (`DeploymentAgent/src`) | watched files and the time of their last change | handleIncommingEvents, process | one read per edge into a small buffer; use is told from events only | every file that has come to rest is handed over, once, and no other |
| **Experiments**: `loger.cpp`, `dir_crawl`, `epoll`, `inotify`, `notify_file` | a read position, directory entries | read, crawl, watch | | |
| **Configuration, JsonReader, MD5, Utils, Types, MQTT interfaces** | parsed values | load, get | little | |

How they interact. A Worker owns the timers registered with it, and their
threads call back into its queue. IpcConnector, IpcReceiver, IpcTransmitter and
DatFileReader derive from Worker and replace its `Loop`: they use its thread and
its stop flag, not its queue or timers. IpcConnector adds accepted clients to
the list of an IIpcSocket; IpcReceiver brings its epoll set in line with that
list on every turn and takes clients that hang up off it; IpcTransmitter copies
the list to send, and takes off it what it cannot write to. SystemObserver, an
`EPollWorker`, runs UsbMassStorageMonitor and FolderMonitor in one thread; the
USB monitor hands a mounted stick to UsbProcessingPipeline, which calls
DeployPipeline, both of them over FileMover, Unpacker and TemporaryFolder.
V4LFrame is written to and read from a stream, of which TcpClient over Socket is
one and a DatFile's data file another. FsmHandler, SlidingWindow and Ticker
stand alone.

## 2. Plan

Done:

1. `Mailbox`, `Worker`, `MCWorker`, `WorkerProofs`: the worker and its timers.
2. `IpcSockets`, `IpcConnector`, `IpcReceiver`, `IpcTransmitter`, `Ipc`, `MCIpc`.
3. `RunToCompletion`, `Fsm`, `MCFsm`; `Channels`, `SlidingWindow`,
   `MCSlidingWindow`, `SlidingWindowProofs`; `Ticker`, `TickerProofs`.
4. `UsbSticks`, `UsbMonitor`, `Deployment`, `Agent`, `MCAgent`, `AgentProofs`.
5. `FrameChannel`, `FrameStream`; `DatFile`, with the frames of it; `MCFrames`.
6. `FolderMonitor`, in the observer's loop, checked by `MCAgent`.
7. `IpcWindows`: the loops of the Windows build, composed by `Ipc`.
8. `FsmProofs`, with the refinement of `RunToCompletion`; `IpcProofs`;
   `DatFileProofs`; `FrameStreamProofs`, with the steps of `FrameChannel`;
   the refinement of `Mailbox` in `WorkerProofs`; the watched folder in
   `AgentProofs`. With them every safety and action property of a passing run is
   the statement of a theorem (section 5 says under which assumptions).

To come, more of the system:

9. The accepting side of `Socket` (copies of a Socket share one descriptor), and
   a reader of several files.
10. Moves of a SlidingWindow.

To come, more proofs:

11. Worker: what still holds when a detached worker is started again and two
    dispatchers share the queue and the list of timers.
12. Ipc: on Windows, what holds of names in place of `RightSocket`.

## 3. The modules and what their runs show

### Worker and timers: `Mailbox`, `Worker`

`Worker` has the threads of the code as actors. The owner makes the public
calls (`Start`, `RequestStop`, `Stop`, `StopWithJoin` and the end of its join).
A client's `SendMessage`, `StartTimer` and `StopTimer` are two steps: the test
of `_Thread`, made without a lock in `SendEvent`, and the push under `_Mutex`.
The dispatcher looks at the stop flag, pops, and handles by type of event;
stopping a timer is two steps, `Timer::Stop`'s unlock and its join. A timer's
thread waits in `try_lock_for`, and either is aborted or expires and posts. The
queue, `_TimerList` (`timerList`), `_abortMutex` (`locked`), `_isRunning`
(`running`) and `_Thread` (`thread`, `timerThread`) are variables. `Mailbox` is
what a worker promises for messages: accepted in some order, handled once and in
that order. `taken` keeps the messages in the order of their pushes; what of it
was not handled yet is what the mailbox holds (`AcceptedMessages`).

| Run | Instance | What it shows |
|---|---|---|
| `worker_timers` | one client, one message, two timers of id 1 (one-shot and cyclic) and one of id 0; `Stop` (detach) allowed; 1.2 M states | no orphan thread, no silent timer, no unlock of a free mutex |
| `worker_live` | two dispatchers (a restart), two clients, two messages, one cyclic timer | one dispatcher at a time; `Mailbox` is implemented; messages are handled, `StopWithJoin` returns given one more event, a cyclic timer keeps firing |
| `worker_stale` | expected violation | a callback queued before its timer was replaced runs the callback of the successor, before that one's interval (`Worker.cpp:322`) |

`JoinReturns` needs "one more event": `StopWithJoin` sets the flag without
notifying the condition variable, so a dispatcher that waits on an empty queue
notices nothing (`Worker.cpp:158`).

### IPC: `IpcSockets`, `IpcConnector`, `IpcReceiver`, `IpcTransmitter`, `IpcWindows`, `Ipc`

`IpcSockets` holds what the threads share: the list of descriptors of every
socket, and the kernel's part of it (descriptor numbers, connections, unread
data, edges of epoll that are due). The three thread modules have one action per
step of their loop between two points where another thread may come in: the
receiver's copy of one list, its `epoll_wait`, each event; the transmitter's
choice of an entry and each write. `IpcWindows` has the loops of the Windows
build: select instead of epoll, sends that may fail and then close the client, a
receiver that takes nobody off a list, a port that cannot be bound twice. `Ipc`
composes them for the platform of a history (`platform`, constant in it). As in
`MLCommon/test/ipc_test.cpp:27` receiver and transmitter are stopped before the
connector and keep their members over a restart.

| Run | Instance | What it shows |
|---|---|---|
| `ipc_safety` | two clients, sockets and descriptors, a restart, two sends per socket; 5.9 M states, with symmetry | data under the right socket's name, no event of an unmanaged descriptor, a client that stays connected stays listed, what it is sent arrives in order and without a gap |
| `ipc_live` | one socket, polite clients, no restart; Unix and Windows; 145 k states | every client is accepted, heard, taken off the list after it hung up; the queue drains |
| `ipc_restart` | expected violation | after a restart a new client with an old descriptor number is never added to the epoll set (`IpcReceiverUnix.cpp:119`) |

`Polite` clients connect when no other waits at the socket and write when the
receiver's buffer has room. Without that one accept and one read per edge leave
clients and data waiting: two hazards of `PROJECT.json` say where.

The safety run is for Unix. On Windows `RightSocket` does not hold: with
`Platforms = {"windows"}` TLC finds the transmitter closing a client whose
number the receiver has copied and a new connection of the other socket getting
that number; the data of the new one is then announced under the old name
(`IpcReceiverWindows.cpp:60`). A hung-up client stays listed there until
something is sent to it, which `Unlisted` takes into account (`Noticed`).

### State machine: `RunToCompletion`, `Fsm`

`Fsm` is `fire_event` under `_FsmMutex` for any transition table, step by step:
the queue of pending events, the search for a row, guards (a choice), the
catch-all rows (`Push`) and what becomes of the parameter. `Initialize` and
`SetCurrentState` write `_CurrentState` without the mutex (`FsmHandler.h:57-68`)
and may do so at any time, before, between and in the middle of runs: a search
of the table reads, for each row, any of the values of that time (`seen`), and
the end of an action overwrites what was written during it.

`RunToCompletion` is what a client can rely on. It takes an event (`Take`) and
reacts to it in one step (`React`), from a settled state to a settled state:
first a row of the event, then catch-all rows until a state has none. If
somebody writes the state meanwhile, less is left: the machine ends in a state
that the rows of this event and the catch-all rows lead to, from the state before
or from one that was written (`Strays`). It may stop in a state that has a catch-all row, and may mix
rows of two states, as the code may. The run `fsm` (424 k states) checks the
refinement with a table of guarded rows and a chain of catch-all rows and up to
three writes, that parameters are deleted once (`ParamOwnedOrDeleted`), that
nothing stays queued (`NothingStranded`) and that calls return
(`FireEventReturns`).

### Windows of data: `Channels`, `SlidingWindow`

A window is a sequence and the distance of `nextReadElement` from `begin()`;
`AddData` appends and cleans up by the history depth. `Channels` is independent
first-in first-out channels. The run `window` checks that the windows implement
them (`ReadsInOrder`), that what `HasNextData` promised is still there at the
read (`PromiseKept`) and that a cleanup keeps the bound (`HistoryBounded`).

### Ticker: `Ticker`

The client's setters, `Start` and `Stop` (a test, a store and a notification),
and the detached thread's loop: the test of the flag, the beginning of the wait
(`Block`), its end by notification, timeout or for no reason (`Spurious`), the
test after it, the callback (which may call `Stop`), the end. The notification
reaches only a thread that waits at that moment. The run `ticker` checks that
`mRunning` covers the thread, so that a second one never joins it, that a
single-shot ticker calls back once, and that a stopped ticker comes to rest
although the notification may be lost. `LateOnce` says what a Stop that falls
between two steps of the thread costs: one interval that is waited out to its
end, or one callback, never both. That the configuration stays fixed under a
thread is proved.

### Deployment agent: `UsbSticks`, `UsbMonitor`, `Deployment`, `Agent`

`UsbSticks` is the environment: sticks that are plugged in, mounted and
unplugged, and udev's events. `UsbMonitor` is the observer's loop (`Await`, then
`Pass` or `Consume` for every noted device). `Deployment` has one action per
file operation or shell command of the two pipelines, each with its failures,
and `Crash` and `Launch`: the agent also ends by itself, for the exception of
`TemporaryFolder` (`temporary_folder.h:21`) is caught nowhere. A policy file that
is there may fail to open: `backupPolicy` then takes it for none
(`deploy_pipeline.h:101`) and `moveFile` removes it. Files are named by the version they come from, so "the policy of
the package" and "half a file" can be told apart. `Agent` composes them: one
thread, which observes while the pipelines are idle.

| Run | Instance | What it shows |
|---|---|---|
| `agent` | a stick with a zip file and one with a folder, two plugs in all, one kill; in other histories a folder with five changes to two names; 858 k states | the policy or its backup always exists, but for one that could not be opened (`unopened`); a broken-off deployment restores the policy; success means that the package is in place (folders apart); a platform whose stop command worked gets a start command; a noted stick that is mounted is consumed; the folder's files are handed over (below) |
| `agent_folder` | expected violation | a folder is copied *into* the module that is installed already, and success is reported (`unpacker.h:72`) |

`PolicyOrBackup` counts a policy that was copied in part: after a kill during
that copy the old policy is in the backup, and nothing in the code restores it
at the next start.

### Watched folder: `FolderMonitor`

The world creates, opens, closes, deletes and renames the files of a folder;
inotify queues an event of each but the rename and drops an event that equals
the last one queued. The monitor's turn is that of `SystemObserver::monitor`:
one read per edge, of as many whole events as the buffer holds, or the wait's
timeout; then `process` hands over every file that is not consumed, not in use
and has rested. `FolderMonitor`'s move operations leave the buffer behind, so a
moved monitor (as in `SystemObservable`) has `buffer = 0` and never sees an event.

`MCAgent` runs it beside the agent: both use the loop of `SystemObserver` and
share nothing else, so a history has either sticks or a folder (`about`). The
run `agent` checks that files are handed over once, none that was there before,
and none that is open or gone (`ReadyFilesOnly`), and that a file that nobody
has open is handed over some day (`SettledIsHanded`), once its events were read.
Names whose events do not tell who uses them (`crossed`: two openers, deleted
while open, renamed away) are exempt; `PROJECT.json` lists them as a hazard.

### Frames over a connection: `FrameChannel`, `FrameStream`

`FrameStream` writes header and data of a frame through `Socket::writeData` and
reads them back with the stages of `AsyncDeserializeFrom` from pieces of any
length. A byte stands for its frame, part and position. `FrameChannel` is a
channel of whole frames that promises nothing once a send was partial or has
failed; `InOrder` is the part of it without fairness. The run `frames` checks that the one implements the other
(`FramesArrive`), for a frame with data and one without. After a partial send
`writeData` sends the buffer from its start again (`unix_socket.cpp:121`), and
the two counts can add up so that `SerializeTo` reports success; that is a
hazard, not a finding, for no document says what a partial send shall do.

### Frames in files: `DatFile`

The writer's actions are its calls and, in between, the calls `plan` still holds
of the one that is running: opening and truncating two files, a frame's header
and data, its entry of the index, the two flushes after every `FlushCalls`
calls, closing. Data waits in the streams' buffers until a flush, until the
stream is closed, or until the stream itself writes a part (`Spill`); `Kill`
drops what waits. A file is a sequence of units (a header, or a unit of data),
so half a frame can be told. The reader loads the index, and its thread walks
spans of time (`Loop`, `Slot`, `ReadEntry`, `EndSlot`, `Deliver`, `EndPass`);
`Stop` may come at any point and only detaches it. Erasing the map's entry under
`for_each` is undefined: the thread goes on, or is `lost`; a read past the end
never returns (`hang`).

`MCFrames` has the connection and the files side by side; a history uses one of
them. The run `frames` (737 k states) checks that the index leads to whole
frames whenever the writer is killed (`IndexCovered`), that a pass delivers in
order, without a gap, and all it should (`Replay`), and that it ends
(`PassEnds`). All three are for the files of one writer: a second one that
appends counts its offsets from 0 again (`DatFileWriter.cpp:65`), and `mixed`
tells such files. The newest frame of a file is never delivered, nor need be
those less than a step before it (`DatFileReader.cpp:69`, `:127`); `Replay` does not ask
for them, as no document does.

## 4. Bounds and fairness

| Bound | Limits | Why it is enough |
|---|---|---|
| `Threads` (Worker) | dispatchers ever started | two show what a restart meets; `worker_timers` is about timers and needs one |
| `Messages`, `Timers` | objects, each used once | two messages can be out of order; a timer and its successor of the same id, and one of the id that `AddTimer` refuses |
| `MaxStops` | calls of StopTimer | a stop and a replacement in one history |
| `MaxStarts`, `MaxSends` (Ipc) | restarts, data per socket | one restart reuses descriptors; two entries show order and gaps |
| `Buffer`, `MaxUnread` | the receiver's buffer, data a client is ahead | 1 makes buffer-full and edge cases happen at once |
| `Params` (Fsm) | calls of fire_event | three calls of two threads: one waits while one runs and one is to come |
| `MaxWrites` (Fsm) | calls of Initialize and SetCurrentState | the Initialize before any event is taken, and two more, in one run or in two |
| `Capacity` (SlidingWindow) | pushes to a window | 3 exceeds every depth in use (0 to 2), so cleanup, depth changes and reads meet; below the point where the deque moves its map of nodes |
| `Threads` (Ticker) | identities of threads | a thread that ended gives its identity back: two are one more than may be alive |
| `MaxPlugs`, `MaxCrashes` | plugs of all sticks together, kills | a stick comes back, or the other one is plugged in beside it or after it; a kill in every step, followed by a second deployment |
| `MaxFrames`, `Prefix`, sizes | frames and lengths | a frame after another, with a long and a minimal header, with and without data |
| `MaxRecords`, `Times`, `FlushCount`, `Step`, `MaxSessions` (DatFile) | frames recorded, their times, calls between flushes, the reader's span, writers | two flushes with frames between them; an empty span, two frames in a span, two of one time; a writer that appends to or truncates another's files |
| `Capacity`, `EventSize`, `MaxOpeners`, `MaxChanges` (FolderMonitor) | the buffer, events, openers of a file, changes | two events of one name fit, none of the other; two openers; create, open, close and two changes more |
| `Platforms` (Ipc) | builds | both for liveness, Unix for safety (section 3) |

Deadlock checking is off where the system may really come to its end within the
bounds (messages and plugs used up, threads ended); `ticker` keeps it on.

Fairness is weak fairness of the program's own threads, and of one more kind
below:
dispatcher, timer threads, a client's push and the owner's join in `Worker`; the
three loops in `Ipc`; a caller inside `fire_event`; the ticker's thread; the
agent's one thread and the passing of `fileReadyTimeout` (`Rest`); the reader of
frames and the thread of the DatFileReader. Where two models share a run, the
fairness of each is asked for in its own histories only. The operating system's scheduler
justifies it: no step waits for a condition that others make true and false
again for ever, except mutexes held for a moment. The ticker's timeout is
strongly fair: a thread that wakes up for no reason waits again, but
`wait_for` goes by a deadline that stays, so it cannot be put off for ever. Nobody is obliged to call,
connect, write, plug in or mount.

## 5. What is proved

With `tlapm`, for every value of the constants that satisfies the named
assumptions of the modules (TLC evaluates them in the runs). They ask that the
bounds are numbers (`MaxStartsAssumption`, `PlugsAssumption`, ...), that `None`
and `Nothing` are no values (`NoneAssumption`, `NothingAssumption`), that the
tables are of the right type (`KindAssumption`, `TimerIdAssumption`,
`TableAssumption`, `EventSizeAssumption`), and what the code's constants give:
`BufferAssumption` (the receiver's buffer has room for a byte), `SizesAssumption`
(a header is longer than its prefix), `StepAssumption` (a reader's step is
positive) and `FlushAssumption` (`FramesCountToFlush` is
even, 10: it counts calls of `Write`, of which a frame makes two, so that a flush
comes after whole frames).

A property that must hold in every state needs an invariant that a step cannot
break, and none of the properties is one: "a timer off the list has no thread"
says nothing of the states in which its stop is under way, and a step from such a
state would break it. The modules name the parts that are missing:

- **`WorkerProofs`** assumes `Supervised`: the worker is stopped with
  `StopWithJoin` only, or it is started once and may then be detached by `Stop`
  at any time. Either way one dispatcher runs at a time (`OneLive`), and it is the
  one `_Thread` refers to if none is detached (`Attached`); `OneDispatcher`, which
  states `SingleDispatcher`, asks for `~MayDetach`. `IInv` joins `TypeOK` and
  `RegisteredUnique` with what they need to be inductive: these two; an event in hand belongs to the dispatcher
  (`HoldsEvent`); a registered timer has its thread and its lock unless its stop
  is under way (`RegisteredRuns`); one that is not registered has nothing
  (`UnregisteredRests`). From it follow `TypeCorrect`, `OneDispatcher`,
  `UniqueTimers`, `MutexDiscipline`, `NoTimerThreadLeft` and, inductive beside
  `IInv`, `NoTimerSilent`. `NoMessageLost` says where the messages are that were
  pushed and not handled: one in the dispatcher's hand, the others in the queue,
  in their order (`InWaiting`, a map from places in `taken` to places in
  `queue`, because events of timers stand between the messages). With it
  `Refinement` shows that every step is one of `Mailbox` or a stutter.
- **`IpcProofs`** is for both builds. `Inv` says of connections and doors that a
  descriptor has one holder, that who waits at a door waits once, and that an
  event of a door has its connection behind it (`ConnInv`); of the receiver that the pairs of a turn
  stay true until the turn ends (`ReceiverInv`); of the transmitter that the
  queue holds what was sent since some entry, without a gap, and that a client
  has received all but what waits or is due (`TransmitterInv`). From it
  `TypeCorrect`, `ConnectedStaysListed`, `PolledIsManaged`, `EntriesInOrder` and
  `NothingIsMissed`. `NamedAfterSocket`, the names under which data is
  announced, needs also that nobody was heard before he connected (`Unheard`),
  and is for Unix: on Windows it does not hold (section 3).
- **`FsmProofs`**: who runs the machine holds the mutex, the machine is at rest
  while the mutex is free, and a run is in one of three parts: the caller's own
  event, the catch-all rows, the end (`Inv`). `Course` says where the machine is
  in each of them as long as nobody wrote the state; `Bounds` says in any case
  that every value a search may read, and the row whose action runs, is led to
  by rows of the event and catch-all rows (`Near`). From it `TypeCorrect`,
  `NoEventStranded` and `Refinement`: a call is one step of `RunToCompletion`,
  for any table and whatever is written. `Carried` counts the carriers of each
  parameter; from it `OneOwnerAlways`: every parameter is deleted once or still
  has its one carrier.
- **`SlidingWindowProofs`**: the position lies within the storage, and the
  unread part is the suffix behind it. Lemmas say what pushing, popping and
  reading do to that suffix; from them follow `TypeCorrect`, `PromiseHolds`,
  `BoundedHistory` and `Implementation`, the refinement of `Channels`.
- **`TickerProofs`**: types, `RunningCoversThread`, where a single-shot
  thread is when it has called (`OneShot`), and that a thread before its wait or
  its callback has spent nothing since the flag was set (`Lateness`). From them
  `OneThread`, `FixedConfiguration`, `StopCostsOne`, `OneCallback`.
- **`AgentProofs`**, the sticks: where the pipelines are (`step`) tells where the policy is
  (`PolicyPlace`), where the one to be restored is (`BeforePlace`), what of
  the package is in place (`InstalledPart`) and whether a start command is
  still to come (`PlatformPart`). From this `PolicySurvives`,
  `PolicyIsRestored`, `SuccessIsInstalled`, `PlatformIsStarted`, for any
  sticks and any number of kills. The first two are about policy files that can
  be opened: for one that is there and cannot, backup and policy may both be
  lost, and the invariant asks for the backup only while `~unopened`. `TypeCorrect` needs one more part, that
  epoll reports the monitor only while an event waits in udev's queue
  (`Signal`): what `Await` takes from the queue exists.
- **`AgentProofs`**, the folder: a file's creations are at least as many as the
  times it was handed over, its entries that were not, and its creations that
  wait (`Counted`). And the events that wait lead from what the monitor knows of
  a file to what the file is (`Followed`: there are states before and after each
  event, `Course`). Handling an event moves the monitor one state on, whatever
  part of the queue a read takes; `FilesHandedOnce` follows, for any names, sizes
  of events and buffers.
- **`DatFileProofs`**: `DatInv` says what is in a file together with its buffer,
  for every point between two of the writer's calls: whole frames, and the part
  of the one in work that `plan` has not left to do (`Layout`, `Begun`), that
  data is flushed before the index (`Pace`, where the even flush count is
  needed), and which of the buffered entries are not covered yet. From it
  `IndexIsCovered`, wherever the writer is killed. `PassInv` says what a pass
  has still to deliver (`Loaded`, `InPass`, `Told`); from it `ReplayInOrder`. Both
  are for the writer and the reader together (`DatSpec`), for any times, sizes,
  steps, records and sessions.
- **`FrameStreamProofs`**: while nothing is broken, the wire holds the frames
  that were sent and not read, from the byte the reader is at to the one the
  writer is at (`StreamInv`; `Between` is a table of the places where the frames
  begin). `FramesInOrder`: every step is one of `FrameChannel` or a stutter.

Where a proof needs induction (the files after each event of a read, the earliest
entry of an index), it takes the least number for which the claim fails, from the
well-foundedness of the numbers; lemmas such as `UpTo` and `Recursion` state that
for sets and functions.

The type invariants of Worker, Ticker and Agent, `RegisteredUnique` (distinct ids
of registered timers) and `ConfigurationFixed` are proved and therefore not
among the properties of the runs.

## 6. What is only model-checked

Liveness (`MessagesHandled`, `JoinReturns`, `CyclicFires`, `Accepted`, `Heard`,
`Unlisted`, `QueueDrains`, `FireEventReturns`, `ComesToRest`,
`MountedIsConsumed`, `PassEnds`, `SettledIsHanded`, and that a frame that was sent
arrives, the fairness of `FramesArrive`): fairness is out of the prover's reach.

A worker that is started again after `Stop` detached its thread is outside the
proofs, and outside the runs of the worker's safety: `Start` also revives a
detached thread that has not seen the request, so that two dispatchers share
`_Queue` and `_TimerList` without a lock, and `SingleDispatcher` does not hold.
`worker_timers`, with `Stop` and one thread, is an instance of what is proved.

The recursive function that sizes the events of a read (`Fitting`) is used in the
proofs only as far as that it exists and starts with 0.

## 7. What is not modelled

- The sets of select on Windows, which hold 64 descriptors, WSAStartup, the URI
  of a socket.
- A reader of several DatFiles, its second Start (which adds the same files to
  those it has), and reading DatFiles by `AsyncDeserializeFrom`.
- `listen`, `accept`, `connect` and the copies of a `Socket`.
- In the deployment agent the FolderMonitor has no effect: moving it into its
  SystemObservable leaves it without an event buffer, and it only logs.
- Lifetimes: a Worker or Ticker destroyed while its detached thread runs, events
  and timers that are never deleted.
- An action of the state machine that fires an event (it locks the mutex its own
  thread holds), `GetCurrentState` (unlocked).
- A client of the IPC that does not read, which blocks the transmitter's write.
- Matching of file names, several archives or policy files in a package, the
  configuration (a constant here).
- Byte order, header fields and the value `SerializeTo` returns.
- Pure data and text: Module, DataContainer, SensorId, NaiveURIParser,
  Configuration, JsonReader, Utils. MD5 is the public reference implementation.
- Experiments that no other part uses: `loger.cpp`, `dir_crawl`, `epoll`,
  `inotify`. `notify_file` is an earlier copy of the agent's files;
  `FolderMonitor` stands for both.
