# A TLA+ verification of track-embedded

These modules model the parts of the T.R.A.C.K. on-car software that are hard
to test: a lock-free queue in shared memory, processes that crash and are
restarted around it, the way of a recording from the record button to the
cloud, the exchange of signals, flags and files between the processes, and what
becomes of a frame on the bus and a sentence of the GPS receiver on their way to
the display and the cloud.
TLC checks small instances, TLAPS proves theorems for every value of the
constants.

- [The system](#the-system): its parts, their state, how they interact
- [Modules](#modules): which module models which part, and how
- [Runs](#runs): what each one checks, its bounds, why they are enough
- [Fairness](#fairness)
- [Proofs](#proofs)
- [What the runs show of the code](#what-the-runs-show-of-the-code)
- [What is not modelled](#what-is-not-modelled)
- [Plan](#plan)

## The system

| part | state it keeps | operations | meets the others through |
|---|---|---|---|
| broadcast queue (`common/broadcast_queue.hpp`, `captive-portal/shm_reader.py`) | slots, write index; one position per consumer | `push`, `consume`, `current_pos` | shared memory, one writer, any number of readers |
| queue segments (`common/shared_memory.hpp`) | the name, the segment | open, construct, close and unlink | `/dev/shm`, systemd's unit dependencies |
| can-reader | DBC map, reload flag, health of the bus | read a frame, push its signals, reload, report health | telemetry queue, `/track_status`, SIGHUP, the DBC file |
| gps-reader | the GPS message being assembled | read a line, parse, push | GPS queue |
| gpio-reader | last value of each light | poll status, send SIGUSR1 on a button | `/track_status`, pid files, signals |
| data logger | toggle flag, open file, recording flag | toggle, write, flush, finalize | telemetry queue, `/tmp/track-logs`, `/track_status` |
| log uploader (cloud-bridge) | directory pass, upload in progress | scan, send start/chunks/end, delete | `/tmp/track-logs`, the web socket |
| cloud bridge main loop | signals and GPS fix to send, change flags | consume, batch, send, upload a changed file | both queues, web socket, signals from the portal |
| settings exchange (portal, `config_receiver`, `device_sync`) | `graphics.json`, `display.dbc`, `device.json` | replace, read, signal | files, SIGHUP/SIGUSR1/SIGUSR2, web-socket messages |
| graphics engine | screens, active screen, graph history | reload, navigate, consume, draw | telemetry queue, signals |
| portal (Flask) | cached queue readers | one request per thread | queues, files, signals |
| wifi, scripts, pages | — | administration | commands |

What is hard in it, and what makes each part correct:

- **The queue has no lock and no version numbers.** `push` overwrites a slot
  with plain stores while consumers may be reading it. Correct is: a consumer
  that was not lapped gets exactly the item of its position; no consumer gets
  zeroes or an old lap; none passes over an item that is still there; each one
  eventually passes every item.
- **Segments outlive processes.** A crash leaves a segment with its old index,
  the next writer constructs a new queue in place, readers may open it at any
  step in between or hold an unlinked one. Correct is: a reader is on the
  segment of the running writer, not ahead of its index, and catches up.
- **A marker file is the only lock of the log directory.** The uploader deletes
  what it believes uploaded, the logger may crash, stop or restart between any
  two steps, the socket may die unnoticed, and the wall clock may give a name twice.
  Correct is: what carries a marker is final; what is deleted was saved or at least
  announced as ended; nothing without a marker is deleted; no marker stays for ever.
- **Signals set flags that loops test.** They may arrive before a handler is
  there, in the middle of a read, or between the test and the act. Correct is:
  no saved change is forgotten.
- **Configuration files have several writers**: request threads that rename, a bridge
  that rewrites in place, readers that act on whatever they find. Correct is: what is
  read was written whole; a device keeps its identity; file, processes and cloud agree
  once things are quiet.
- **What is measured passes through several hands.** A signal is read out of a
  frame by rules that the portal, cantools and can-reader each have in their own
  words; a position is merged from sentences some of which are lost; values wait
  for a connection; widgets on hidden screens must be up to date when their screen is
  shown. Correct is: a number means what the DBC file says; no fix is dated back;
  nothing that was consumed is forgotten; what is drawn is what was last heard.
- **Buttons are signals to the pid in a file** that may belong to a program that is just
  starting, ending or gone. Correct is: a press reaches the program that wrote its pid,
  as a flag and not as its end, and stays until it is acted on.
- **The lights report flags in shared memory** that outlive the process which
  set them and are read by polling. Correct is: the light follows the truth
  within a known delay.

The hazards, each at its line, are in `PROJECT.json`.

## Modules

| module | models | extends / uses |
|---|---|---|
| `BroadcastQueue` | `BroadcastQueue<T, Capacity>` and the two Python readers | — |
| `BroadcastLog` | what the queue promises: an ordered log that forgets | — |
| `BroadcastQueueProofs` | theorems about `BroadcastQueue` | `BroadcastQueue`, TLAPS |
| `QueueLifecycle` | segments and processes around one queue | — |
| `QueueLifecycleProofs` | theorems about `QueueLifecycle` | `QueueLifecycle`, TLAPS |
| `LogFiles` | the log directory: names, inodes, markers | — |
| `DataLogger` | the data logger and its `LogWriter` | `LogFiles` |
| `LogUploader` | the upload thread, the connection flag, the cloud | `LogFiles` |
| `LogPipeline` | the logger and the uploader on one directory | `DataLogger`, `LogUploader`, instance of `RecordingArchive` |
| `RecordingArchive` | what the two promise: recordings are finished, saved and deleted as a whole | — |
| `LogPipelineProofs` | theorems about `LogPipeline` | `LogPipeline`, TLAPS |
| `CanReader` | the loop of can-reader, the DBC file, the red light | — |
| `CanReaderProofs` | theorems about `CanReader` | `CanReader`, TLAPS |
| `GraphicsSync` | graphics.json between the portal, the bridge and the graphics engine | — |
| `GraphicsSyncProofs` | theorems about `GraphicsSync` | `GraphicsSync`, TLAPS |
| `DeviceIdentity` | device.json between the portal and the two threads of the bridge | — |
| `DeviceIdentityProofs` | theorems about `DeviceIdentity` | `DeviceIdentity`, TLAPS |
| `GpsReader` | the receiver, gps-reader, its serial port and sentences, its queue | — |
| `CloudBridge` | the loop of the cloud bridge between the queues and the web socket | `GpsReader` |
| `CloudBridgeProofs` | theorems about `CloudBridge` and, in it, `GpsReader` | `CloudBridge`, TLAPS |
| `Widgets` | the widgets of the graphics engine: pure operators, no state | — |
| `Buttons` | gpio-reader's buttons, pid files and signals, and the lives of the two programs | — |
| `Cockpit` | the loop of the graphics engine behind the buttons | `Buttons`, `Widgets` |
| `CockpitProofs` | theorems about `Cockpit` and the widgets of `Widgets` | `Cockpit`, TLAPS |
| `SignalTypes` | from a DBC file to a value: portal, DBC parser, frame parser | — |
| `MC*` | constants for TLC | the module of their name |

Operators named like `PublishableRelaxed`, `FlushBufferTwice` or
`ClampedPosTooFar` stand next to the definition they vary: they are plausible
faults, used to confirm that the properties notice them. No specification uses
them.

### BroadcastQueue

An item is its number, so that a slot holds the item it should or shows which
other one, `Zeroed`, or `Torn`. `push` is three steps: the slot store begins
(the slot is torn from then on), ends, and the index becomes visible. The index
is stored with release order, so it is never visible before its item
(`Publishable`); nothing orders the *next* slot store after the index store, so
stores may run ahead of the visible index by up to `StoreWindow` items. A read
is two loads at the ends of the slot, with any number of writer steps between;
`WhatIsRead` gives `Torn` when they differ. `consume` takes its snapshot of the
index first and works up to it. `Trusting` consumers are the C++ ones,
`Clamping` ones the Python ones, which first move to the last lap;
`AttachOneBack` is `api_get_gps`. `Detach` may happen in the middle of
`consume`: a web socket that closes, a killed process. `delivery` is a history
variable: the last callback, and whether the slot had been reused by then.

The slot index is `i % Capacity`, the code's `i & (Capacity - 1)` with the power
of two its `static_assert` demands; the theorems need no power of two.

### QueueLifecycle

The writer is forked, names the segment (`shm_open`), sizes it (`ftruncate`),
constructs the queue in it (placement new), runs, and ends by a stop, a failure
of its own after which it cleans up, or a crash. `Bound` readers are tied to it by
`Requires=` and `After=`; `Lazy` is the portal, `Once` the bridge on the GPS
queue. A reader maps the segment (`ReaderOpen`) and then looks at it for the first
time (`ReaderStart`, `current_pos`). Between the two the C++ readers do not ask for its
size: on one that is still empty the look is a SIGBUS and ends them (`ReaderDies`),
until systemd starts them again. In Python `mmap` refuses an empty segment, and the
request fails. A `consume` is one step here.

### LogFiles, DataLogger, LogUploader, LogPipeline

A name is the wall-clock second of `make_log_path`, which may be a new one or, when two
recordings start in one second or the clock was set back, that of any earlier recording;
`fopen` then truncates what has the name, open or not. A name links to an inode, so that
an unlinked or truncated file is told from the one a process has open. An inode
knows its recording and how many of its entries it holds; what is in the stdio
buffer is lost in a crash. `reused` remembers that a name was given twice: from then on a
marked file may be open for writing and a recording may be lost, and `MarkedIsFinal`,
`DeletedWhenSaved` and `ImplementsArchive` speak of the time until then. `LogWriter::close` is two steps, `CloseFile` and
`MarkDone`. The uploader has one program counter, `uploader`, with a step per
system call or message of `upload_loop` and `upload_file`. `connected` is the flag
the thread reads, `alive` whether bytes arrive: the first lags behind the second.
The cloud is external and is modelled as the comments in the uploader describe
it. `directory_iterator` promises nothing about entries made or removed during
a pass; the model takes the markers at the start of the pass (`Listed`) and lets
the thread find them in any order.

`RecordingArchive` says what all this is for, without files, markers, processes or chunks:
recordings are made one at a time; one that is finished has every entry on the disk and
stays so until it is deleted; only a finished one is saved, and always whole; it is
deleted unsaved only when the link broke during its upload; one that could not be
finished stays. In `LogPipeline` the stage of a recording (`Stage`) is read off the
directory and the logger: open while the logger has the file or owes it the marker,
finished with a marker, left without one, deleted when no name links to it.
`ImplementsArchive` claims `RecordingArchive` of it, up to the step that gives a name a
second time.

### CanReader

Phases follow `main`: started, handlers installed, DBC loaded, socket opened, then
the loop: test `running`, read, dispatch, test `reload_flag`, load. A read ends with
a frame, with nothing (`ReadFails`: after the timeout, or at once with an error, as when
the interface goes down, which the code does not tell apart), or when a signal
interrupts it, and the health check that follows it is part of the same step. `Interrupted` is what `EINTR` does; a
signal before `Install` has its default effect. Time is discrete and passes only
while the process waits or is not there. The portal's save is a rename, then the
signal. `Refresh` is the poll of gpio-reader for the red light. `Exec` is systemd,
`RestartSec` after a failure or at any time when the unit is stopped.

### GraphicsSync

A request thread of the portal goes through `atomic_write` in the steps another
thread can get between: the temporary file is opened (created or truncated), written,
renamed, and when any of this fails unlinked (`WriteFails` is a full disk); then come the
signals, SIGHUP to the engine and, unless the whole file was saved, SIGUSR1 to the
bridge. The portal may be stopped or killed at any step (`PortalEnds`): it leaves its
temporary file behind, and signals it had still to send are never sent, which `missed`
(SIGHUP) and `lost` (SIGUSR1) remember until the engine or the bridge next reads the
file. The web-socket thread of
the bridge truncates the file and then writes it. Names link to inodes, so that a
thread whose temporary file another thread has renamed writes into the published
file. Writing into a file that already has a text leaves the new one or a mixture.
The bridge's main loop reads the file, sends it and clears the flag in three steps;
the engine tests its flag, clears it, and loads, and dies of a file that does not parse.
What a file says is abstracted to the set of saves it carries. Starting the bridge is
one step: a trigger that finds it starting is lost, as one that finds it down.

### DeviceIdentity

The portal generates the identity while it starts, before it serves a request
(`PortalStart`, then `ReadConfig` or `Generate`); a request reads the file, sets the
members in what it read and saves that. Both go through `atomic_write` in the same steps as
in `GraphicsSync`: `OpenTmp` truncates the temporary file all threads share, `WriteTmp`
writes, `Rename` publishes whatever is under that name, of whichever thread, and
`UnlinkTmp` follows a failure. `fd` tells what a thread has open: the temporary file, or
what another has published since (`"file"`), into which it then writes, or a file
that has no name any more. A saved list is followed by SIGHUP, a generated identity by
nothing. The bridge's web-socket thread reads the file, truncates it, writes it and
assigns `team_members_`, in four steps; its main thread clears the flag, reads the file,
assigns what it read and registers with the cloud. `linked` tells whether the file the
web-socket thread has open is still the one under the name. `team_members_` is a vector
that both threads use without a lock: when they meet, the outcome is either list or
`Garbled`. The device without a file has the identity of the environment, 0 here, with
which it may connect; an update that meets no file that parses is written without an
identity (`Merged`), over whatever is there.

`first` is the first identity the file ever held, whoever wrote it, and `OneIdentity` compares
the file with it. Two things take it away and are named in the property: `torn`, an
identity generated, or an update merged, over a file that did not parse at that moment, and
`failed`, a portal that could not write its identity when it started.

`CopiesAgree` is about what is left when things are quiet. `apart` excludes what does
leave the copies apart, until the bridge next loads undisturbed: a reload that met
an update, an identity generated without a signal to the bridge, a portal that
ended between a save and its signal, and a thread that writes into a file another has
already published and announced. The last is the race of two requests in the temporary
file: the first publishes what the second has just truncated, the bridge loads an empty
file, the second fills the published one, and its own rename fails, so that it signals
nobody.

### GpsReader, CloudBridge

A position and a time are the number of the measurement they come from; the receiver
sends an RMC and a GGA sentence about each, in either order. `ReadLine` is one sentence:
it is merged (`MergeRMC`, `MergeGGA`) and pushed, or it is lost, because it was damaged,
cut by a failed read, or sent while nobody read. `OpenPort` fails as `SerialPort::open`
may, and then the queue is closed again. Of the queue the model keeps what its one
reader here can see: whether there is something behind its position (`unread`), and
whether it has the segment gps-reader writes to (`ear`), which a restart changes as in
`QueueLifecycle`.

The bridge's round is three steps: `Consume` both queues, `SendSignals`, `SendGps`.
`signals` has the last value of each signal that no send has accepted yet. `link` is
what `send()` meets: it may be lost without the flag saying so, and a send then reports
success or is refused (`Answers`). Values and positions such a connection swallows are
taken for sent, which `told` remembers of a position. Time is in ticks. A round takes any
number of them from none to `MaxRound`, since the loop waits in it for the HTTP registration,
for uploads and for sends, and `since_send`, `since_gps` and `age` are capped where nothing
changes any more. While a round lasts the queue keeps the newest value of each signal; that
it may overwrite others is the matter of `BroadcastQueue`.

### Widgets, Buttons, Cockpit

`Widgets` translates the factory, the two setters, the ring buffers and the alarm,
with values counted in halves (a number widget cuts the fraction off, towards zero). `Shows`
is the definition they are checked against. It says value, points and alarm of a widget from
the list of everything heard since it was built: a time series shows the messages of its
signal (`Series`), an x-y graph the last of both signals at each message of either
(`Curve`), both the newest of them in order (`AreNewest`). `Signals` are what a
message may be of; `NoSignal`, which is not one of them, stands for the empty name of
a widget that graphics.json gives none.

A program of `Buttons` goes from `Exec` over `Arm` (its handlers), `OpenPidfile`
(`fopen` empties the file) and `WritePidfile` to `Run`. It ends by `Exit`, which
removes the pid file, or `Crash`, which leaves it; its pid may then be another
program's or a stranger's. gpio-reader reads the pid file and signals in two steps.
A signal without handler ends the process. `reused` remembers that a process, program or
stranger, was given a pid that a pid file or gpio-reader still held; until then
`PressArrives` says of every signal what it does: it sets the flag of the program whose
button was pressed, if that still has the pid that was read, ends no process, and reaches
no other.

The frame of `Cockpit` goes in the order of the code: `Reload`,
`handle_screen_navigation`, `Consume`, an `Update` for each message, `Draw`. `Consume` is the one
look at the index of the queue that `consume()` takes: `batch` is how many messages this frame
will take, and others may be pushed while it does. A save replaces the file and signals in one
step, since how the file is written and read is the matter of `GraphicsSync`.

### SignalTypes

A DBC file is a sequence of lines, each reduced to what the parser's two regular
expressions and its test for indentation tell apart. `load_dbc_config` folds over
them, `parse_value` reads a payload, `config_to_dbc` is what is left of the file when
the portal shows it and saves it again. cantools stands between the two (`BitsOf`,
`Disjoint`, `Accepted`, `Written`, external): it refuses a file whose signals overlap or
leave the frame, sorts the signals of a message by their first bit, and writes them from
the last to the first. An edit that makes two signals overlap, as the change of a
byte order does, is refused, and the file stays. `DecodesTheDbc` therefore finds a signal
by its name, wherever it has got to. `Meaning` is what the format says, bit by bit.
The number of bits of a byte is a constant, so that TLC can go through every start,
length, byte order and sign that fits in a frame.

The files have distinct messages, distinct signals in a message and standard identifiers,
and no line at column 0 between the signals of a message: `dbc_parser.cpp` (67–69) ends the
message there and loses the rest, where cantools reads on. Multiplexed signals are
left out.

## Runs

Passing runs:

| run | cfg | shows | distinct states |
|---|---|---|---|
| queue | `MCBroadcastQueue` | `TypeOK`, `DeliveredUnlessLapped`, `NeverStale`, `SkipsOnlyOverwritten`, `ImplementsLog`, `EveryItemIsPassed` | 117 183 |
| pipeline | `MCLogPipeline` | `TypeOK`, `MarkedIsFinal`, `ShownIsTrue`, `DeletedWhenSaved`, `OnlyMarkedFilesAreDeleted`, `ImplementsArchive`, `MarkersAreWorkedOff` | 1 023 407 |
| lifecycle | `MCQueueLifecycle` | `TypeOK`, `BoundOnTheSegment`, `NoReaderAhead`, `BoundCatchUp` | 176 818 |
| can_reader | `MCCanReader` | `TypeOK`, `NoSaveForgotten`, `RedWhileUp`, `RedUnlessCrashed`, `SavedIsLoaded` | 248 840 |
| graphics | `MCGraphicsSync` | `TypeOK`, `FileIsWhole`, `ShowsTheFile`, `UploadedUnlessLate`, `EngineCatchesUp` | 230 525 |
| device | `MCDeviceIdentity` | `TypeOK`, `OneIdentity`, `CopiesAgree` | 493 333 |
| feed | `MCCloudBridge` | `TypeOK`, `FixIsNotBackdated`, `NoValueForgotten`, `FreshUnlessRefused`, `PositionIsSent` | 734 148 |
| cockpit | `MCCockpit` | `TypeOK`, `DrawnIsLastHeard`, `PressArrives`, `PressIsKept` | 2 057 312 |
| signals | `MCSignalTypes` | `DecodesTheDbc` | 56 240 |

Those with liveness properties check `FairSpec`, which has the behaviours of `Spec` that meet the
fairness below: it takes no step of `Spec` away, so the invariants and the action
properties are checked on everything the system may do.

The other runs each check one statement the repository makes and find it violated
(see [below](#what-the-runs-show-of-the-code)):

| run | cfg | property |
|---|---|---|
| pipeline_end_sent | `MCLogPipelineEndSent` | `DeletedAfterEndSent` |
| can_reader_fault | `MCCanReaderFault` | `RedOnFault` |
| device_missing | `MCDeviceIdentityMissing` | `GeneratedIfMissing` |

Where a statement holds up to one event or race, a passing run checks it in that form,
which shows that nothing else breaks it: `RedUnlessCrashed` is `RedOnFault` until a process
crashes, `NoReaderAhead` is `ReaderNeverAhead` until the writer does, `UploadedUnlessLate` is
`TriggeredIsUploaded` without the race of a save with an upload. The file properties of
`GraphicsSync` exclude behaviours in which two requests met in the one temporary file or
the bridge was killed over an update (`Orderly`): there a mixture may be published, or
nobody be told of it. Those of the log directory speak of the time before a name is given
twice (`reused`), `PressArrives` of the time before a held pid is. All of this remains in
the models, and each premise names what the code does not prevent.

Every run checks for deadlock: no system here ever stops, since consumers keep
polling and processes are restarted.

Bounds, and why they are enough:

- *Queue.* Capacity 2, store window 2, one C++ and one Python consumer, 5 items:
  two complete laps and a half, so a consumer can be lapped once, twice, in the
  middle of a read and in the clamp, and stores run ahead over the end of the
  buffer. The theorems carry the safety properties to 4096 and 256 slots.
- *Pipeline.* Two recordings in two seconds, of at most two entries, one chunk
  per entry: an upload has a first, a middle and a last chunk boundary, and a second
  recording can be opened, closed or deleted during the upload of the first, under a
  name of its own or under the same. Processes and connection fail any number of times.
- *Lifecycle.* Segments and items are bounded at the first values at which a
  segment is reused after a crash with an index in it and abandoned after a stop;
  one reader of each kind, since readers do not touch each other.
- *CAN reader.* Two identifiers and two saves, the least with which a save can
  arrive during the load for another and a configuration can be empty, disjoint
  from the bus, or right. The timeouts keep the order of the real ones (1000, 100
  and 100 ms).

- *graphics.json.* Two request threads and two saves or updates: the least with which
  threads share the temporary file, a save meets an upload or an update under way,
  and a read is overtaken.
- *device.json.* Three request threads, which are alike (symmetry), two lists of members,
  two identities: a save meets an update from the cloud, a thread renames what a second
  has truncated while a third reads it, two requests meet each other over a missing or a
  broken file, and a second identity, which is the most that the properties tell apart.
- *Feed.* One signal and three outside events (a measurement, a pushed value, a lost
  connection, a stop or a crash): two measurements and a loss between them, a value
  replaced while its predecessor waits, a restart of either side. A round takes up to
  three ticks, more than both intervals, which are two: it ends before, at and after what
  is due.
- *Cockpit.* Three displays: two screens, one, none; every kind of widget state, graphs
  with one point and with two, a window that ends at once and one that does not. Two
  signals with values below, at and above the threshold, whole and not. Three pids for two
  programs and a stranger, and four outside events (a press, a key, a save, a message, a
  passing of time, an end, a crash, a stranger): the least with which a press, a crash
  and a used pid meet, or both signals are heard and one of them again across a tick.
- *Signals.* Bytes of two bits and eight of them, every signal in the frame alone, every
  whole-byte one beside a neighbour of up to three bits and either byte order, with the
  lines between them in every layout, and every byte value at every place. Nothing in the
  translation speaks of eight bits; sign, width and byte order are the same functions of
  the number of bits.

## Fairness

Safety needs none. The liveness properties rest on weak fairness of what a
process does next, which the scheduler gives it, and of nothing else: no push,
press of a button, connection, crash or restart is ever promised.

- `BroadcastQueue`: the three steps of `consume`. Every consumer of the repository
  calls it in an endless loop with sleeps of at most 50 ms.
- `LogPipeline`: the steps of the upload thread, whose only wait is a bounded sleep
  (L65–67), plus strong fairness of a successful `fopen`: it does not fail for ever
  on a file that is there. The connection is the premise of the property.
- `QueueLifecycle`: a reader that is down opens the queue once it may
  (`Restart=on-failure`, the retry in the graphics engine, the next request), goes on with
  what it has opened or dies of it, and a running one consumes. The first look at the
  queue is strongly fair: a reader is not stopped for ever just before it.
- `GraphicsSync`: a request, an update and the engine go on with what they have begun,
  and systemd restarts an engine that failed. No new request, connection or start of a
  stopped process is promised.
- `CloudBridge`: the loop goes round, and time passes in it again and again, however short
  its rounds are (strong fairness of a round that takes time). A connection
  that stays up is the premise of the property.
- `CanReader`: the loop, gpio-reader's poll, the signal that follows a save in the
  portal, and time.

## Proofs

`BroadcastQueueProofs` proves, from `QueueAssumption` alone (a positive capacity, a
store window of at most the capacity, a consumer either clamps or does not),

    TypeCorrect       Spec => []TypeOK
    DeliveryCorrect   Spec => []DeliveredUnlessLapped
    NeverStaleCorrect Spec => []NeverStale
    SkipsCorrect      Spec => SkipsOnlyOverwritten
    QueueImplementsLog  Spec => ImplementsLog

The invariant is `IInv`: `TypeOK`, the two delivery properties, and two parts that
say what memory looks like. `SlotInv`: the slot of an item that has begun and is
not lapped holds that item, or is torn while its store is under way; no slot
holds anything older than the newest published item it belongs to. `HalfInv`: the
first half of a read in progress is the item of the position, unless the reader
has been lapped meanwhile, and never older. Without `HalfInv` the delivery properties
are not inductive: nothing would say what a read that began before a lap may end
with. The arithmetic is in a few lemmas (`DivMod`, `WithinALap`, `ALapApart`): two
positions with the same slot are equal or at least a lap apart. The refinement adds
`BoundInv`, where under-way stores lie, and maps each action to one of `BroadcastLog`
or to a stutter.

`QueueLifecycleProofs` proves, from `LifecycleAssumption` (the two bounds are natural
numbers), for any sets of readers,

    TypeCorrect         Spec => []TypeOK
    BoundReadersFollow  Spec => []BoundOnTheSegment
    NobodyAhead         Spec => []NoReaderAhead

`BoundOnTheSegment` speaks only of a running writer, so it is not inductive: what
makes it true happens while the writer starts. `LinkedInv` carries it back to the
fork (a bound reader that has a segment then has opened what the name links to, because
its predecessor was stopped before the fork) and `WriterInv` ties the writer's segment
to the name. `FreshInv` is for `NoReaderAhead`: without a crash the name links to
nothing between two writers, so the next segment is new and its index 0, and
constructing the queue takes no reader's items away. The segments not yet made
have index 0, which is all the bounds are used for.

`CanReaderProofs` proves, from `CanReaderAssumption` (positive timeouts),

    TypeCorrect         Spec => []TypeOK
    SavesAreKept        Spec => []NoSaveForgotten
    LightFollowsTheBus  Spec => []RedWhileUp
    RedWithoutCrash     Spec => []RedUnlessCrashed

Its invariant adds to `TypeOK`: `ReportedInv`, the value last reported is the one in
the segment (before the first report of a process, the segment holds the 0 its
start stored, which is what a crash before it cannot disturb); `StoredInv`, a stored
health of 1 is older than the timeout by at most the read in progress; `LightInv`,
a light that is off is older by at most the time since the last refresh; and
`SaveInv`, which extends `NoSaveForgotten` back to the first load. `StoredInv` and
`LightInv` are the two summands of `Lag`. `FaultInv` carries the light over the time
when no can-reader runs: without a crash the health is 0 from its end on
(`EndsUnhealthy`, for the exit of the loop and for every start that fails), and then the
light can only turn red.

`LogPipelineProofs` proves, from `LogFilesAssumption` alone (the bounds are natural
numbers), whatever names recordings are given,

    TypeCorrect        Spec => []TypeOK
    LightCorrect       Spec => []ShownIsTrue
    DeletionCorrect    Spec => OnlyMarkedFilesAreDeleted
    MarkedCorrect      Spec => []MarkedIsFinal
    DeletedCorrect     Spec => DeletedWhenSaved
    PipelineImplementsArchive  Spec => ImplementsArchive

The first three hold of every behaviour, also when names are given twice. The others speak
of a behaviour until then, which is their premise `~reused`: TLC finds each of them violated
without it, and nothing in the code keeps recordings of one second apart
(see [4](#what-the-runs-show-of-the-code) below).
The invariant comes in three layers, each inductive given the one before. `BaseInv`
holds always: `LoggerInv` counts, what the open file and the stdio buffer hold together is
what the recording has written, also for a file another recording now shares; `MarkInv` says
that the thread's markers are removed by nobody else, so the marker that made it start
is there until it deletes the file. `FileInv` holds until a name is given twice
(`ReusedForGood`: what was given twice stays so, and a recording that is started before that
has a new name, `FreshStart`): `NameInv`, each
name links to an inode of its own, given in the order of time; `CurrentInv`, the
recording that is open, or being closed, has the name in `path` and no marker yet;
`FinalInv`, a file with a marker holds all that was written to it. The last two carry
each other through `LogWriter::close`, where the file is complete before the marker is
made. `UploadInv` follows one upload: `ReadInv`, the thread has open what its marker
names and is not past the end; `SentInv`, as long as nothing has disturbed the socket,
the cloud has exactly the chunks read so far, and has all of the recording when the file
is removed. That the logger leaves a marked file alone meanwhile is `Steady`, which is
where `FileInv` is used.

The refinement needs one layer more, `OwnerInv`: whatever is lost or sent twice, the chunks
the cloud has under a name are of the one recording that has it, since the logger opens
only names that were never sent, and a file whose marker is about to go is gone. So a
transfer that is closed on all its chunks, also one resumed over a broken link, is the whole
recording (`WholeTransfer`), and of no other is anything saved (`OtherRecordings`).
`LoggerArchives` and `UploaderArchives` map each step to one of `RecordingArchive` or to a
stutter: `CloseFile` keeps, `MarkDone` finishes or, when the marker cannot be made, leaves;
a crash of the logger leaves; of the thread only `SendEnd` and `RemoveBin` do anything to a
recording, and the rest at most to the link.

`GraphicsSyncProofs` proves, from `GraphicsSyncAssumption` (finitely many request threads, the
bound a natural number),

    TypeCorrect     Spec => []TypeOK
    FileCorrect     Spec => []FileIsWhole
    ShownCorrect    Spec => []ShowsTheFile
    UploadCorrect   Spec => []UploadedUnlessLate

`BaseInv` holds always; part of it is that a request finds a free inode for its
temporary file, which `FreeInode` shows by counting those in use. `OrderInv` holds while
`Orderly` does. `TmpInv`: one thread at a time writes the temporary file, which is empty
and then holds its whole text, and is neither graphics.json nor what the web-socket thread
has open; its name may be gone, when a request that failed took it away, and it may be
nobody's, when an end of the portal left it behind. `WholeInv`: only an
update under way leaves no text under the name. `ShownInv` and `UploadInv` extend the two
properties to every step of the engine and of the bridge's upload: what was read is
what is in the file, or the flag is set, or a signal is still to come or fell with the
portal. `FreshInv` is what
`UploadInv` needs of the writers that send no trigger: a save of the whole file, or an
update, brings nothing that is owed to the cloud.

`DeviceIdentityProofs` proves, from `DeviceIdentityAssumption` (the two bounds are natural
numbers), for any set of request threads,

    TypeCorrect      Spec => []TypeOK
    IdentityCorrect  Spec => []OneIdentity
    CopiesCorrect    Spec => []CopiesAgree

The invariant has three parts. `BaseInv` holds always: the types; `WriterInv`, who writes has
something to write, and what the portal saved last is in the file until an update truncates
it; `PortalInv`, while the portal starts one thread alone is at work; `LinkInv`, there is
no web-socket thread while the bridge starts. `FirstInv` is for `OneIdentity`: while neither
`torn` nor `failed` is set, every text on its way into the file carries the first identity
(`Founded`): what is under the name, what an update has merged, and what any thread has in
its hands or in the temporary file, whosever it is by now. A thread that writes what it
generated is the exception, and is alone (`Alone`): it is that of `main`, no identity has
ever been in the file, and the temporary file is its own. What a dead portal left in the
temporary file may be anything, but is truncated before it is renamed. `CopyInv` extends
`CopiesAgree` to every place of the bridge's two threads, while `apart` is not set
(`Copied`): what was loaded is what the file says, or a reload is due, because the flag is
set or a request has yet to send its signal; an update in progress carries the identity
the bridge has, so that file and copy agree again at its end. It rests on an update finding
the main thread in its loop, which is one of the things `apart` records.

`CloudBridgeProofs` proves, from `CloudBridgeAssumption` and `MaxEventsAssumption` (the
intervals and the bounds are natural numbers, the longest round a positive one), for any
signals,

    TypeCorrect       Spec => []TypeOK
    FixCorrect        Spec => []FixIsNotBackdated
    NothingForgotten  Spec => []NoValueForgotten
    FreshCorrect      Spec => []FreshUnlessRefused

Its invariant has two parts. `GpsInv`: no measurement is ahead of the count of events,
and the time of the message under construction is not ahead of the measurements; a merge
keeps this whatever sentences it gets (`Merged`). `LoopInv` adds `ValueInv`, what was
sent was consumed and what was consumed was pushed; `DownInv`, a loop that is not
running has nothing to send; and `AgeInv`, for `FreshUnlessRefused`: what waits ages
with the interval, so it is no older than the time since the last send unless a refused
send has separated the two, and outside the sending step it waits only while the interval
runs. The bound of the property is the sum: one tick less than the interval at the end of a
round, and the longest round after it.

`CockpitProofs` proves, from `ButtonsAssumption` (`NoPid` is not a pid, the bound is a natural
number), `WidgetsAssumption` (`NoSignal` is not a signal) and `CockpitAssumption` (the displays
are sequences of screens of widgets, the messages have a signal and a value),

    TypeCorrect       Spec => []TypeOK
    DrawnCorrect      Spec => []DrawnIsLastHeard
    ArrivalCorrect    Spec => PressArrives
    PressesAreKept    Spec => PressIsKept

The two of presses rest on `PidInv`: running programs have different pids, and a program that
is off has none. `ArrivalCorrect` needs also `HeldInv`, of which `ApartInv` (no program has
the pid of a stranger) holds always and the rest until a held pid is given away: nobody goes
by the pid in a pid file but the program it belongs to, with its handlers in place
(`FilesHeld`), and nobody by the pid that was read but the program whose press is at hand
(`TargetHeld`). The second follows from the first when the file is read, and what may happen
before the signal, an end, a crash or a new start under another pid, only takes the pid
away.

The other two follow from `CockpitInv`. `DrawnIsLastHeard` is not inductive: it speaks of
what is drawn, not of what the next message will be pushed onto. Its invariant holds in
all steps of a frame and has four parts: `ButtonsInv` and `FrameInv` (types; the engine is
up exactly while it is in a frame; there are as many messages as the frame is to
take), `ActiveInv` (the active screen is there), and `HeardInv`: what was heard lies in
the order of time, and every widget of every screen satisfies `WidgetInv`, which adds to
the value and the points that `Shows` speaks of

- for a time series `Kept`: points in the order of time, none later than now, no more than the
  limit, so that the window cuts off a beginning of them;
- for an x-y graph that a pending value is there if and only if its signal was heard, and
  is the last heard of it, so that the next point is the last of both.

That a message keeps `WidgetInv` is `WidgetStep`, with a lemma for each kind of widget:
`PlainStep`, `SeriesStep`, `YStep`, `XStep` and `BothStep`, when both axes have the same signal.
They rest on what one more message changes of the list (`HeardNext`, `SeriesOwn`,
`SeriesOther`, `CurveNext`), on what a push does to the points (`SeriesKept`, `CurveKept`), and
on `NewestStep`, which brings the two together: when a point is appended, the oldest are
dropped, and what is dropped below the limit counts no more, then what is left are the newest
again. `SeriesKept` and `CurveKept` are theorems of their own: the points of a time series end
with the new one, lie within the window, and a point of the window is left out only for the
limit, which is the comment in the code, that the points stay within the bounds of the axis;
and an x-y graph drops one point at most, as the code does without a loop. `ScreensBuilt`
and `ScreensUpdated` take it from a widget to all screens, for any number of them, and the
lemmas named `...Cockpit`, one for each kind of step, from there to the next state.

Only model-checked:

- liveness (`EveryItemIsPassed`, `MarkersAreWorkedOff`, `BoundCatchUp`, `SavedIsLoaded`,
  `EngineCatchesUp`, `PositionIsSent`), which is beyond the prover together with fairness;
- `DecodesTheDbc` of `SignalTypes`, which folds over the lines of a file and the bits of a
  payload.

## What the runs show of the code

Three statements of the repository are violated, each by a run:

1. `pipeline_end_sent`: a recording is deleted although `log_upload_end` was refused,
   because the connection closed after the last check. "Only delete after
   log_upload_end is sent."
2. `can_reader_fault`: `can_healthy` survives a crash and every start that fails
   before line 63. The shortest run also shows that a SIGHUP to a starting
   can-reader ends it for good: without a handler it kills the process, and systemd
   counts SIGHUP as a clean exit.
3. `device_missing`: a request for the device's identity finds device.json truncated
   by the bridge, which rewrites it in place, and takes it for missing: the device gets
   a new UUID and secret, and the update the bridge was writing is lost with the file.
   A crash of the bridge between the two steps has the same effect later.

Each of these is found by checking the named property alone, in the configuration of its
module or changed as said:

4. `MarkedIsFinal` without its premise `~reused`: two recordings started in the same
   second, or on both sides of a clock that is set back, share a name; the second truncates
   the first, which has its marker, and is open while marked final. `DeletedWhenSaved` and
   `ImplementsArchive` fail with it: the uploader may delete the file it is given.
5. `ReaderNeverAhead` in `MCQueueLifecycle`: after a crash of the writer a reader can join
   at the old index, just before the new writer resets it to 0, and is deaf until the
   index has come that far again.
6. `TriggeredIsUploaded` in `MCGraphicsSync`: the bridge clears `graphics_changed` behind
   the upload. A save that triggers an upload while the one before it is under way is
   never sent, until the next one.
7. `AlarmIsGaugeOrBar` in `MCCockpit`: `graphics-engine/config-reference.md` (line 44) says of
   the alarm "gauge/bar only". The code flashes the border of every kind of widget:
   `NumberWidget.cpp:43`, `GraphWidget.cpp:120` and `IndicatorLight.cpp:47` call the same
   test. `DrawnIsLastHeard` says what the code does, for all of them.

And these were seen while translating, and are what the premises of the properties
leave out:

- The GPS message to the cloud has no `has_fix`. An RMC sentence without a fix leaves the
  old position beside a newer time, and both are sent (`FixIsNotBackdated` speaks of
  messages with a fix).
- The bridge and the portal's cached readers open a queue once; a writer that is
  restarted is not heard again.
- A signal that the portal saves becomes little-endian, whatever it was: the form has no
  byte order. `float` and `double` lose scale and offset. On the way in, the DBC parser
  reads a 32-bit float as an unsigned number and anything longer than 32 bits as a
  double, takes the start bit down to a whole byte and three bytes for four
  (`PlainInteger` is the rest).
- An x-y graph has no value, and so no alarm, until its x signal was heard once. The
  alarm of a number widget compares the value without its fraction.
- An x-y graph of a signal against itself pushes every value twice, once for each axis, the
  first of them with the value before it (`Shows` says nothing of its points).
- A stale pid file leads SIGUSR1 to whoever has the pid now: a stranger, or a program
  that is starting again under the same pid and has no handler yet, which it ends.
  `PressArrives` speaks of the time before a held pid is given away.
- `ColorForValue` takes a value at a threshold for below it (`<=`), where
  config-reference.md says "at or above"; indicators are coloured by threshold, where it
  says red and gray. Colours are not modelled.
- Two requests that save one file at once share `<file>.tmp`: one may publish what the other
  has only truncated, and the other then writes into the published file, fails to rename
  and signals nobody. What the processes have loaded then stays behind the file, of
  graphics.json also as a mixture of two texts (`Orderly`, `apart`).
- An update of the team that arrives while device.json is missing or half written is
  merged into nothing: the file is written without an identity (`torn`).
- A position that a connection accepts after it has lost its peer counts as sent and is not
  sent again (`PositionIsSent` says so); the values of a batch go the same way.
- The pages of `api_get_logs` skip entries that have the timestamp of a page's last entry.

## What is not modelled

- The Python readers load the index with an ordinary access; the model gives
  them the acquire order of the C++ ones, as the ARM and x86 builds of CPython
  do in practice through the calls between the two accesses.
- Wrap-around of the 64-bit index (a telemetry queue at 10 000 items a second
  takes 58 million years).
- Write errors and a full disk in the logger, file system exceptions in the
  uploader (the directory is made by track-setup), a failing `systemctl kill`, and
  systemd's start limit, which would end a series of failing starts with the
  unit stopped.
- Formatting, logging, drawing; wifi and the administration scripts.
- The heartbeat of the bridge, the flag behind the blue light, and the upload of
  display.dbc, which has the flag and the retry of the upload of graphics.json.
- Paging through the logs and listing the widgets, which read files for one request and
  change nothing.
- Multiplexed signals, extended identifiers, two messages or signals of one name in a
  DBC file.
- Scale and offset of a signal, the characters of names and sentences, and the
  rounding of a value to float on its way to a widget.
- The cloud's own code, which is not in the repository.

## Plan

Built so far, in this order: the queue (model, abstract log, proofs), its segments
(model, proofs), the log pipeline, can-reader (model, proofs), graphics.json,
device.json, the GPS feed and the bridge's loop (model, proofs), the buttons and the cockpit (model,
proofs), the types of signals; then the proofs of the log pipeline, graphics.json,
device.json and of what is drawn, and the archive the log pipeline implements. Next, most
important first:

1. `LogPages`: the page cursor of `api_get_logs` against the list it pages through.
2. The connection flag and the blue light over the lives of the bridge and gpio-reader.
