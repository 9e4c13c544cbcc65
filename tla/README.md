# WallMon in TLA+

WallMon shows the performance of the processes of a cluster on a display wall.
A *daemon* on each node samples it with loadable collectors and streams the
samples over TCP; a *server* on each tile of the wall receives them and gives
them to loadable handlers, which draw. A *dispatcher* tells both, by UDP
multicast, which modules to load and to stop.

    dispatcher/main.py --UDP--> MonitorDispatcher (in the daemon and in the server)

    daemon:  MonitorDispatcher --Register--> Scheduler --Sample--> ProcessCollector
                                             Scheduler --Stream--> Streamer ==TCP==>
    server:  ==TCP==> DataSink --Route--> DataRouter --Handle--> handler
                      MonitorDispatcher --Register--> DataRouter
    boids2d: handler --boids, rows--> scene, tables <--events-- event thread <-- touches
             table --taps and swipes, multicast--> the tables of all tiles

Streamer and DataRouter are fed through `lib/Queue.h`. These modules state what
the parts promise each other, check it with TLC on small instances and prove
what they can with TLAPS for all instances.

## Inventory

| Component | State | Operations | What is hard | What makes it correct |
|---|---|---|---|---|
| `lib/Queue.h` | `_queue`, one mutex, one condition | Push, Pop, Clear, GetSize | producers and consumers wait on the *same* condition and are woken by `notify_one` | bounded FIFO; no wakeup lost; calls complete |
| `daemon/Streamer` | `_running`, `_queue`, `_serverMap` (address to descriptor), the kernel's descriptors | SetupStream and Stream (scheduler thread), `_StreamForever` with cleanup (streamer thread), Stop (main thread) | the map is not locked; descriptors are closed and reused while queued items name them; partial sends; Stop on a full queue | one server per descriptor; no connection lost; framing; order; Stop returns |
| `daemon/Scheduler` | `_running`, `_loopCondition`, `_timers`, the libev loop | Register (dispatcher thread), `_ScheduleForever` and `_TimerCallback` (loop thread), Stop (main thread) | nothing is locked; waits without a condition; timers deleted under their callbacks; frequency changes | collectors are sampled; timers follow frequencies; shutdown is quiet |
| `lib/MonitorDispatcher`, `daemon/Main`, `server/Main` | `_running`, `_socket`, `_monitors`; a condition for the signal | INIT, STOP, EVENT datagrams; start, wait, stop in reverse order | UDP; a STOP without an INIT; the termination datagram; a signal before the wait | what is sampled can be stopped, once; a signal ends the daemon |
| `lib/ByteBuffer` | `_buffer`, `_capacity`, `_size`, `_head`, `_tail` | Resize, Defragment, BytesWritten, BytesRead | window arithmetic | content kept |
| `server/DataSink` | watchers, each with a ByteBuffer | accept, `_ReadCallback`, cleanup, Stop | TCP cuts the stream anywhere; growth of the buffer; errors of `recv`; Stop does not join | messages routed are the messages sent |
| `server/DataRouter` | `_running`, `_queue`, `_handlers` | Route (loop thread), Register (dispatcher thread), `_RouteForever`, `_DeleteHandler`, Stop | the map is not locked; handlers exit; the sink is not joined | every message settled in order; no freed handler used; Stop returns |
| `lib/ProcessCollector`, `PidMonitor`, the process monitors | the monitors, the pids of the last scan, two sets of counters each | rescan, open, Update, Sample | processes come and go between all steps; erasing in the loop; counters that wrap; files that cannot be read | every live process is monitored once; what is reported is what was used |
| `boids2d` data and handler | processes by key, boids, rows | Handle, Data::Update | fields sent only once; keys put together without a separator | rows say what messages said |
| `boids2d` table | add and remove queues, selection, sub-table, highlights | handler thread adds, render thread drains, gestures select, sort, kill; multicast | two queues; early returns; lost, repeated, late datagrams that name a row by index | rows follow processes; the sub-table shows the rows of the selection; what is highlighted can be unhighlighted |
| `boids2d` events | raw queue, identifiers, entities, event queue | fetch, filter and route touches, start, stop | several fingers; bounded queues both ways; Stop of a blocked thread | a touch goes to one entity from down to up |
| `boids2d` scene, drawing | entities, positions, tails, squares of the picture | add, remove, move, draw, hit, scroll, swipe | a lock that is none; arithmetic of places and speeds | what is hit is what is drawn; boids stay in their field |
| `modules/barchart` | loads by name and process | Handle, `_UpdateBarChart`, BarChart | `isterminated` is ignored; a heap of the largest | bars are the largest; bars stay in their window |
| `modules/gnuplot` | samples by frequency, hosts known, number expected | controller in the daemon, Handle | ends daemon and server when everything has come, over a lossy path | complete when saved |
| `lib/WallView`, `lib/touchmanager`, `lib/Stat.h`, `lib/IoLogger` | pure or nearly so | geometry, averages, thresholds | boundaries, overflow | agree with their definitions |

`PROJECT.json` lists every component with its status, and the hazards with the
lines where they bite.

## Modules

| Module | Models | Composes |
|---|---|---|
| `BlockingFifo` | what `Queue.h` promises: pending calls on a bounded buffer | |
| `Queue` | `lib/Queue.h` | implements `BlockingFifo` |
| `Streamer` | `daemon/Streamer.cpp`, the end of `_TimerCallback`, the kernel's descriptor table | `Queue` (two producers, one consumer) |
| `Scheduler` | `daemon/Scheduler.cpp` over libev | |
| `Daemon` | `lib/MonitorDispatcher.cpp`, `lib/ClassLoader.cpp`, `daemon/Main.cpp` | `Scheduler` |
| `ByteBuffer` | `lib/ByteBuffer.cpp` as operators on a record | |
| `DataSink` | `server/DataSink.cpp`, the byte stream of a connection | `ByteBuffer` |
| `DataRouter` | `server/DataRouter.cpp`, the sink's loop thread, the shutdown in `server/Main.cpp` | `Queue` (two producers, one consumer) |
| `Processes` | `ProcessCollector`, `PidMonitor`, `LinuxProcessMonitorLight`'s life, `barchart/Handler.cpp`, and the host's processes | |
| `Measures`, `LinuxProcessMonitor` | the counters of both process monitors, `IoLogger`; operators | |
| `Messages` | contexts and filters of the collectors, fields of messages, rows, scores, keys, the legend; a state machine of one process and its rows | |
| `Scene`, `Table` | `boids2d/Scene.cpp`; `Table.cpp`, `TableStateSynchronizer.cpp` | |
| `Wall` | `boids2d/DataContainers.cpp`, the handler's and the render thread | `Scene`, `Table` |
| `Touch` | the events of `boids2d`, `STouchManager`, start and stop of the application | |
| `TableGeometry`, `Scroll`, `Boids`, `Stage`, `WallView`, `WVGeometry` | pixels and rows; speeds; motion and tails; squares, hits, axes, texts; the tiles; the touch library's shapes. Operators, of which theorems are proved | |
| `Charts` | `barchart/BarChart.cpp` and the shares it is given; operators | |
| `Experiment` | `modules/gnuplot`: the controllers in all daemons and the handler | |
| `Statistics` | `lib/Stat.h`; operators | |
| `MC...` | the instances that TLC checks | |
| `...Proofs` | theorems: `OperatorProofs` about the operators of `TableGeometry` to `WVGeometry`, `Measures`, `LinuxProcessMonitor`, `Charts` and `Messages` and about `Experiment`; `DaemonProofs` about `Scheduler` and `Daemon`; `DataSinkProofs` about `ByteBuffer` and `DataSink`; `ScreenProofs` about `Touch` and `Wall` with its `Scene` and `Table`; the others about the module in their name | |

How state and actions correspond to the code:

* **Queue.** A step is one critical section: from getting the mutex to giving
  it up by returning or by waiting. `thread[t]` says where a thread is in its
  call; those "waiting" are the wait set of the condition, of which
  `NotifyOneAndReturn` wakes an arbitrary one. Spurious wakeups are allowed.
  `PushStep` and `PopStep` re-evaluate the condition of the `while` loop.
  `Clear` has no caller and notifies nobody; the history variable
  `clearedUnderProducer` remembers that it has run over a waiting producer.
* **Streamer.** The program counters (`sched.pc`, `streamerPc`, `mainPc`) stand
  before the accesses to shared state: `LookUp` is the `count()` and `ReadEntry`
  the `operator[]` of `SetupStream`, `RecordEntry` its assignment;
  `RemoveEntry` and `CloseFd` are the two halves of `_RemoveAndCleanupSockFd`.
  `peer` is the kernel's descriptor table: a closed descriptor may be handed out
  again, and an open one that is no connection (a failed `connect`, the standard
  input) fails to send. `SendFails` covers a `send` that fails at once and one
  that fails after a part of the message. Messages are numbers, in the order
  sampled. Each operation of the unlocked `std::map` is one step: the logical
  races are there, a corruption of the tree is not.
* **Scheduler.** A step is one libev call, one use of the condition or of
  `_timers`, or one access to `_running`. libev is `active` and `repeat`;
  `Fire` lets any active timer be due, `SetAgain` does what `ev_timer_again`
  does with a repeat value of 0 and of more. Time is left out. `StartTimer`
  passes on whatever frequency `OnInit` left, as `Register` does; only the
  callback clamps a negative one. libev asserts that a repeat value is not
  negative, so such a start may end the process; a build of libev without
  assertions has a timer that is due at once. `Sample` is the
  callback up to its early return, with the clamping and the re-scheduling;
  `StreamSample` is the rest. Using a deleted timer is undefined: the step
  either goes on with the old values or the process dies (`Crash`).
* **Daemon.** Datagrams of the tool come at any time, in any order, repeated or
  not at all, so they are not kept: each is an action whose path is chosen when
  it is handled. A member of `Collectors` is one instance that an INIT loads;
  a second INIT of a path loads another. `token` is the datagram that Stop sends
  to itself. STOP of a path that was never loaded calls through `NULL`, and INIT
  of a file that cannot be loaded uses what was not loaded: both end the process.
* **ByteBuffer.** The fields of the class; cells outside the window hold
  `Junk`. `Write` is what `recv` does at the write reference.
* **DataSink.** A byte is its position in the stream of its connection, so that
  a header read at the wrong place is seen to be none (`MessagesAt` is empty).
  One callback is `Receive` followed by steps of the loop, with nothing of
  another connection in between, as in the single loop thread. `ReceiveFails`
  is `recv` returning -1 into an unsigned int.
* **DataRouter.** `RouterState` stands before the accesses to the handler map
  and to `__exit`. `FindHandler`, `EraseHandler` and `FreeHandler` are apart
  because the dispatcher may register between them. The sink's loop thread is
  reduced to callbacks that route; after `SinkStopped` none begins, but one
  under way goes on, because `DataSink::Stop` does not join the thread.
* **Processes.** The host is `alive` and `name`; its processes start, change
  their names and go between any two steps of the collector, which are the scan
  of `/proc` (or its failure), the opening of a pid, and the two reads of an
  update. Erasing in `Sample` moves the next monitor under an index that then
  advances, as in the code. The report is handled by the chart in one step or
  dropped. The history variables name the exceptions the code has: a pid used
  again between two scans is never monitored (`missed`), a failed listing makes
  all processes new (`rescans` counts them, and a monitor has the count of when
  it was made as its `round`), the chart keeps what has ended under another name
  or with its last report lost (`ghosts`).
* **Wall.** `Data::Update` is two steps, because the render thread may run
  between the boids and the row. In `Scene`, `scoped_lock(_entityMutex);`
  declares a variable and locks nothing, so the reading of the list's last
  element and its removal are apart. In `Table`, `net` stands for the network
  and the synchronizer's queue; `OnLoop` is one action per kind of datagram with
  everything that it does to both tables, and returns early as it does there,
  which postpones the additions and removals behind it to a later frame. A tap
  carries the index of a row and nothing else, and the index may be of no row:
  `Table::Tap` looks at the height only, and `TopTapBeyond` and
  `SubGestureBeyond` are where the index meets the rows. Indexes below 0 are
  treated as those beyond the end and are left out. `shifted`, `lowered` and
  `crashed` remember that a removal has not moved the selection, that an
  alphabetical sort has put the keys in lower case, and that a sort was asked
  for with a selection that is none; `added` are the rows that came after the
  tap that selected.
* **Touch.** `renderPc`, `evPc` and `handlerPc` stand before calls that may
  block: the two bounded queues, the joins, the wait for the notification.
  The place of an event is the entity there. `EventSystemBase`'s table of
  identifiers and `STouchManager`'s are two variables, as they are two maps.
* **Experiment.** One controller per host; `network` is everything between a
  collector and the handler, and may lose messages. A frequency is its index in
  `SAMPLE_INTERVALS`.
* **Messages.** A message is a function from the fields that are set. `sent` is
  what waits between the daemon and the handler of each server; a server drops a
  message while no handler is registered (`NoHandlerAt`) and loses everything
  when it is started again. `samples` is a sequence, since a process may get
  further monitors (`Reopen`): when a listing has failed, or the collector is
  loaded again.
* **Operators.** Lengths are whole numbers of a unit small enough for the
  divisions that the code makes, named at the head of each module; `Quotient`
  and `Fmod` in `TableGeometry` are C's division. `Since` in `Measures` is a
  difference of unsigned words and `OnWire` its narrowing to a field of a
  message. A measured time is any number.

## Runs

| Run | Bounds | What it shows |
|---|---|---|
| `queue` | 2 producers, 2 consumers, 2 slots, 2 items; 7 468 states | Waiting producers and waiting consumers never coexist (`OneKindWaits`), so one condition with `notify_one` is enough; `NoLostWakeup`; `ImplementsFifo`; under fairness, calls complete like those of the FIFO |
| `streamer` | 2 servers, 3 descriptors, 2 slots, 3 messages; 360 877 states | No descriptor is recorded for two servers; no open connection is lost track of; a torn connection is not written to again, except through a descriptor that names another connection by then; order on each connection; Stop returns unless the queue is full when the thread last looks |
| `streamer_stop` (violation) | the same, one server | Stop can block for ever |
| `streamer_crossed` (violation) | the same | a message can go to a server it was not meant for |
| `daemon` | 2 collector instances, 2 paths, frequencies -1, 0, 1; 205 898 states | the loop sleeps over an active timer only after a lost notification; timers follow frequencies; shutdown is quiet; a deleted timer is used only when Stop met it in its callback; what is sampled can be stopped, once; active collectors are sampled again and again; a negative frequency is put right by the first callback; a signal ends the daemon, each with its exceptions named in the property |
| `scheduler_register` (violation) | 2 collectors, frequencies -1, 0, 1, 2 | a registered collector may not be sampled |
| `sink` | 1 connection, 3 streams of up to 45 bytes, a buffer of 12; 897 states | messages routed are those sent; only clients that are gone are closed; no whole message stays in the buffer; all arrive |
| `sink_assert` (violation) | the same | a connection that breaks on an empty buffer fails the assertion in `BytesWritten` |
| `router` | 3 handlers of one key, one of them of an unknown type, 2 slots, 3 messages; 392 226 states | messages are settled in order, once, and all of them; registrations survive the exit of others except for the erase by key; no freed handler is used; Stop returns, although the sink routes on, unless the queue is full when the thread last looks |
| `processes` | 2 pids, 2 names, 3 processes, 1 fault, a chart of 1 bar; 276 191 states | no process is given two monitors between two failed listings; every live one is monitored, every dead one erased; the chart counts what is monitored and shows the largest. Its assumptions compare `Statistics` with reference definitions for all samples of up to 3 values |
| `wall` | 3 processes of 2 names that are one in lower case, taps on rows 1 to 3, 2 datagrams sent, 3 deliveries, 1 removal; 5 544 171 states | boids and rows follow the processes; the sub-table shows the rows of the selection; what is highlighted is shown |
| `touch` | 2 identifiers, 2 entities, queues of 1 and 3, 4 raw events; 798 729 states | a touch stays with its entity; both tables of identifiers agree; threads are not blocked for ever, but for the exceptions named |

A run called a violation checks what a comment or an assertion of the code says
and finds it refuted; the findings in `PROJECT.json` quote the line. The
matching passing run shows that the refuting case is the only one, where the
property has an exception.

Why the bounds are enough:

* Two threads on each side of the queue are the fewest for which `notify_one`
  has a choice and one kind could be woken for the other. The proofs take the
  result to any number.
* Two slots and three messages let the queue be full while the consumer holds a
  third item, which is the case in which Stop is caught. The capacity in the
  program is 100; the queue never behaves differently for being longer.
* Three descriptors, one of them the standard input, for two servers are few
  enough to be reused and to run out.
* Two collectors suffice for one to keep the loop busy while the other's timer
  stops, and for two INITs of one path; frequencies -1 and 0 are the boundaries,
  and 1 is any other. Changes go between these; between two positive ones they
  are in `scheduler_register` and in the theorems, which are about any integers.
* A buffer of 12 bytes instead of 100 KB has the same cases: messages that just
  fit with their header, that double the capacity, that exceed twice the
  capacity and then double it, and that leave the window to be moved. All the
  cuts of the streams into reads are explored. Connections share nothing but the
  loop thread, which finishes one callback before the next; so one is enough.
* Two pids for three processes make one pid be used twice; two monitors are the
  fewest for an erasure to pass one over; one fault at a time, because each
  exception names one.
* Three rows of two names give a group of two, which is where a sub-table has
  something to choose from, and a group of one, which vanishes with its row;
  the names differ in case only, so that the alphabetical sort mixes their
  groups; a table has at most two groups, and a group at most three rows, so
  that index 3 may be beyond the end;
  two datagrams meet each other, and a third delivery repeats one.
  `Alike` swaps the two processes of one name. `HandlerWhereRead` lets the
  handler step only where the render thread reads its queues: its steps append
  to them and commute with all others.
* Two fingers and two entities are the fewest for one touch to disturb the
  other. The event thread's queue takes 3 so that it can hold a whole touch;
  the mouse's takes 1 so that it is full at once.
* `MaxItems`, `MaxMessages`, `MaxBytes`, `MaxProcesses`, `MaxFaults`,
  `MaxSends`, `MaxDeliveries`, `MaxRemoved` and `MaxEvents` are the bounds on
  otherwise unbounded counters.

Fairness is weak fairness of what a thread does once it is in a call or in its
loop: the operating system runs every thread, and `send`, `Sample` and `Handle`
return. Strong fairness is used twice: libev takes due timers in the order of
their times, so it passes none over for ever; and bytes on a connection that
stays arrive although the callback is busy in between. Nothing makes a call, a
connection, a sample, a datagram, a touch, a signal or a spurious wakeup happen.
Deadlock is checked except in `processes`, `wall` and `touch`, where the bounds
on what the outside does, or a stopped program, end a behaviour.

## Proofs

* `QueueProofs`. Assumptions: finite disjoint sets of threads, and no more
  producers and no more consumers than slots (`EnoughSlots`, which every queue
  of the program satisfies). `TypeCorrect`; `OneKindWaitsAlways` and
  `NoWakeupIsLost`, which are inductive only together with each other and the
  types: a consumer starts to wait on an empty queue, and if a producer were
  still waiting then, all the slots would have woken producers on their way,
  more producers than there are. Without `EnoughSlots` the property is false.
  `MonitorImplementsFifo`: hide the wait set, and every step is a step of
  `BlockingFifo` or stutters.
* `DaemonProofs`, for any collectors, any paths and any frequencies, negative
  ones included. Of the scheduler:
  `TypeCorrect`; `SleepIsSound`, from `SleepInv`, which carries the claim back
  over the test of `_running` to the return of `ev_run`; `TimersFollow`, from
  `FollowInv`; `DeletedTimersAreNotUsed` and `StopIsQuiet`, from `BookInv` (a
  registered timer is book-kept or on its way to be) and `RetiredInv` (a timer
  that Stop has passed is inactive and not in a callback, unless they
  overlapped). A step of the daemon is a step of the scheduler or the end of
  the process, so these hold of `DaemonSpec` too (`DaemonKeepsScheduler`); with
  `DaemonTypeCorrect`, and `SampledCanBeStopped`, from `ListedInv`: what the
  daemon's map of monitors holds is book-kept by the scheduler.
* `DataSinkProofs`, for any bytes, capacity, connections, streams and cuts. Seen
  through `Content` the buffer is a queue of bytes: `ResizeKeepsContent`,
  `DefragmentKeepsContent`, `ReadDropsFirst` and `ReceiveAppends`.
  `TypeCorrect` and `LiveClientsStay`: `recv` is never offered room for no
  bytes, whose result the code would take for the end of the connection. The
  invariant bounds the window and the header that was read, and says that the
  callback leaves room behind unless it is still to resize. The start size is
  assumed to be larger than a header. `MessagesRoutedAsSent`, from
  `SentInv`: the messages before the next one have been routed and the buffer
  holds the bytes of the stream from that one's start to what was taken.
  `NothingHeldBack` from the same, with what `LoopEnds` says of a callback that
  leaves its loop: the buffer holds less than a message. Both rest on where the
  messages of a stream start, which is found by induction along the stream.
* `DataRouterProofs`, for any keys, handlers and messages. `FreedIsGone`,
  `LastRegisteredKept`, `RoutedInOrder` (settled, in hand, queued and on its way
  in are, put together, what was routed, in order) and `TypeCorrect`. The
  invariant relates what the router thread holds to what the map holds.
* `StreamerProofs`, for any servers and descriptors. `TypeCorrect`,
  `DescriptorsApart` and `NoConnectionLost`; the invariant says of each thread,
  at each place, which descriptors it alone knows of. `ConnectionsInOrder`, from
  `OrderInv`: messages enter the queue by number, and what is being sent is
  older than what is queued and no older than what was sent. `FramingIsKept`,
  from `TornInv`: as long as no message has gone to a descriptor that has
  changed hands, the only connection on which a message was cut short is the
  one being cleaned up, and nothing younger than that message was sent on it.
* `ProcessesProofs`, for any pids, names and loads, and for no fewer names than
  bars. `IInv` is the types with what is true of a host (a process has one pid),
  of a monitor (its process can only run under its pid) and of the collector at
  each of its positions. `NoneMonitoredTwice`, from `OnceInv`: no two monitors
  made between the same two failed listings of /proc have one process, and the
  collector knows the pid of every such monitor whose process runs. Across a
  failed listing a process does get a second monitor, and two monitors may have
  one pid when the process of one is gone and the pid is in use again.
  `NoLiveProcessIsLost`, from `SeenInv`: what the last scan saw runs no more,
  has a monitor, is to be opened, or is counted as missed.
  `ChartFollowsMonitors`, from `ChartInv`: a share in the chart is of a monitor,
  or is about to be taken back by a report under way, or is a ghost.
  `BarsAreTheLargest`: `ConsiderKeepsTop` is the step of the loop over the
  names, by which the heap holds the largest of those considered.
* `ScreenProofs`. Of `Touch`, for any entities, identifiers and capacities:
  `TouchTypeCorrect`, `TouchesReachTheirEntities` and `TablesOfTouchesAgree`.
  `TouchInv` says that a touch is down once and has an entity while it is down,
  that the touch manager's owner of a touch is the handler's, unless the touch
  is a stray, and that everything on its way is for that owner; `RouteKept` is
  what a callback does to it. Of `Wall`, for any processes and boids:
  `BoidsFollow`, from `SceneInv` (the last update that waits for a boid is of the
  data's current value). `RowsFollow`, from `TableInv`: the rows of the table
  and what waits to be added are together the processes that are `Expected`,
  none twice. `HighlightsAreShown`, from `SubInv`. `SelectionShown`, from
  `SelectionInv`: unless the selection was shifted or a name lowered, rows are
  grouped by name, and what the sub-table shows or is about to add are rows of
  the selected group, all of them but for those `added` since, so that they make
  one group there too. No theorem says that a tap kills the process the user
  meant, as nothing in the code makes it so. Of a table's
  operations `InsertKeeps`, `EraseKeeps`, `OrderKeeps` and `AddsKeep` are about a
  list of groups alone.
* `OperatorProofs`, for any sizes, positions, grids and destinations. Tables:
  `RowDrawnIsRowTapped`, `TapIsOnRowOrGap`, `RowsSeenAreDrawn`,
  `ListStaysInView`, `RowsHiddenOutside`, `LinesInsideRow`,
  `NumberStaysReadable`. Scrolling: `TouchesKeepSpeedBounded`,
  `EachCallbackSlowsDown`, `CallbacksKeepTheirInterval`. Tiles: `OneLowerLeft`,
  `TouchMeetsItsTile`, `PictureShownOnce`, for grids that fit on the wall. The
  picture: `HitWhereDrawn`, `ScenesApart`, `SquaresOnPicture`, `TicksAreTrue`.
  Boids: `BoidStaysInField`, `BoidArrives`, `BoidStranded`,
  `TailKeepsToItsLimit`, `TailLengthBounded`, `DrawnInsideFrame`,
  `DestinationInField`, `FramesApart`. The touch library: `IntersectIsBoth`,
  `SubtractLeavesTheRestOfBoth`. Each is about the operators, for any
  arguments, or, where it names a step of a boid, an invariant of the step.

  Measures, in the same module. Counters that wrap at any W and fields of any V
  values, V a divisor of W: `GrowthOnWire` and `ReportsAddUp`, by which a report
  is right up to multiples of V and exact below V; `FailedUpdateReportsNoUse`,
  `NetworkIsTheRest`, `UtilizationIsAShare`; `LoggerKeepsUp` and
  `BytesRecordedOnce` for messages no larger than the log's interval. The older
  monitor: `GoneBetweenUpdates` and `GoneBetweenReads`, by which a process that
  goes between two reads has its resident set reported as bytes read. Bars:
  `BarStaysInWindow`. `EachUnderItsFrequency` and `CompleteWhenSaved` are
  theorems of `Experiment`'s `Spec`, for any hosts, from `ExperimentInv`:
  `SamplerInv` says where a controller is in its ten frequencies, `MessageInv`
  that messages under way are of samples taken, each once, and `BookInv` that
  the handler's number is that of what it has filed. A daemon is assumed to be
  started once in an experiment, and only hosts from which the handler has had a
  message count. `MissedUntilReopened` is a theorem of `Messages`' `RowsSpec`,
  for any servers and values: the first message of a monitor is the only one of
  it that tells the user and the start, so a server that missed those of all
  monitors has a row without them until the daemon makes the process one more
  monitor. `KeysApart`: keys of hosts with names of one length are different
  (`KeysCollide` has two of different lengths).

So every invariant and every action property of the runs that pass is a theorem,
for every value of the constants that the named assumptions allow. The bounds
of the models (`MaxFaults`, `MaxEvents` and the like) are constants there too, so
the theorems are for bounds of any size.

Some of these need induction over data: along a stream, through a queue of rows
to add, up a heap. The prover cannot apply theorems that take a predicate as a
parameter, so such a proof takes the least number for which the claim fails
(`LeastOfNat` and its like, from the well-foundedness of `<` on `Nat`), and a
fold of the community modules is first shown to be the last value of a recursive
function (`FoldExists`).

Only model-checked: all liveness (fairness and ENABLED are beyond the prover) and
`ImplementsFifo`'s temporal part, since `MonitorImplementsFifo` is about its
initial states and its steps. What `Statistics` computes is compared over small
inputs only, because its operators are RECURSIVE.

Only proved: `Experiment`, the rows of `Messages`, and the modules of operators
have no run; a run of `Experiment` would need its ten frequencies scaled down.

## What the code does that one might not expect

The properties name their exceptions; these are the places in the code.

* Frequencies: `Scheduler::Register` passes a negative frequency that `OnInit`
  left to `ev_timer_init` and `ev_timer_start` (`Scheduler.cpp:112-125`); only the
  callback clamps it (`Scheduler.cpp:160`).
* Start and stop: a notification before its wait is lost (`daemon/Main.cpp:69`,
  `Scheduler.cpp:103`, `BoidsApp.cpp:57`); the Stop of streamer and router can
  block on their own queues; the dispatcher's Stop depends on a datagram.
* `scoped_lock(_mutex);`, in `Scene.cpp`, `TableItem.cpp` and elsewhere,
  declares a variable of that name and locks nothing.
* Table: a removal leaves `_selectedItemIndex` as it is, so that another group
  may be shown; an alphabetical sort puts keys in lower case, so that names are
  no longer found by them; a sort may index the list with no selection; a tap in
  the sub-table kills whatever process has the index when the datagram is dealt
  with, which need not be the one that was tapped; an early return leaves
  removals and additions to a later frame.
* The comments of `Table.cpp` say "The bottom-level table does no grouping"
  (line 142) and "For the sub-table, there is only groups containing one item"
  (lines 359-360). The code groups in both tables: what a tap adds has one key
  and makes one group of all its rows (`SubTableShowsSelection`), of which the
  sub-table draws and kills the rows of `_items[0]`.
* Processes: a pid that is used again between two scans is never monitored;
  `popen` failing makes every process be added again, beside the monitor it has;
  bytes are counted in an `unsigned long` and sent in a `uint32`
  (`lib/stubs/ProcessCollector.proto:15-34`), so that of growth by more than
  2^32 the multiples of 2^32 are lost; the bar chart ignores `isterminated`; an
  update that fails reports no use of what was not read; the page faults of a
  first update are differences with what was never initialized; user and start
  time are sent in a monitor's first message only; the host's name is sent only
  with `includeStatistics`; host and pid are put together to a key without
  anything between them.
* Boids: one that is near another destination than the one it last steered for,
  and is given that one again, stays where it is; a tail that is longer than a
  limit that was shortened grows for ever, as the test is for equality; a
  highlighted boid's mark may reach beyond the frame; the legend's switch for
  memory hides the boids of the network, the one for storage hides those of the
  memory, and the one for the network none (`LegendHidesAnother`); nothing in
  the program calls the switches.
* Places: thresholds and `_currentScroll` are read before a first touch has set
  them; a grid that is clipped at the right edge of the wall misplaces its tiles;
  touches on the upper and the right edge belong to both neighbours; the control
  panel never sets its box; the 0 of the logarithmic axis stands at half
  a percent; `TrimHorizontal` throws when a text cannot be made to fit.
* `WVRect::subtract` may write eight rectangles where four are documented, and
  some of them lie in what is subtracted.
* `Stat.h` sums in the type of its values, which may overflow; saving fails when
  processes were seen at different numbers of frequencies.
* gnuplot: the test for a known host is inverted, so that its count restarts at
  1; the end of the experiment is looked for only in messages that have one of
  the processes measured.
* A bar's label of 11 characters loses its last one.

## Not modelled

* Drawing itself (OpenGL, SDL, PLplot, fonts), the formats of log lines, files
  and plots, and the values of statistics fields (only which are set).
* The parsing of `/proc`, and `SetProcesses`, which nothing calls and which
  would monitor the daemon itself for a name that is not found.
* Corruption of an unlocked `std::map` or of libev's structures, which has no
  set of outcomes to choose from. `DataSink::Stop` erases from the map that it
  walks; `DataRouter` takes it for the end of all callbacks to come.
* The hash of a name that gives its colour: 64 bits wide, with shifts.
* `System`, `Config`, `Ps` and `PracticalSocket`: wrappers of system calls.
  What they call is external and appears in the actions that use it.
* `Button`, `Slider`, `Xserver`, `Chart` and `LocalSampler`: not created or
  called by anything.
* The logger and template modules: a counter and a log line each.
* Generated and vendored code (Protocol Buffers, `gnuplot_i.hpp`), benchmarks,
  scripts and the unit tests, which were read as a reference.
