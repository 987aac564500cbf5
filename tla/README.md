# Verification of adi_iio

TLA+ models of the `adi_iio` ROS 2 node, the TLC configurations that check them on
small instances, and theorems about them that TLAPS checks for every value of the
constants. Paths below are relative to the repository's root; the modules are beside
this file.

## 1. The system

`adi_iio_node` (`src/adi_iio.cpp`) exposes the devices of one libiio context as ROS 2
services and topics. It is one process with a `MultiThreadedExecutor`; every service
sits in a `MutuallyExclusive` callback group of its own, so two calls of one service
never overlap and calls of different services do. Each enabled topic adds a thread.

| Component | State | Operations |
|---|---|---|
| `IIOBuffer` (`src/iio_buffer.cpp`), one object per device with scan elements | `m_buffer`, `m_canceled`, `m_samples_count`, `m_channels`, `m_data`, `m_topic_enabled`, `m_stopThread`, `m_loopRate`, `m_pub`, `m_th`, `m_mutex` | `createIIOBuffer`, `destroyIIOBuffer`, `refill`, `push`, `enableTopic`, `disableTopic`, `publishingLoop`, the unlocked setters and getters |
| buffer services (`src/iio_node.cpp` 349-611) | `m_bufferMap`, filled once by `initBuffers` | `BufferRefill`, `BufferRead`, `BufferWrite`, `BufferCreate`, `BufferDestroy`, `BufferEnableTopic`, `BufferDisableTopic` |
| attribute access (`IIONode::rwAttrPath`) | the device's attributes | read; write followed by read back |
| attribute topics (`src/iio_attr_topic.cpp`, `src/attr_publisher.cpp`) | `m_attrTopicMap`; per topic `m_mutex`, `m_stopThread`, `m_th`, `m_pub`, `last_val` | constructor, destructor, `publishingLoop`, `update` (a subscription callback) |
| attribute services (`src/iio_node.cpp` 266-347) | none of their own | `AttrReadString`, `AttrWriteString`, `AttrEnableTopic`, `AttrDisableTopic` |
| discovery services (`src/iio_node.cpp` 613-849) | none, they read the context | `ListDevices`, `ListChannels`, `ListAttributes`, `ScanContext` |
| `IIOPath` (`src/iio_path.cpp`) | a path and its segments | `isValid`, the segment getters, `append`, `toTopicName` |
| start-up (`IIONode::IIONode`, `initBuffers`, `main`) | `m_ctx`, `m_initialized` | opens the context, fills `m_bufferMap`, creates the services, spins |
| `examples/ad5592r` | the ramp and its electrode; scales read, topics enabled; a running mean and variance | `state_machine.py` plays ramps on two topics, `actuator.py` turns them into DAC codes, `temperature_indicator.py` averages a temperature |
| `examples/ad7124_8` | `chn_scales`, the last conversion | `ad7124_8_buffer_scaled.py` sets a buffer topic up and republishes it in millivolts |
| `examples/hwmon` | `data`, one entry for each of eight attributes | `dell_precision_5530.py` enables eight topics and republishes their values |
| launch files, `launch/visualize_iio_waveform.py` | none | processes of `ros2 service call`; transform nodes; a plot of a buffer topic |

How they interact. The services call the buffer object of the device directly and share
it with each other and with `publishingLoop`; only part of its members is behind
`m_mutex`. `iio_buffer_refill` and `iio_buffer_push` wait for the hardware with
`m_mutex` held, for ever when the context has no timeout. `AttrEnableTopic` and
`AttrDisableTopic` share `m_attrTopicMap` without a lock; a topic's thread and its
subscription callback share the attribute under the topic's own `m_mutex`, which
`AttrWriteString` does not take.

The example nodes are clients in processes of their own. They send requests without
waiting for the answers (`call_async`), also while they shut down; requests to different
services overtake each other; a request to a service that is not discovered yet, and a
message on a topic without a subscriber, are lost.

What is hard: the order of unlocked accesses of different services and threads; the
handlers being sequences of locked operations that are not atomic together; a thread
that uses members another service resets; waiting for the hardware inside a lock; calls
in an order nobody tested (destroy while streaming, enable twice, refill after write);
on the clients' side, set-ups that overlap with discovery, refusals in their middle,
callbacks on several threads, and shutdowns that wait for nothing.

## 2. What makes each part correct

- **IIOBuffer and its services.** The device never has a buffer the object has lost; a
  transfer always runs on an open buffer made for the configuration the object holds; an
  answer and a published message are one whole refill of what was asked for; every call
  is answered; the node survives every sequence of legal calls.
- **Attribute topics.** One object and one thread for each name in the map, none outside
  it; what is published is the attribute's value; nothing is used after it is deleted;
  disabling and SIGINT end the threads.
- **Attribute access.** A write answers with what the hardware made of the value it was
  given, a failure with the error and without a change.
- **AD5592R nodes.** The voltages asked for never jump and drive one electrode at a time;
  the last command of each electrode is what its DAC holds in the end, if that write did
  not fail; the statistics are those of all temperatures computed.
- **AD7124-8 node and visualizer.** Each message on `/mV` is one raw message in whole
  millivolts, published once; from the refill to the plot a curve shows the samples of one
  channel.
- **HWMon.** Set-up ends whatever is refused; every topic shows its own attribute.
- **Shutdown and bring-up.** What was enabled is disabled when a node stops; a bring-up
  makes every call, in whatever order its processes run.
- **IIOPath.** A path string is valid for at most the kinds its segments allow, and names
  that should differ stay different.
- **Discovery.** The lists are those of the context's tree, each element once.
- **Start-up.** Nothing uses a context that was not opened; buffers exist for exactly the
  devices with scan elements.

## 3. Modules

| Module | Models | State and actions |
|---|---|---|
| `AttrAccess` | `rwAttrPath`: what a path leads to, what one transfer can do | `attr`, the registers behind the paths; operators only |
| `AttrTopic` | the four attribute services, `m_attrTopicMap`, the `IIOAttrTopic` objects with their thread, the `/write` callback | `map` is `m_attrTopicMap`; `stage`, `info`, `lock`, `stop`, `text` are an object's life, its constant members, `m_mutex`, `m_stopThread`, `last_val`; `pc` and `job` are where a thread stands and its locals |
| `IIOBuffer` | one `IIOBuffer` object, the seven buffer services, `publishingLoop` | the members under their own names (`mBuffer` is `m_buffer`, ...); `live` and `opened` are libiio's buffers; `pc`, `request`, `message` are where a thread stands and its locals; `acquired` is a history variable: the calls since whose start a whole refill was made |
| `LibIIODevice` | the abstract specification: libiio's buffer protocol | `handle`, the state of each buffer: free, open, busy; create, begin and end a transfer, destroy only when idle |
| `StateMachine` | `state_machine.py` | `state` and `idx` as in the code; `last` is what each topic was last given; one action, `timer_callback` |
| `Actuator` | `actuator.py` and what it uses of `adi_iio` | `scale`, the queues `command` and `written`, the requests `asked` of each service, the channels' `enabled` and `dac`; an action for each callback, each service's answer, discovery, and SIGINT at either side of `rclpy.spin` |
| `Electrodes` | both nodes on the `anode` and `cathode` topics | composes the two with `INSTANCE`, which share `command` and `listening` |
| `TemperatureIndicator` | `temperature_indicator.py` | the members under their names; `samples` is a history variable, every temperature computed |
| `Conversion` | `ad7124_8_buffer_scaled.py`, its requests, the interleaving of `IIOBuffer::refill`, and the visualizer as the reader of `/mV` | `step` is the call of `SetupCalls` the set-up thread is at; `taken` are raw messages whose callback waits for `self.lock`, `holder` what the thread that has it does next: each assignment under the lock is a step |
| `PlotNode` | `visualize_iio_waveform.py` | operators: when a message is accepted, the matrix it becomes |
| `HWMon` | `dell_precision_5530.py` with its eight attributes | `hStep` is the place in `Script`, what the four `setup_*` functions do in order; `tick` is the publication `timer_callback` is at; `toDisable` are the eight requests of `destroy_node`, as it writes them out |
| `ScaledStream` | the scaled buffer node as the client of the real buffer object | EXTENDS `IIOBuffer`, INSTANCEs `Conversion`: the node's calls and teardown are the object's handlers |
| `BringUp` | the launch files of both boards | a process is the sequence of its calls; `inCall` and `ended` count them |
| `IIOBuffer_proofs`, `IIOBufferOneClient_proofs` | theorems about `IIOBuffer`, for every client and for one that waits | |
| `AttrTopic_proofs`, `AttrTopicOrderly_proofs` | theorems about `AttrTopic`, for every client and for orderly ones | |
| `Electrodes_proofs`, `TemperatureIndicator_proofs`, `Conversion_proofs`, `HWMon_proofs` | theorems about the modules of those names; the first has those of `StateMachine` too | |
| `MCIIOBuffer`, `MCAttrTopic`, `MCScaledStream` | the instances for TLC | constants only |
| `MCExamples` | the instances of the examples | `launched` is the example a behaviour runs; INSTANCEs them, but EXTENDS `HWMon` |

The examples share no state with each other, so a behaviour of `MCExamples` runs one of
them and leaves the variables of the others as they are: its state space is the union of
theirs, and what holds there holds of each.

A handler is one action per step between points where another thread can interfere: an
access to a member that others write without the lock, an acquisition of a mutex, a
libiio call that waits, a read of an attribute. The rest of the handler is in the action
of the step it belongs to. Undefined behaviour (a null pointer used, an assignment to a
joinable thread, an iteration over a vector that is reallocated, a use after free, a
data race on `std::map`) ends the process: `crash` names which, and nothing moves after.

What the models assume:

- **One device in `IIOBuffer`.** Buffer objects share nothing but the services' callback
  groups, so one of them with all its callers shows every interleaving on it.
- **Reads and writes of `bool` and pointer members are atomic.** They are not declared
  so; a torn or never-seen value is not modelled.
- **`iio_device_create_buffer` may fail for any reason**, among them that a buffer is
  already open or the channels do not go together; the device is always found, because
  `m_bufferMap` holds only devices of the context.
- **A `BufferWrite` brings the values its layout promises.** See the hazards for the other
  case. A negative `samples_count` fails like any create.
- **What the constructor leaves uninitialised** (`m_samples_count`, `m_stopThread`) is any
  value.
- **`map::erase` follows libstdc++**: erasing the only element clears the map, which runs
  the destructor, and with it the join, before the element is gone.
- **The executor has a thread for every callback group.** With fewer, calls wait longer;
  nothing else changes.
- **A request of a node that is shutting down is delivered** when its service was
  discovered: the answer does not matter to the node any more.
- **Numbers of the examples** are integers in small units (microvolts, millidegrees,
  fractions of a millivolt), so what floating point rounds is not modelled. What the code
  itself cuts off is: the `int()` of `ad7124_8_buffer_scaled.py:207` and of
  `actuator.py:198`. A scale is a whole number of `1/Unit` millivolts per code, the shipped
  0.000149011 one of 149011 with a `Unit` of 10^9. The divisions of Welford's update are
  exact by `TemperatureAssumption`, and the readings of `hwmon` are whole thousands.
- **The hardware may round what is written to it**: `Rounds` says what it may make of each
  value (`test/attr_srv.test.py:184` allows one percent).
- **`hwmon` finds both its services at once.** The other case is `wait_services`, on the
  actuator, whose loop is the same.
- **An attribute's text** is one of a few values, an error text, or empty. Of a message's
  conversion it matters whether `stoi` takes the text. `loop_rate` is any finite time.

## 4. Runs

| Run | Question | Bounds |
|---|---|---|
| `one_client` | Does a client that waits for its answers, and disables the topic before it reconfigures, ever meet a crash, a leaked buffer, or data that is not one whole refill of what it asked for? | 2 handles, 6 read and 2 write requests (good, empty, zero samples, unknown channel, refused directions, a direction mixed with a plain name); `BufferDestroy` may overtake a `BufferRefill` |
| `any_client` | Does the mutex protect the libiio buffer whatever clients do at once? | 2 handles, 2 calls in flight and the streaming thread, one read and one write request that differ in everything |
| `progress` | Is every call answered, and does SIGINT end the stream? | 1 handle, as `one_client`, transfers always end |
| `attr_topics` | Do map, objects and threads agree, and is what is published current? | 2 names, 2 objects, 2 values, an attribute that works and a device attribute with a debug one, whose transfers may fail |
| `attr_any_client` | Does a topic's mutex hold whatever clients do at once? | 2 names, 2 objects, all pairs of services and the callback, but for `AttrReadString`, which changes nothing and runs alone |
| `attr_progress` | Does every attribute call and callback end, and every thread after SIGINT? Is a good answer of `AttrWriteString` about the value of that very request? | 1 name, 1 object, 2 attributes; 2 values, of which hardware holds one as itself or as the other |
| `attr_update_disable` | Finding 4 | 1 call of each kind beside the callback |
| `examples`, electrodes | Are the ramps continuous, does the last command of each electrode reach its own DAC, and does shutdown disable the topics? | 3 points a ramp, queues of depth 1, channels of different scales, writes that fail at any time |
| `examples`, temperature | Are the one-pass statistics those of all temperatures? | 3 temperatures, 3 readings, 2 offsets, errors |
| `examples`, buffer | Does each refill get to `/mV` once, whole, in its place and in millivolts, and to the right curve? | 2 channels of 3 samples, 2 raw messages, codes of either sign that are no whole millivolts |
| `examples`, monitor | Does the set-up end, does each topic show all readings of its attribute and no others, and does shutdown disable what was enabled? | all 8 attributes, 2 readings or refusals, each reading republished for ever |
| `examples`, bring-up | Does a bring-up make all its calls, and do the transforms fit what it configured? | 4 channels of two boards, 1 failing call |
| `wait_services` | Finding 5 | the electrodes, with services discovered one by one |
| `destroy_streaming`, `refill_streaming`, `blocked_refill` | Findings 1 to 3 | the smallest instance that has them |

Why the bounds are enough. A second handle is what it takes to leak one, and `NoLeak`
says that a client that waits never holds two. Two handlers overlapping are what every
hazard of section 8 takes, with the streaming thread as the third actor. Samples and
channels matter to the code only as "none", "the same" or "different", which the requests
cover. Two topics are needed for the difference between an erase and a clear of the map,
and for one topic to outlive the other. `any_client` looks at states through
`ControlView`: it leaves out `m_data`, the answers and what a buffer was created for, on
which no guard depends, and keeps of `m_samples_count` whether it is zero, the only thing
a guard asks of it; neither `LockInv` nor `UsesLibIIO` mentions what it leaves out.
`NodeView` leaves out the last answer in the same way. Handles and topic objects are
interchangeable, so the safety runs use symmetry; the runs with liveness do not.

The examples' bounds: a ramp of three points has a bottom, a middle and a top; a queue of
depth one holds a command while the node asks for the next, which drops the stale one, on
both topics a command passes; two messages, and a thread for each, are what it takes to
swap, mix or replace two conversions. `MaxEvents` is the number of new readings of the
monitor and of refused requests together: two of them are any two of the eight attributes,
an attribute and an error, or a refusal anywhere in the set-up and a reading after it, and
a reading goes on being published for ever. A reading that is stored or shown elsewhere
needs one other attribute to be seen. The theorems of section 6 have the invariants for
every number of points, depth, message, reading and refusal.

`CHECK_DEADLOCK FALSE` is in every configuration because the node does stop: after a
crash, and after SIGINT once every thread has ended.

**Fairness.** `WF` for every step a thread can take by itself: the operating system runs
runnable threads. `SF` for taking a mutex: `std::mutex` promises no order, but the only
threads that come back to a lock by themselves, the two publishing loops, sleep outside
of it, so it is free again and again for a time in which a waiter gets it. A transfer
ends (`WF`) only when `HwAnswers`, that is with a context timeout; `blocked_refill` is
the case without. Attribute accesses are assumed to end. Nothing makes clients call.

Of the examples, each conjunct of a `FairSpec` is weak fairness of one scheduler: timers
fire (`Tick`, `timer_callback`) and a shell goes on to its next command; an executor takes
what is ready, each topic of the actuator by itself (`rclpy.spin` serves ready callbacks in
turn); `adi_iio` answers the set-up of the monitor, which goes on with the answer.
Discovery, readings, SIGINT and requests at shutdown are never forced: the liveness
properties that need them have them on the left of `~>`, and the teardown is stated of the
moment its requests are served. In `MCExamples`, `Fairness` is each example's own, for the
behaviours that launch it.

## 5. Properties

`NoCrash`, `NoLeak`, `ConfigMatches`, `ReadDelivers`, `PublishesWhole`,
`TopicMatchesThread`, `RefillDelivers` and `DestroyReleases` are the promises of the
buffer services to a client that waits; they are false of clients that do not, and the
crashes in `any_client`'s state space say how. `LockInv` and the refinement `UsesLibIIO`
hold for every client. `TopicsOwned` (no object without its entry and no thread without
its object), `PublishesCurrent`, `NoCrash` and `WriteReadsBack` are the same for the
attribute services, with `LockInv` for every client. `WriteReadsBack` is about the two
transfers of a write: the answer is something the hardware makes of the value of that
request, neither an older value nor another request's. It does not ask for the value
itself, which devices round, nor for the documented "Success", which no write answers
(section 7).

Of the examples: `Continuity` and `OneElectrodeAtATime` are about the ramps;
`LatestReachesDAC` and `EventuallyDriven` relate what the state machine asked for to the
DAC two queues later. A write that fails there is dropped (`iio_attr_topic.cpp:85`) and
nothing retries it, so the DAC keeps a stale code until the next command;
`LatestReachesDAC` speaks of commands whose own write did not fail, whatever failed before
them, in the scale that the node holds. `StatisticsMatch` compares the one-pass statistics
with their definitions; `ScalesRead`, `MilliVolts` and `EachOnce` follow a raw message to
`/mV`, and `PlotShowsChannels` follows the samples of a channel from the hardware's refill
through `adi_iio`'s interleaving, the conversion and the visualizer's indexing to its curve.
`ShowsOwnReadings` says that none of the monitor's eight topics shows another attribute's
reading or an error, `ShowsItsAttribute` that every reading, or a later one, gets to its
topic, `SetupCompletes` that it comes that far. `TeardownDisables`, of the monitor, and
`ActuatorDisables` say what a shutdown leaves once `adi_iio` has served the requests of
`destroy_node`: nothing that was enabled when it ran. The monitor writes its eight requests
out, and so does the model. `BringUpCompletes` and `VoltsComeRight` are about the launch
files.

## 6. Proofs

Every invariant and every action property that a passing run checks is a theorem, but
`ActuatorDisables` and the types of `BringUp`. Each one holds for every value of the
constants that meets the assumption of its module; where it needs more, the theorem says
so in front of `=>`. The theorems about an example are of its own module, the properties of
`MCExamples` that module's under the instance's constants.

### The buffer, for every client

`IIOBuffer_proofs`, for every set of handles, channels, requests, every `Overlap` and
every number of calls in flight, from `ConstantsAssumption` alone:

- `TypeCorrect`: `Spec => []TypeOK`. One lemma for each group of steps; each step
  preserves each named part of `TypeOK`.
- `LockSafety`: `Spec => []LockInv`. `LockInv` is inductive relative to `TypeOK`, and its
  three parts need each other: `OwnerInv` (the mutex is held by exactly the thread at a
  label inside a critical section) makes a thread inside alone; `BufferInv` (`m_buffer`
  is null or an open buffer that is not cancelled) is broken and repaired within one
  section; `UserInv` (a thread past its check has a buffer) holds because whoever could
  reset `m_buffer` needs the mutex.
- `ImplementsLibIIO`: `Spec => UsesLibIIO`. Under the refinement mapping `HandleState` (a
  buffer is busy when the lock holder transfers on it, open when it is live, free
  otherwise) every step is a step of `LibIIODevice` or changes no handle. The invariants
  are what excludes a transfer on a destroyed buffer and a destroy under a transfer.

### The buffer, for a client that waits

`IIOBufferOneClient_proofs` proves `NoCrash`, `NoLeak`, `ConfigMatches`, `ReadDelivers`,
`PublishesWhole`, `TopicMatchesThread` (invariants), `RefillDelivers` and `DestroyReleases`
(actions) under `OneClient`. That hypothesis is a condition on the constants:
the client disables the topic before it reconfigures, only `BufferDestroy` may overtake a
`BufferRefill`, and the channels of a `BufferWrite` are named with their direction. The
last part is needed: `refill` looks a plain name up among the inputs, so a `BufferRefill`
after a `BufferWrite` with plain names uses a null channel; `README.rst:277` shows the
names with the direction. `MCIIOBuffer` has TLC check that the requests of `one_client` and
`progress` meet `OneClient`, so the theorems are about what those runs look at.

None of the eight is inductive, and none can be proved without the others, because what
keeps one handler's promise is where the others cannot be. `ClientInv` has these parts:

- `PlaceInv`, `AloneInv`, `QuietInv`: which labels a service reaches, which two services
  are in flight together, and that nothing reconfigures beside the streaming thread. They
  turn each step into a case with one or two actors.
- `TopicInv`: what is true of `m_topic_enabled`, `m_loopRate`, `m_pub` and the thread in
  the middle of the two topic services; `TopicMatchesThread` is its quiet case, and
  `NoCrash` needs the rest.
- `OrderInv`: destroy comes before the configuration changes and before a create, so one
  handle at most is live, and it was opened for the configuration the object holds, with
  channels `refill` can look up.
- `RequestInv`, `DataInv`: a handler's configuration is that of its request, and `m_data`
  is whole, with the layout of the open buffer, from the refill to the answer.

### The attribute services

`AttrTopic_proofs`, for every client, context and set of topics: `TypeCorrect`,
`LockSafety`, and `NodeCorrect`, that their common invariant `NodeInv` holds. `LockInv` is
not inductive alone: a topic object can be deleted while a callback is inside it, and the
next object may be made at its address. `HoldInv` says that the callback has the mutex it
took, `ThreadInv` that a running thread's object exists (so an object is only
made where no thread runs), `JobInv` and `PlaceInv` what a caller's job holds at each label.

`AttrTopicOrderly_proofs`, under conditions on the constants that `MCAttrTopic` has TLC
check of the instances of `attr_topics` and `attr_progress`:

- `TopicsSafety` (`[]TopicsOwned`) under `MapUsersAlone`: no call is in flight while a
  topic is enabled or disabled. `OwnedInv` follows an object through its life (`NoObject`,
  `AliveObject`, `DyingObject`); `JoinInv` is the delicate part, for between `erase` and the
  end of the destructor the entry is gone or, when the map is cleared, still there.
- `NoCrashSafety` needs `NumbersStay` too: the value behind a numeric topic is always a
  number and its reads do not fail. Otherwise `stoi` throws; see section 7. `SourceInv`
  and `NumberInv` carry the condition from the request to the text of the thread.
- `CurrentSafety` (`[]PublishesCurrent`) under `MapUsersAlone` and `NoOtherWriter`: what has
  a topic is written by that topic's subscription alone. `OwnPathInv` and `WriterInv` say
  who writes what; the topic's mutex does the rest.
- `ReadBackSafety` (`[]WriteReadsBack`) under `NoOtherWriter` and `OneRegister`: a write and
  a read of a path reach the same attribute, for every way the hardware rounds (`Rounds`).
  `ReadBackInv` speaks of the moment between the two accesses of `AttrWriteString`: the
  attribute holds what the hardware made of the value of this call.

### The examples

`Electrodes_proofs`, for every number of points above one, depth of the queues, largest
code, order of discovery and pair of scales:

- `OneElectrode` (`Spec => []OneElectrodeAtATime`) and `RampContinuous` (`Spec =>
  Continuity`). Neither is inductive: that an electrode may be started depends on where its
  last ramp was left. The invariant is `RampInv`: on a rising ramp the driven electrode was
  last given the point below `idx`, or rests at the bottom; on a falling one the point
  above; the other electrode rests (`Behind`, `Resting`). `ModIsIdentity` gets rid of the
  modulo of `update_state`, `Rises` and `Falls` say what a step does to `idx` and `state`,
  and `RampStep` takes the four states in turn.
- `Delivery` (`Spec => []LatestReachesDAC`). The property speaks of moments when nothing is
  on its way; the invariant `DeliveryInv` speaks of every moment. `Newer` says that the
  newest message of an electrode's topic is the last command, and, once the actuator has
  taken and forwarded it, that its code is the newest of the `/write` topic, or, if that is
  empty and the write did not fail, in the DAC. A full queue loses its oldest message, never
  that one (`Kept`). `QueueInv` gives what the queues may hold, `PhaseInv` that nothing is
  disabled while the node spins: `ServeDisable` empties a `/write` topic and would break
  `Newer`. There is a lemma for each action. No scale is assumed: since both requests of
  `read_scale` name the anode's (`examples/ad5592r/ad5592r/actuator.py:152`), every code is
  in that scale, which `QueueInv` says (see section 7).
- `TypeCorrect`: `WireInv` bounds the queues by `Depth` and the DAC by `MaxCode`.

`TemperatureIndicator_proofs`, for every set of readings, offsets and number of
temperatures:

- `StatisticsSafety`: Welford's update is right. The mean moves with every temperature,
  and with it every term of the sum of squares, so the property is not inductive; the
  invariant is: for *every* `m`, the squared distances from `m` sum up to
  `M2 + n (mean - m)^2`. A sum is a recursive function, but no induction over sequences is
  needed: `samples` grows by one in a step, and `SumOfMore` extends a running total by one.
  The division is exact by `TemperatureAssumption`, since every temperature is a multiple
  of every count.
- `TypeCorrect`: no error text is kept as a reading.

`Conversion_proofs`, for every number of channels (different ones, as in
`ad7124_8_buffer_scaled.py:40`), samples and messages, every scale and unit, and codes of
either sign: `TypeCorrect`, `ScalesSafety`, `MilliVoltsSafety`, `OnceSafety` and
`PlotSafety`. Two facts order the proof: no message arrives before the set-up is over
(`RawInv`), and the scales stay once it is (`ScalesInv`, which relates the scales read so
far to the call the set-up is at), so what was converted earlier is still right
(`ScaledInv`). `PendingInv` says what `self.lock` guards at each step of its holder: the
message is whole whenever the lock is free and the flag is set, though in between its
layout is of one refill and its data of another. `OnceInv` says that a refill is in one
place: held by a callback, converted, or published. `TruncatedFacts` is about cutting off
towards zero, on either side of it. For the curves it takes that `i \div n` and `i % n` give
back row and column, once for the interleaving of `refill` and once for the visualizer.

`HWMon_proofs`, for every number of readings and refusals: `OwnReadings` (`Spec =>
[]ShowsOwnReadings`) and `TypeCorrect`. What a topic shows depends on what was stored, and
that on what was queued; `OwnInv` says of the whole way, queue, `self.data` and topic, that
a value is a reading of its attribute in its unit. It is inductive because no two attributes
share an entry or a topic (`NoneShared`) and every publication is of one attribute
(`PublicationFacts`), the facts a mix-up in the eight near-identical callbacks would break.
`TeardownSafety` (`Spec => []TeardownDisables`): `TeardownInv` says of every moment after
`destroy_node` that what is left of the topics enabled at it is still among the requests on
their way. Its premise is that the set-up, if it goes on, enables none of them again: it is
at a later place of the script, and no attribute has two (`ScriptDistinct`).

### Only model-checked

Liveness (`EveryCallReturns`, `ShutdownStopsStream`, `ShutdownStopsTopics`,
`EventuallyDriven`, `SetupCompletes`, `ShowsItsAttribute`, `BringUpCompletes`,
`VoltsComeRight`), which TLAPS cannot prove under fairness, `ActuatorDisables`, the types of
the bring-up, and the violations. The runs with any client say nothing of `NoCrash` and its
like, which do not hold there.

## 7. Findings

1. `destroy_streaming`: `BufferDestroy`, `Create`, `Read` and `Write` reset `m_loopRate`
   under the streaming thread, which dereferences it (`src/iio_buffer.cpp:46`, `:288`).
   The run gets there with the shipped `ad7124_8_buffer_scaled` node, whose `destroy_node`
   sends `BufferDestroy` before `BufferDisableTopic` and waits for neither
   (`examples/ad7124_8/ad7124_8/ad7124_8_buffer_scaled.py:290`).
2. `refill_streaming`: `BufferRefill` while the topic is enabled answers success with
   whatever `m_data` holds (`src/iio_node.cpp:373`).
3. `blocked_refill`: without a timeout `BufferDestroy` waits for the refill it should
   cancel (`src/iio_buffer.cpp:40`).
4. `attr_update_disable`: `AttrDisableTopic` deletes the object a `/write` callback runs in
   (`src/attr_publisher.cpp:30`).
5. `wait_services`: the loop that should "Wait for the services to be available" ends when
   one of them is (`examples/ad5592r/ad5592r/actuator.py:127`; the same in
   `temperature_indicator.py:81` and `dell_precision_5530.py:139`).

Documents that the code contradicts by itself, without a run: `README.rst:334` says that
the message of a successful answer is "Success", but `AttrReadString` and `AttrWriteString`
answer with the attribute's text (`src/iio_node.cpp:275`, `:288`); the repository's own test
reads the message of a write as a number (`test/attr_srv.test.py:183`) and allows one
percent. The actuator reads the anode's scale a second time for the cathode
(`examples/ad5592r/ad5592r/actuator.py:152`), where
`doc/Examples/02_example_ad5592r.rst:427` has it fetch "the `scale` values for the configured
output channels"; the launch files give both channels one scale, and so hide it. A sample's
scale is looked up by the sample's value, not by its channel
(`examples/ad7124_8/ad7124_8/ad7124_8_buffer_scaled.py:207`), where
`doc/Examples/03_example_ad7124-8.rst:314` speaks of a scale "for each channel"; it takes
another channel's once the device holds two, as when it refuses one of the writes.
`Conversion` has that lookup and such devices; `MilliVolts` speaks of a device that took
the scale for every channel, and `LatestReachesDAC` of codes in the scale the node holds.

Seen while reading, and not run: a `BufferRead` that fails on a direction answers with the
message of the create before it, "Success" (`src/iio_buffer.cpp:186`); a DOUBLE topic
publishes `bool(stoi(...))` (`src/attr_publisher.cpp:153`); a numeric topic whose
attribute stops answering, or whose number exceeds an `int`, ends the node through an
exception of `stoi` (`src/attr_publisher.cpp:78`; a reachable end of `attr_any_client`);
the timeout is set on a context that may be null (`src/iio_node.cpp:51`); an error of a
device attribute is overwritten by the error of the debug attribute tried after it
(`src/iio_node.cpp:165`). A second `BufferEnableTopic` ends the process, an assignment to a
joinable thread (`src/iio_buffer.cpp:270`; the end `terminate` of `any_client`).

A write from a `/write` topic that fails is dropped without a message and never retried
(`src/iio_attr_topic.cpp:85`); a failing electrode keeps its voltage until the next command.

In the examples: `temperature_indicator.py:37` computes with the scale 1.0 until the answer comes, the first
temperatures stay in the statistics, and its docstring at `:175` says "biased" of a variance
divided by n - 1; `int()` at `ad7124_8_buffer_scaled.py:207` turns every code below 6711
into 0 mV with the configured scale; conversions on several threads may reach `/mV` out of order; a node
stopped before its clients exist raises in `destroy_node` (`:290`,
`dell_precision_5530.py:451`), and one stopped while it polls uses an unbound `response`
(`dell_precision_5530.py:133`); a set-up thread in `client.call` is not woken by SIGINT; an
enable request still unserved at shutdown leaves its topic enabled; the temperature
indicator never disables its topics, and a stopped actuator leaves the DAC where it was;
`ad7124_8_transforms.launch.py:30` multiplies by 0.000001164 where
`ad7124_8_config.launch.py:22` configured a scale of 0.000149011.

## 8. Hazards

`PROJECT.json` lists them at their lines with the properties that watch them. The kinds
this code has: unlocked members shared by callback groups and threads, handlers that are
not atomic, threads that outlive what they use, a lock held while the hardware is waited
for, calls in an order that leads to an illegal state, and errors that are answered as
success. Nothing is persisted and no message is resent, so crash recovery and duplicated
delivery do not arise.

## 9. Not modelled, and the plan

In this order:

1. `IIOPath`: paths as sequences of segments (`split`, `isValid`, the extended channel
   format, `toTopicName`) against a reference definition, and its use in `AttrTopic` for
   the topic names, where two paths can collide.
2. `Discovery`: `List*` and `ScanContext` as functions of a device tree; every path they
   list is valid for its kind and leads back to the element.
3. `Startup`: the constructor, `initBuffers`, `main` and the executor: a context that is
   null, callback groups shared by all devices, a `loop_rate` that throws.
4. Proofs: an abstract specification of the attribute topics, names that are published or
   not, which `AttrTopic` implements for orderly clients; lemmas on the path functions once
   1 and 2 are there.

Left out for good: how the plot is drawn, message formatting and logging, the sample
conversion of libiio (`iio_channel_convert`), floating-point rounding, QoS beyond the depth
of a queue and the transport of ROS 2, parameters, build and CI.
