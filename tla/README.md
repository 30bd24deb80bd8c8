# Verification of soem_driver

TLA+ models of the EtherCAT driver `soem_driver` for ros2_control, the TLC runs that check them and
the TLAPS proofs about them. The models are written from the code; line numbers below refer to

| short | file |
|---|---|
| `master` | `src/soem_driver/src/soem_master.cpp` (and `soem_master.hpp`) |
| `driver` | `src/soem_driver/src/soem_driver.cpp` |
| `resolver` | `src/soem_driver/src/claims_resolver.cpp` |
| `slave` | `src/soem_driver_slave_interface/include/soem_driver_slave_interface/soem_driver_slave.hpp` |
| `tmcm1610` | `src/soem_slave_modules/soem_modules_trinamic/src/tmcm1610.cpp` |

`PROJECT.json` lists components, runs, the lines each definition stands for, hazards, findings and
theorems.

    tlc -workers 2 -config MasterTransfer.cfg MCSOEMMaster    # check a run
    tlapm SOEMMaster_proofs.tla                               # check the proofs of a module

## 1. The system

`SOEMDriver` is a ros2_control hardware component. It owns a `SOEMMaster` (the EtherCAT master, on
SOEM), one slave module per slave (plugins derived from `SOEMDriverSlave`), an `ECClaimsResolver` and
a node that publishes diagnostics. Up to five threads meet in it:

* the **lifecycle** thread runs `on_configure`, `on_activate`, `on_deactivate`, `on_cleanup`,
  `on_shutdown` and the destructor;
* the **control** loop calls `read()`, `perform_command_mode_switch()` and `write()` in turn, in INACTIVE
  and in ACTIVE;
* a **service** thread calls `prepare_command_mode_switch()`;
* the **cyclic** task, spawned by `SOEMMaster::run` and joined by `SOEMMaster::stop`, exchanges process
  data and mailboxes with the bus;
* the **publisher** thread spins the diagnostics node from `on_configure` to `on_cleanup`.

| component | state | operations | talks to |
|---|---|---|---|
| SOEMMaster, process data | `RxPDO/TxPDO_transfer`, working sets, IOmap, `cyclic_master_running/_terminate`, `status`, `status_queue`, `is_init` | `init`, `start_bus`, `run`, `stop`, `deinit`, `transfer_RxPDO`, `transfer_TxPDO`, `cyclic_task` | control loop (buffers + atomics), lifecycle (thread, flags), publisher (queue), bus |
| Slave mailboxes | `mbx_send_queue`, `mbx_receive_queue`, `SMbx`, `RMbx`, five flags per slave | `mbx_enqueue_send`, `mbx_consume_incoming`, the mailbox part of `SOEMDriver::read/write` and of `cyclic_task` | slave module, cyclic task, slave |
| TMCM1610 module | an hfsm2 state machine, `command_mode`, configuration read from the drive | `configure`, `read`, `write`, `prepare/perform_command_mode_switch` | process data, mailbox, controllers |
| ECClaimsResolver | `joint_claims`, `command/state_interface_map` | export by joint, prepare and perform a switch | slave modules, controller manager |
| SOEMDriver lifecycle | `slaves`, `initialized_slaves`, each module's position and spans; of the master `_slaves`, `_slaves_data_access`, the SDO hooks, the working sets' allocations | the `on_*` callbacks, `read`, `write` | all of the above, resource manager |
| Interface export, transmissions | `transmissions`, `transmission_*_values`, `transmission_command_interface_map` | `export_state/command_interfaces`, the transmissions in `read` and `write` | resolver, resource manager, controllers |
| Diagnostics publisher | executor, its thread, a timer | run, stop, timer callback | `status_queue`, ROS |
| Mock module | nothing | exports interfaces | resolver |
| URDF and parameter parsing, message formatting, TMCL constants, build files | none at run time | | |

What is hard about it, and what makes it correct:

* **Buffers without locks.** Working sets and mailbox buffers are plain vectors. Only atomic flags keep
  the control loop and the cyclic task apart. Correct: never two threads in one buffer, whole frames
  only, no flag taken back early, no message overwritten, and no request sent again once a send of it succeeded.
* **Waiting without a timeout.** `transfer_*` waits for a flag to fall, `stop()` joins a thread, a
  state of the TMCM1610 waits for a reply. Correct: nobody waits for somebody who will not come.
* **Restarts.** Every callback sequence ros2_control allows, in any phase of a cycle. Correct: a stopped
  master leaves no thread, flag or request behind.
* **Single-producer queue.** `status_queue` is written by two threads at different times. Correct: at
  different times indeed, and what it carries is in order and consistent.
* **Long protocols.** Start-up and homing are a plan of some ten tasks, driven by inputs, replies and mode
  switches arriving in any order. Correct: a reference is asked for only where the module puts out stop, and controllers
  command the axis only after the last one was asked for.
* **Two-phase switches** over several slaves, with overlapping claims. Correct: what was prepared is what is
  performed, and modes follow the claims that are held.
* **Lookups in lists that only grow.** Every `on_configure` appends to the lists of slaves, of spans and of initialized
  modules; modules, hooks, spans and mailboxes find each other by position, alias and index. Correct: a module reads, writes and
  sets up its own slave, in this cycle, however often the driver was configured.
* **Handles into vectors.** Exported interfaces point into `transmission_*_values`, modules into the working sets. Correct: each
  handle leads to the one value its name stands for.
* **Failures.** A bus that does not reach its state (whose exception leaves `on_activate`), answers that are lost, failing cycles, errors SOEM lists, replies with an
  error status, a full queue, a dropout.

## 2. The modules

| module | role |
|---|---|
| `ProcessImage` | abstract specification: process data travels as whole frames |
| `SOEMMaster`, `MCSOEMMaster` | the master with the driver's calls, three threads; implements `ProcessImage` |
| `SOEMMaster_proofs` | proofs about `SOEMMaster` |
| `MailboxChannel` | abstract specification: a queue of calls to a slave |
| `Mailbox`, `MCMailbox` | one slave's mailbox between control loop, cyclic task and slave; implements `MailboxChannel` |
| `AxisStartup` | abstract specification: what the module puts out and asks for to bring an axis into service |
| `CommandMode` | command modes, claims and how a switch changes the mode (used by the next two) |
| `Mailbox_proofs` | proofs about `Mailbox`, and that it implements `MailboxChannel` |
| `TMCM1610`, `MCTMCM1610` | the slave module with its calls, mailbox and lifecycle; implements `AxisStartup` |
| `TMCM1610_proofs`, `AxisStartup_proofs` | proofs about `TMCM1610`, and that it implements `AxisStartup` |
| `ClaimsResolver`, `MCClaimsResolver` | resolution of claims, exported handles and mode switches over all slaves |
| `ClaimsResolver_proofs` | proofs about it |
| `FieldbusDriver` | abstract specification: each module works with its own slave, in each cycle on its data |
| `SOEMDriver`, `MCSOEMDriver` | modules, slaves, spans, hooks and transmissions over several configurations; implements `FieldbusDriver` |
| `SOEMDriver_proofs` | proofs about `SOEMDriver` |
| `DiagnosticsPublisher` | executor, thread and timer |
| `DiagnosticsPublisher_proofs` | proofs about it |
| `InductionLemmas` | bounded induction, minima and maxima, and how the library's folds unfold (used by `ClaimsResolver_proofs` and `SOEMDriver_proofs`) |

The models meet at abstract specifications: `SOEMDriver` transfers a working set in one step, which is what `ProcessImage`
allows it to do; the mailbox does not look into process data; and the TMCM1610 uses the mailbox as `MailboxChannel`
describes it (one request in transit, replies in order).

Operators called *Variant* are plausible mistakes in the code next to them: a dropped guard, a missing
reset, a swapped order. They are part of no specification. Each property was tried against such a
variant, in place of the definition it stands beside, and fails.

### SOEMMaster

The three program counters `lifecycle`, `control` and `cyclic` name the places in the code between two
accesses to shared members. A step is one access: a load or a store of an atomic, one byte of a
`std::copy`, one byte a slave module reads or writes. `Value` and `Byte` stand for the content and size of
the process image; an `Output` is what the modules compose in one `write()`.

| actions | code |
|---|---|
| `InitMaster`, `StartBus`, `ReachSafeOp`, `MissSafeOp` | `on_configure`: `init` (master:136), `start_bus` (master:205) |
| `ReachOp`, `MissOp`, `Spawn` | `on_activate`: `run` (master:535), `bus_up_OP` (master:270) |
| `Stop` … `BusDown`, `Deinit` | `on_deactivate`, `on_shutdown`, destructor: `stop` (master:565), `bus_down_SAFE_OP` (master:314), `deinit` (master:189) |
| `Start` … `ExitPush` | `cyclic_task` (master:329) |
| `Read`, `LoadRunning`, `LoadTerminate`, `Request`, `Resume`, `ReadByte`, `ReadReturn` | `SOEMDriver::read` with `transfer_TxPDO` |
| `Write`, `WriteByte`, `WriteDone` and the same loads | `SOEMDriver::write` with `transfer_RxPDO` |
| `ConsumeStatus` | the publisher's timer |

`Fault` chooses what may fail in a cycle: sending, receiving, or other errors SOEM lists. When start-up
throws, the resource manager runs `on_error`, which the driver leaves to its default; the model lets the
component go to each state the manager could put it in. Times, cycle deadlines and the counters' values are
left out; of a counter of consecutive errors the model keeps whether it is zero.

`Serialised` says whether lifecycle callbacks and `read()`/`write()` exclude each other. The resource manager
of ros2_control does that with a lock; the driver does not. The runs take it for granted; three of the theorems do not.

### Mailbox

The control loop's half is the mailbox part of `read()` (driver:911) and of `write()` (driver:942), the
cyclic half the mailbox part of `cyclic_task` (master:418-470). Again a step is one access to a flag or a buffer.
A message is a request's number and kind: a *query* whose reply is read, a *raw* query whose reply has a mailbox
type SOEM does not know, or a *command* without a reply that is read. The slave has an inbox of one message and
answers in order. SOEM's error list is kept as far as `cyclic_task` pops and puts back its entries; other errors may be listed by earlier
slaves of the cycle and by the sends of this one.

`cyclic_task` repeats a send until its result is positive (master:429). A send that fails has not reached the slave, or has reached it
and only the answer was lost (`Deliver`); `MaxLost` bounds how often the latter happens. The history variables `arrived`, `confirmed` and `lost` are the
last request the slave got, the last one a send of which succeeded, and the number of lost answers.

### TMCM1610, AxisStartup and CommandMode

A call of the module is one step, for it runs in one thread on members of its own; the lifecycle callbacks
come between calls. A state of the machine is its innermost active state, a plan a sequence of tasks. What the
states wait for in the inputs are six conditions, and an input is the set of those that hold. A setpoint is the
kind of value it is ("retreat", "home", "backoff", "command" or zero). `ConfigurationPlan` and `MotionPlan` are the plans
of tmcm1610:1035 and following; `Succeed` and `Fail` what hfsm2 does with them, which is external to this repository.

`AxisStartup` has three variables only: the phase, how often the module asked for the position to be set, and what its outputs are. It is
about the module, not the drive: a request enqueued in `ZeroAxisPosition` reaches the drive when the mailbox gets to it (section 5), and in
INACTIVE the bus keeps the last outputs whatever the module puts out.

`CommandMode` holds the mode arithmetic of `prepare_` and `perform_command_mode_switch`, which compute the next mode
in the same way; only the latter keeps it.

### ClaimsResolver

`Resolve` walks the claims of each joint in order (`OfJoint`) and maps each interface they offer (`MapClaim`) unless the joint
has one of that name (`MapOne`, resolver:234 and following). `StartClaims` is the loop that sorts the claims of a switch by slave. `Prepare` and `Perform` resolve joint interfaces through the transmissions
(driver:975-1004) to slaves and their claims, and insert an empty entry for interfaces they do not know, as
`operator[]` does. `Export` builds the handles of `export_state_interfaces` and `export_command_interfaces` (driver:659-902)
with `AddJoint`: joints in any order, for their maps are unordered; an alias of the slave's value, or the next
value of `transmission_*_values` and the slave's value the transmission connects it to. A transmission that fails to load is left
out (`Loaded`, driver:495-538): its actuator is then exported under its own name. The controller manager is external: it names only existing interfaces, gives a claimed one to one
controller only, and has one switch under way.

### SOEMDriver and FieldbusDriver

| actions | code |
|---|---|
| `LoadModules` | `on_init`: plugins that throw are left out, a module whose `init()` fails ends it |
| `InitMaster` | `on_configure`: `SOEMMaster::init`, a scan of the bus appended to `_slaves` (driver:547, master:136) |
| `SkipModule`, `ConfigureModule` | the loop over `slave_infos` (driver:562-616): lookup, position, `configure()`, hook |
| `StartBus` | `start_bus` (master:205) with the hooks SOEM calls (`CallHooks`, master:616), and the spans assigned (driver:621-640) |
| `Activate`, `Leave` | the other callbacks, as far as they matter to modules and spans |
| `Read`, `Write` | `read()` and `write()`: transfers, modules and transmissions in their order |

Process data are *marks*: who made a byte, in which of two alternating cycles. A byte of outputs carries the module that wrote it and
the cycle its command was given in; a byte of inputs the slave it came from. A span is the allocation it points into and its bytes.
`resize` keeps an allocation while its capacity suffices and starts another one otherwise (growth as in libstdc++: to twice
the size, or to what is needed). What a module reads through a span into a freed allocation has no mark at all, and what it writes
there changes nothing: that stands for undefined behaviour, and no property speaks of it but `AssignsPDOs`, which forbids it.

`FieldbusDriver` knows no list, lookup, span or transmission. Each module has one slave, each slave one module that drives it; after `Sense` a
joint shows what its slave delivered in this cycle, after `Drive` the slave's outputs follow this cycle's command. The promise
ends (`Lose`, phase "void") when a scan finds another bus, or SOEM maps it in another way, than at first: Finding 4.

### DiagnosticsPublisher

`RunDiagnosticsPublisher`, `Stop`, `Cancel`, `Join` and `Reset` are the lifecycle thread's, `Spin`, `TestSpinning`, `Wait`, `Consume`
and `Publish` the publisher's. The executor is external and modelled by its flag: `spin()` raises it and runs while it is up,
`cancel()` lowers it. Statuses are numbered in the order the master reports them.

`ConfigureFails` and `ActivateFails` are the ways out of a state that stop nothing: `on_configure` returns an error, `on_activate` throws. As in
`SOEMMaster`, the resource manager may put the component into any state it could. `leftOver` remembers that a publisher was left
running by the latter. A process that assigned to a thread not joined has ended (`Alive`).

## 3. The runs

| run | module, cfg | states | what it shows |
|---|---|---|---|
| `master_transfer` | MCSOEMMaster, MasterTransfer | 280,838 | The working sets are never touched by two threads (`TransferExclusive`); whoever waits has a cyclic task that will look (`NoOrphanWait`); a request is taken back only when the whole frame has arrived (`WholeFrameReleased`); the master implements `ProcessImage`. |
| `master_status` | MCSOEMMaster, MasterStatus | 68,278 | `status` and its queue have one writer (`SingleStatusWriter`), a queued RUNNING counts no errors (`RunningIsHealthy`), a stopped master is clean (`StoppedIsClean`), and all calls and callbacks return (`CallsReturn`, `CallbacksReturn`). |
| `mailbox_safety` | MCMailbox, MailboxSafety | 2,662,403 | No buffer is used by two threads, no received message is overwritten (`UnreadKept`); requests reach the slave in order, none left out, and none again once a send of it succeeded (`SentInOrder`), though sends fail and answers are lost. |
| `mailbox_channel` | MCMailbox, MailboxChannel | 43,237 | The mailbox implements `MailboxChannel`, every query is answered, and a raw read leaves no error to be counted while no others are listed (`RawReadIsNoError`). |
| `mailbox_unread` | MCMailbox, MailboxUnread | violation | Finding 1. |
| `axis_homing` | MCTMCM1610, AxisHoming | 104,968 | The module implements `AxisStartup`; nothing moves before the configuration was read (`MovesWhenConfigured`); replies belong to the state that reads them; `write()` puts out the mode of the last switch; start-up ends. |
| `axis_reconfiguration` | MCTMCM1610, AxisReconfiguration | violation | Finding 2. |
| `claims` | MCClaimsResolver, Claims | 1,728 | First claim wins; each exported handle leads to the value its name is resolved to (`HandleLeadsToClaim`); a prepared switch is performed by all; modes follow held claims; only named slaves switch. |
| `publisher` | DiagnosticsPublisher, Publisher | 6,886 | A publisher outlives its configuration only by a failing `on_activate` and until the next stop (`SinglePublisher`); statuses are published in order and in the end; a spinning publisher can be stopped. |
| `publisher_race` | DiagnosticsPublisher, PublisherRace | violation | Finding 3. |
| `driver` | MCSOEMDriver, Driver | 845,901 | While the bus is the one first found, who set a slave up is the last to write each byte of its outputs (`SetUpByDriver`); `read()` and `write()` find the mailbox of the module's slave (`MailboxOfOwnSlave`); the driver implements `FieldbusDriver`. |
| `driver_reconfiguration` | MCSOEMDriver, DriverReconfiguration | violation | Finding 4. |

### Bounds

* **SOEMMaster** is finite without a bound on steps: callbacks, calls and cycles repeat for ever. Two bytes and two values
  are enough to tear a frame and notice; `MCFrames` holds the uniform frames, so that every mixed one is torn.
  `master_status` needs no content and takes all three faults instead; `master_transfer` has failed sending, which makes
  the wire differ from the IOmap.
* **Mailbox**: at most three requests. With queues of two, a queue fills up, is drained and refilled, one request is in `SMbx`
  while two wait; a fourth would meet the same states. Between them the runs have queries, raw queries and commands in every
  order. `mailbox_channel` excludes dropouts and slaves that answer commands, for then a reply need not belong to the
  query in transit (a late reply is taken for the next), and lost answers and other errors; `mailbox_safety` allows them all, with two
  lost answers: one request repeated twice, or two requests once each.
* **TMCM1610**: `MaxConfigures` bounds the calls of `configure()`. `MCInputs` has the inputs that satisfy exactly one condition, none
  or all, which separates any two states of the plan; a reply has status SUCCESS or an error. The refinement is checked
  for one configuration: on_cleanup does not empty `initialized_slaves` (driver:613), so after a second on_configure the module
  is called twice per cycle, and its state may pass by without its outputs reaching the bus. The theorems of
  `TMCM1610_proofs` hold for any number of configurations, and `axis_reconfiguration` shows what goes wrong with two.
* **ClaimsResolver**: two drives, a mock and three joints, two of them actuators behind a transmission, any of which may fail to load; three
  configurations with overlapping claims, partial ones, claims of an unknown slave, and one that gives a drive to two joints.
  A switch starts up to two controllers (`MaxStart`) and stops any; there is no bound on the number of switches.
* **SOEMDriver**: two modules and two scans (`MaxScans`), which is where everything appended once is appended again. `MCHardware` describes
  slaves by position and by alias, both modules for one slave, and one name for two slaves; `MCBuses` has two slaves, and three of which
  the one with the alias has moved. In `MCLayouts` a slave has one byte each way, two bytes, or no outputs. One of the modules is behind a
  transmission. Every module may fail to load or refuse its configuration, each bus may fail to come up. The cycle counter alternates
  between two values, which tells a cycle from the one before.
* **DiagnosticsPublisher**: two publishers (one after another) and three statuses: one in the message, one in the queue, one lost.

### Deadlock

Every run checks for deadlock; finished systems (`Destroyed`, `Finalized`, `Ended`) stutter explicitly.

### Fairness

* `SOEMMaster`: weak fairness for the steps of each of the three threads. They are OS threads; nothing obliges ros2_control to call
  the driver, so `Callback` and `ControlCall` have none.
* `Mailbox`: weak fairness for both loops and for the slave. Strong fairness for `MbxSend`, `MbxReceive` and `Consume`: an exchange that is
  repeated every cycle succeeds some time, and a module that is called every cycle consumes its messages some time. The code
  itself retries without end and has no other answer to a slave that never replies.
* `TMCM1610`: weak fairness for both loops, strong fairness for "the input the state waits for holds when the module reads": a
  drive that gets to where it is told to. No state of the module has a timeout, so nothing weaker would do.
* `DiagnosticsPublisher`: weak fairness for both threads. The timer of the node fires periodically.
* `SOEMDriver` and `ClaimsResolver` have no fairness: nobody is obliged to call the driver, and neither waits for anything.

### Assumptions on what is external

* A mailbox exchange whose result is positive has reached the slave; one without a positive result may have reached it or not. SOEM's own
  counter of mailbox messages, by which a slave may recognise a repeated one, is not modelled: the slave takes what it gets.
* A send may add an error to SOEM's list; a receive that meets a mailbox type SOEM does not know adds one of the mailbox.
* SOEM maps the process data of the slaves of a scan into one image per direction without gaps, each byte for one slave (`LayoutAssumption`), calls the hook of each
  slave it finds once per start, and clears its own list of slaves on each scan.
* `std::vector` grows to twice its size, or to what is asked for, and leaves its allocation only when it grows beyond its capacity.
* While the component is active, `SOEMDriver` has the bus deliver inputs in every cycle; failing cycles are in `SOEMMaster`.
* The SimpleTransmissions of ros2_control connect the handles of a joint and its actuator that have the same interface name. An actuator
  has at least one state and one command interface (its transmission refuses to be configured otherwise).
* The controller manager prepares and performs one switch at a time and names interfaces that exist.

## 4. What is proved

`SOEMMaster_proofs` proves for every set of bytes, values and frames, every set of faults:

| theorem | statement |
|---|---|
| `TypeCorrect` | `Spec => []TypeOK` |
| `Exclusive` | `Spec => []TransferExclusive`, serialised or not |
| `SingleWriter` | `Spec => []SingleStatusWriter`, serialised or not |
| `NoOrphan` | `Spec => []NoOrphanWait` |
| `Stopped` | `Spec => []StoppedIsClean` |
| `WholeFrames` | `Spec => WholeFrameReleased`, serialised or not |
| `Healthy` | `Spec => []RunningIsHealthy` |
| `Refinement` | `Serialised => (Spec => ImplementsProcessImage)` |

from the assumptions `ValueAssumption`, `FrameAssumption`, `FaultAssumption` and `SerialisedAssumption` of the module. The argument:

* None of the properties is inductive. What makes them so are five invariants at the end of `SOEMMaster.tla`. **Threads** says who can
  be where: the cyclic thread lives from `Spawn` to `Join`, both flags follow from the places of the two threads. It is
  inductive by itself and gives `SingleWriter` and the thread part of `Stopped`. **Handshake** says a raised request is being
  waited for and a copy runs only under a raised request: also inductive, and it gives `Exclusive` without any lock.
* **Exclusion** needs `Serialised`: a transfer that has passed its loads still has a running task, for `stop()` cannot
  have begun. This and the two others give `NoOrphan` and the rest of `Stopped`.
* **Copying** says what a half-done copy of the cyclic task has achieved: the bytes copied so far agree. With **Handshake** it gives `WholeFrames`.
  **Copies** adds the same for the slave modules, under `Serialised`. With it, each step maps to a step of
  `ProcessImage` or a stutter (`StepSimulation`): a request's frame is taken over when its copy *starts* (nobody can look in
  between), a frame is seen when the modules start reading it.

* **Counted** says that what the cyclic task is about to report fits the errors counted so far in its cycle. It gives `Healthy`.

`DiagnosticsPublisher_proofs` proves, for every number of statuses and publishers,

| theorem | statement |
|---|---|
| `TypeCorrect` | `Spec => []TypeOK`: in particular the queue never exceeds its capacity |
| `OnePublisher` | `Spec => []SinglePublisher`, failing activations included |
| `Ordered` | `Spec => []PublishedInOrder` |

The second needs the invariant **Stopping**: while a stop is under way there is a thread until it is joined, and none from then on. The third is inductive once the
types are known: what was published, is in the message and is in the queue forms one ascending pipeline.

`Mailbox_proofs` proves, for any kinds and number of requests, any faults of the slave, any capacity of the queues,

| theorem | statement |
|---|---|
| `MailboxTyped` | `Spec => []TypeOK` |
| `ExclusiveBuffers` | `Spec => []BuffersExclusive` |
| `RawReadsAreNoErrors` | `~OtherErrors => (Spec => []RawReadIsNoError)` |
| `UnreadIsKept` | `Spec => UnreadKept` |
| `RequestsInOrder` | `Spec => SentInOrder`, for any number of failing sends and lost answers |

from three invariants. **Handshake**: who has seen a flag relies on it, and it is changed only by the thread nobody relies on then; it
gives the exclusive buffers and the unread message without a lock. **Numbered**: the queue holds the last requests issued, `SMbx` the
one before; sends have succeeded for all up to that one, or for all but that one while it is outstanding, and the slave has got no more than
`SMbx` beyond those. A send that fails moves at most that last number. **MailboxErrorAlone** (for `RawReadsAreNoErrors`): with no other errors
the list is empty when the cycle receives, and then holds at most the error of the raw read, so that the oldest is the one to pop. With
other errors it is not (section 5).

It also proves `Refinement`: `Patient => (Spec => ImplementsChannel)`, where `Patient` says that the slave answers no commands,
never drops out and none of its answers is lost, as in the run `mailbox_channel` (without it a late reply is taken for the next one). **Waiting** says who awaits a reply: `write()` takes no request
while one is awaited, `cyclic_task` receives only then. **OnePlace** says that the query in transit is in one place at a time: in
the slave, in its reply, or in the buffer about to be handed over. A request leaves with `Load`, its reply arrives with `SetUnread`; all but
these and `Write` are stutters.

`TMCM1610_proofs` proves, for any number of configurations, any inputs, replies and capacity of the queue,

| theorem | statement |
|---|---|
| `ModuleTyped` | `Spec => []TypeOK`: in particular `mbx_send_queue` keeps its bound |
| `MovesOnlyWhenConfigured` | `Spec => []MovesWhenConfigured` |
| `WritesLastMode` | `Spec => WritesCommandMode` |
| `RepliesAreAwaited` | `MaxConfigures <= 1 => (Spec => []ReplyIsAwaited)` |

`MovesWhenConfigured` is not inductive: whether a state may move the axis depends on how it was reached. The invariant `IInv` adds **Staged**,
which ties each state to the tasks its plan has left and to what has been read by then, and says the same of the outputs the bus
sends, since a second `configure()` takes the outputs from there. The lemmas say what each function of the machine (`Enqueue`,
`Enter`, `Succeed`, `Fail`, the reactions, `Update`) keeps of it; the calls are compositions of them.

`RepliesAreAwaited` holds for one configuration only (finding 2). Its invariant **OneQuery** follows the query of a state that asks: it is
in the queue, in transit or answered, in one of these places at most, and no other state has one anywhere.

`AxisStartup_proofs` proves `StartupRefinement`: `MaxConfigures <= 1 => (Spec => ImplementsAxisStartup)`, with or without homing. **OnPlan** says
that while the axis is prepared its plan is what is left of `MotionPlan` from the module's state on; `TaskDone` walks through the tasks and shows
that only the steps from `HaltAxis` to `ZeroAxisPosition` ask for a reference, and that the last one leaves none to be asked for. **Halted** says that a
module that waits for a standstill puts out stop, for which `write()` must come between two calls of `read()`: with a second
configuration it need not.

`ClaimsResolver_proofs` proves, for any slaves and what they export, any claims of any joints, any transmissions, controllers and other hardware,

| theorem | statement |
|---|---|
| `TypeCorrect` | `Spec => []TypeOK` |
| `FirstClaimHasIt` | `Spec => []FirstClaimWins` |
| `AcceptedIsPerformed` | `Spec => []PreparedIsPerformed` |
| `OnlyNamedSwitch` | `Spec => OnlyNamedSlavesSwitch` |
| `HandlesLeadToClaims` | `Spec => []HandleLeadsToClaim`, if `NamesAreUnique` |
| `ModesAreOfClaims` | `Spec => []ModeMatchesClaims`, if `NamesAreUnique` |

from the assumptions `TrinamicAssumption` to `MaxStartAssumption`, which say what the constants are: finitely many joints, claims and interfaces
with names, slaves that have a name, and drives that export the interfaces of their module.

Four loops over sequences decide what the maps and modes are: over the interfaces of a slave, the claims of a joint, the joints, and the claims
of a switch. They are folds, and each has a lemma (`MapClaimFold`, `OfJointFold`, `HandlesFold`, `StartClaimFold`, `StartClaimsFold`) that
gives the sequence of intermediate results; what holds of them is then shown by bounded induction: the first of the claims that offer an
interface has it, and no other claim changes that (`OfJointIsFirst`); the values handed out so far are the first N, each once
(`AddJointAssigns`); a switch ends in a mode that all claims started agree to and that one of them has unless it was there before
(`StartedMode`). The library defines a fold by a recursive function that is chosen, without saying that there is one; `FoldExists` in `InductionLemmas`
constructs it and `FoldInOrder` shows what any such function yields. The five lemmas repeat one proof, because a lemma cannot be instantiated
with an operator.

The invariant `IInv` says that the maps are those `Export` made but for entries that lead to nobody (**MapsExported**: `operator[]` inserts them);
that the handles are one per interface, with the first N values each given to one of those behind transmissions (**HandlesExported**); that active
controllers claim disjoint sets of interfaces that exist, and that a prepared switch is still one the controller manager may
ask for. Looking interfaces up inserts entries for unknown names, so `perform` may look into another map than `prepare` did; `LookupTwice` and
`AnswersStay` say that nothing a slave answers by is changed by that.

`ModeMatchesClaims` speaks of all controllers that are active, while a switch tells a drive only what starts and stops. `StayingClaims` closes the
gap: what a controller that stays holds is not what one that stops has held. For that the names must lead back: two exported names never lead to
one interface (`TransmittedOnce`), which needs **NamesAreUnique**. It says that no two actuators drive a joint, that a joint driven by an
actuator has no claims of its own under the same name, and that other hardware does not use the names of this one's joints. The code looks
names up in unordered maps and checks none of this: a URDF that violates it makes two handles of one name, or sends a switch of another
hardware's interface to a drive. The instance of `claims` satisfies it (`UniqueNames`).

`SOEMDriver_proofs` proves, for any hardware description, any buses and mappings, any number of scans,

| theorem | statement |
|---|---|
| `DriverTyped` | `Spec => []TypeOK` |
| `MailboxBelongsToSlave` | `Spec => []MailboxOfOwnSlave` |
| `SlaveSetUpByItsDriver` | `Spec => []SetUpByDriver` |
| `FieldbusRefinement` | `Spec /\ DistinctNames => ImplementsFieldbusDriver` |

from the assumptions `NobodyAssumption` to `TransmissionAssumption` of the module. `TypedInv` adds to the types that as many bytes are mapped as the
image has (so that each byte delivered has a slave). `MailboxInv` has to relate lists that were appended to at different times:
positions given to modules are positions found (**CalledIsPlaced**), every entry found has its entry of data once the bus was started
(**AllHaveEntries**), and as long as the bus is the first one the entries found and those of the data are at the index of their
position (**OfThisBus**). `SetUpInv` follows the hooks, on any bus: the module in the store is the last one initialized at its position
(**HookOfLast**), for which a module must not be placed elsewhere by a later lookup; that holds since a lookup takes the first entry of a list that only
grows (**PlacedAtFirst**). That it also writes the slave's outputs last (`SetUpByDriver`) takes `SteadyInv`: its span is the slave's own. After a change
of the bus that fails, for its span may lie in an allocation given up. `DistinctNames` is needed: two slaves described under one name share a module. `SteadyInv` speaks of a bus that has not changed: the image is mapped as at the first start (**MappedOnce**), so that no later `resize` leaves its allocation; every
entry of data, those of earlier starts included, and so every module's buffers are the spans of its slave in the present allocations
(**EntriesHoldSpans**, **ModulesHoldSpans**), though a module is always given the first entry of its position, the one of the first start;
the inputs in the image are those of one cycle (**InputsOfOneCycle**); outputs nobody writes are what the bus has (**NobodyWrites**). The lemmas `WrittenAt`,
`DeliveredAt` and `SensedAt` turn spans into slaves, by the mapping of each byte to one slave; with them `Read` is `Sense`, `Write` is `Drive`, `StartBus` is
`Attach`, `Activate` and `Leave` are `Run`, `Halt`, `Detach` or stutters, a changed bus is `Lose`, and everything else is a stutter. That minima and maxima of bounded sets
exist rests on well-founded induction (`MinOfNaturals`, `MaxOfBounded` in `InductionLemmas`).

Only model-checked: liveness (`CallsReturn`, `CallbacksReturn`, `EveryQueryAnswered`, `StartupEnds`, `SpinningStops`, `QueuedIsPublished`), which is out of
the prover's reach, as is `ENABLED`. Every invariant, action property and refinement a run shows to hold is a theorem as well,
under the condition its table gives.

## 5. Findings

1. **A raw mailbox read takes "nothing" for a message** (`mailbox_unread`). For a raw read, `cyclic_task` accepts a result of 0
   (master:443): SOEM returns 0 also when it read nothing. A cleared buffer is then handed to the module as an unread message and the
   reply is no longer asked for. `soem_master.hpp:79` says the flag "indicates unread mailbox message in buffer".
2. **A second configuration can shut a healthy axis off** (`axis_reconfiguration`). `configure()` makes a new state machine but keeps the
   requests of the last one in `mbx_send_queue` and in transit, and `on_cleanup` only stops the publisher although
   `soem_driver/README.md:233` lists `deinit()` for it. The reply to the stale FIRMWARE_VERSION query reaches `ReadEncoderTicks`, which
   fails on it; the module stays in OffStop although the drive answered every query successfully.
3. **Stopping the publisher may hang** (`publisher_race`). `cancel()` lowers a flag that `spin()` raises when it starts. If the thread has
   not got there when `on_cleanup` cancels, it spins on and `join()` never returns. `SpinningStops` in `publisher` shows that this is
   the only way.

4. **After the bus has changed, modules work with the wrong slave** (`driver_reconfiguration`). `_slaves` (master:153) and `_slaves_data_access`
   (master:243) are appended to by every `on_configure` and never cleared. When a slave was added or removed between `on_cleanup` and
   `on_configure`, the lookups (driver:574, driver:629) find the entries of the first scan: the position an alias had then, and spans of the first
   mapping, possibly into memory `RxPDO_working.resize` (master:228) has freed. `soem_driver/README.md:219` says "driver: assigns PDOs to
   slave modules". The refinement in `driver` shows that nothing of this happens while bus and mapping stay the same.

Also seen, without a run of their own. What the passing properties exclude, and why:

* **The error of a raw read may stay and be counted.** After a raw read `cyclic_task` pops one error to "reset error raised by reading raw
  mailboxes" (master:456), "pop last error" (master:459). `ecx_poperror` (master:461) yields the oldest of the list; when another error was listed
  before, that one is popped and put back behind, and the error of the raw read is counted. `RawReadIsNoError` and the theorem therefore
  need `~OtherErrors`; with `OtherErrors = TRUE` TLC finds the invariant of `mailbox_channel` violated.
* **A request may be repeated although the slave got it, and a query then answered twice.** `send_mbx_request` is reset only if `ecx_mbxsend` succeeds
  (master:429); if the slave took the message and the answer was lost, it gets it again in the next cycle. `SentInOrder` allows just that. The
  second reply of a query stays in the slave and answers the next query, though master:453 says "only one req/rep in transit". The
  refinement therefore needs `MaxLost = 0`; with `MaxLost = 1` TLC finds `ImplementsChannel` violated.
* **A homing step may end before its request is sent.** `ZeroAxisPosition` enqueues the request to set the position and is left as soon as the
  position in the inputs is near 0 (tmcm1610:713), which may be so before; it then logs "Set Axis Position = 0 successfuly" (tmcm1610:715). The
  request may be executed during the next move. `AxisStartup` therefore says when a reference is asked for, not when it is set.
* **A failing on_activate leaves the publisher running.** `on_activate` does not catch the exception of `master.run()` (driver:906, master:303), and only
  `on_cleanup`, `on_shutdown` and the destructor stop the publisher. A component taken back to unconfigured keeps it, against
  `soem_driver/README.md:231-232`; a later `on_configure` takes it over if it spins, and if not, because ROS was shut down or the thread has not got
  there, assigns to a joinable thread (driver:375), which aborts the process. `SinglePublisher` shows that this is the only way.
* Nothing but the resource manager's lock keeps `stop()` from overtaking a `read()` or `write()` that
  has tested `cyclic_master_running` and not yet raised its request (master:549-552); that call then waits for the next activation.
* A module that refuses a second configuration stays in `initialized_slaves` (driver:595-613): it is read and written on, at the
  position it has just been given.
* The example in `soem_driver/README.md:43-54` has slaves at positions 0 and 1; positions on the bus start at 1 (master:153), so `controller_0`
  finds no slave and `controller_1` is the first one.
* `soem_driver/README.md:199` tells modules to set `fetch_mailbox`, which is commented out (slave:71); `mbx_enqueue_send` has parameters for it.
* The mock module's `init(parameters)` does not override `init(name, parameters)` of the interface (slave:87) and is never called.

## 6. What is not modelled

* Time: cycle deadlines, sleeping, timeouts inside SOEM. Their outcomes are choices.
* Memory ordering: all atomics are sequentially consistent in the code (default order), as in the models.
* Values: units, setpoints, what transmissions compute, contents of diagnostics. Where a value comes from and goes to is modelled.
* URDF and parameter parsing: it yields the constants of `ClaimsResolver` and `SOEMDriver`.
* The SDOs a setup hook writes: empty in this repository's modules. Which hook is called for which slave is modelled.
* The mock module but for the interfaces it exports; its calls do nothing.
* TMCL constants, byte-order helpers, the span type, build files.

## 7. Plan

In order of importance; 1-6 are done.

1. `SOEMMaster` with `ProcessImage`: the handshake and the lifecycle. Proved: all but liveness.
2. `Mailbox` with `MailboxChannel`. Proved: all but liveness.
3. `TMCM1610` with `AxisStartup`, `CommandMode`. Proved: all but liveness.
4. `ClaimsResolver` with `CommandMode`. Proved: everything, folds included.
5. `DiagnosticsPublisher`. Proved: all but liveness.
6. `SOEMDriver` with `FieldbusDriver`: modules, slaves, spans, hooks and transmissions over several configurations. Proved.
7. The byte-order helpers and the scaling of setpoints with their widths, against a reference definition over small widths.
