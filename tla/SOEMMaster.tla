----------------------------- MODULE SOEMMaster -----------------------------
(***************************************************************************)
(* The EtherCAT master of the driver (soem_master.cpp) with the calls     *)
(* SOEMDriver makes to it.  Three threads share its members:              *)
(*                                                                         *)
(*   lifecycle  the thread running on_configure, on_activate, ...         *)
(*   control    the control loop calling SOEMDriver::read and ::write     *)
(*   cyclic     cyclic_task, spawned by run() and joined by stop()        *)
(*                                                                         *)
(* Each has a program counter; a step is one access to a shared member,   *)
(* and buffers are copied byte by byte.  Mailboxes are in Mailbox.tla.    *)
(***************************************************************************)
EXTENDS Naturals, Sequences

CONSTANTS Byte,        \* the bytes of a process data image
          Value,       \* the values of a byte
          Zero,        \* the value the IOmap is initialised with
          Output,      \* frames the slave modules compose
          Input,       \* frames the bus delivers
          Fault,       \* what can fail in a bus cycle
          Serialised   \* lifecycle callbacks and read()/write() exclude
                       \* each other (a lock of the resource manager)

Frame == [Byte -> Value]
ZeroFrame == [b \in Byte |-> Zero]

ASSUME ValueAssumption == Zero \in Value
ASSUME FrameAssumption == Output \subseteq Frame /\ Input \subseteq Frame
ASSUME FaultAssumption == Fault \subseteq {"tx", "rx", "other"}
ASSUME SerialisedAssumption == Serialised \in BOOLEAN

VARIABLES
  lifecycle, control, cyclic,   \* program counters of the three threads
  component,                    \* the hardware component's lifecycle state
  after,                        \* component state a running stop() leads to
  isInit,                       \* is_init
  running, terminate,           \* cyclic_master_running, cyclic_master_terminate
  status, statusQueue,          \* status and status_queue
  stateFlag,                    \* state_flag of cyclic_task
  RxPDO_transfer, TxPDO_transfer,
  RxPDO_working, RxPDO_IOmap,   \* outputs: control loop's and bus side
  TxPDO_working, TxPDO_IOmap,   \* inputs: control loop's and bus side
  copied,                       \* bytes std::copy of cyclic_task has copied
  touched,                      \* bytes the slave modules have accessed
  command,                      \* outputs the slave modules are writing
  sample,                       \* inputs the slave modules have read
  wire                          \* outputs the bus received last

flags == <<RxPDO_transfer, TxPDO_transfer>>
frames == <<RxPDO_working, RxPDO_IOmap, TxPDO_working, TxPDO_IOmap>>
local == <<copied, touched, command, sample>>
report == <<status, statusQueue>>
vars == <<lifecycle, control, cyclic, component, after, isInit, running,
          terminate, report, stateFlag, flags, frames, local, wire>>

MasterState == {"UNINITIALIZED", "INITIALIZED", "STARTING", "IDLE",
                "RUNNING", "ERROR"}

\* A status keeps which consecutive error counters are not zero.
Status == [state : MasterState, failing : SUBSET Fault]
StatusQueue == {<<>>} \cup {<<s>> : s \in Status}

Lifecycle == {"idle", "start_bus", "safe_op", "spawn", "join",
              "clear_running", "clear_terminate", "bus_down", "deinit"}
Control == {"idle", "tx_running", "tx_terminate", "tx_store", "tx_wait",
            "sample", "compose", "rx_running", "rx_terminate", "rx_store",
            "rx_wait"}
Cyclic == {"none", "start", "set_running", "check", "rx", "rx_copy", "bus",
           "tx", "tx_copy", "commit", "push", "exit", "exit_push", "done",
           "aborted"}
Component == {"unconfigured", "inactive", "active", "finalized", "destroyed"}

\* Variant: the queue grows beyond its capacity.
PushUnbounded(queue, s) == Append(queue, s)

\* status_queue holds one element; a push to a full queue is lost.
Push(queue, s) == IF queue = <<>> THEN <<s>> ELSE queue

\* The lifecycle thread reports a state only while no cyclic task runs.
Report(s) ==
  IF running THEN UNCHANGED report
  ELSE /\ status' = [status EXCEPT !.state = s]
       /\ statusQueue' = Push(statusQueue, status')

Init ==
  /\ lifecycle = "idle" /\ control = "idle" /\ cyclic = "none"
  /\ component = "unconfigured" /\ after = "unconfigured"
  /\ isInit = FALSE /\ running = FALSE /\ terminate = FALSE
  /\ status = [state |-> "UNINITIALIZED", failing |-> {}]
  /\ statusQueue = <<>> /\ stateFlag = "RUNNING"
  /\ RxPDO_transfer = FALSE /\ TxPDO_transfer = FALSE
  /\ RxPDO_working = ZeroFrame /\ RxPDO_IOmap = ZeroFrame
  /\ TxPDO_working = ZeroFrame /\ TxPDO_IOmap = ZeroFrame
  /\ copied = {} /\ touched = {}
  /\ command = ZeroFrame /\ sample = ZeroFrame /\ wire = ZeroFrame

-----------------------------------------------------------------------------
(* The lifecycle thread *)

CallbackAllowed == /\ lifecycle = "idle"
                   /\ Serialised => control = "idle"

\* on_configure: SOEMMaster::init succeeds.
InitMaster ==
  /\ CallbackAllowed /\ component = "unconfigured"
  /\ Report("INITIALIZED")
  /\ isInit' = TRUE
  /\ lifecycle' = "start_bus"
  /\ UNCHANGED <<control, cyclic, component, after, running, terminate,
                 stateFlag, flags, frames, local, wire>>

\* start_bus: map the IOmap and copy it into the working sets.
StartBus ==
  /\ lifecycle = "start_bus"
  /\ Report("STARTING")
  /\ RxPDO_working' = RxPDO_IOmap /\ TxPDO_working' = TxPDO_IOmap
  /\ command' = RxPDO_IOmap
  /\ lifecycle' = "safe_op"
  /\ UNCHANGED <<control, cyclic, component, after, isInit, running,
                 terminate, stateFlag, flags, RxPDO_IOmap, TxPDO_IOmap,
                 copied, touched, sample, wire>>

ReachSafeOp ==
  /\ lifecycle = "safe_op"
  /\ lifecycle' = "idle" /\ component' = "inactive"
  /\ UNCHANGED <<control, cyclic, after, isInit, running, terminate, report,
                 stateFlag, flags, frames, local, wire>>

\* start_bus throws: on_configure returns ERROR and the resource manager
\* runs on_error, which the driver leaves to its default.
MissSafeOp ==
  /\ lifecycle = "safe_op"
  /\ Report("ERROR")
  /\ lifecycle' = "idle"
  /\ component' \in {"unconfigured", "finalized"}
  /\ UNCHANGED <<control, cyclic, after, isInit, running, terminate,
                 stateFlag, flags, frames, local, wire>>

\* on_activate: run() brings the bus to OP, exchanging process data.
BusUpExchange ==
  /\ CallbackAllowed /\ component = "inactive"
  /\ wire' = RxPDO_IOmap
  /\ TxPDO_IOmap' \in Input \cup {TxPDO_IOmap}
  /\ UNCHANGED <<control, cyclic, after, isInit, running, terminate,
                 stateFlag, flags, RxPDO_working, RxPDO_IOmap,
                 TxPDO_working, local>>

ReachOp ==
  /\ BusUpExchange
  /\ Report("IDLE")
  /\ lifecycle' = "spawn"
  /\ UNCHANGED component

\* bus_up_OP throws out of on_activate, which does not catch it.
MissOp ==
  /\ BusUpExchange
  /\ Report("ERROR")
  /\ component' \in {"unconfigured", "inactive", "finalized"}
  /\ UNCHANGED lifecycle

\* run() assigns to the std::thread: a joinable one ends the process.
Spawn ==
  /\ lifecycle = "spawn"
  /\ terminate' = FALSE
  /\ cyclic' = IF cyclic = "none" THEN "start" ELSE "aborted"
  /\ lifecycle' = "idle" /\ component' = "active"
  /\ UNCHANGED <<control, after, isInit, running, report, stateFlag, flags,
                 frames, local, wire>>

\* Variant: stop() does not wait for the thread.
StopDetached(target) ==
  /\ after' = target
  /\ terminate' = (cyclic # "none") /\ lifecycle' = "clear_running"
  /\ UNCHANGED <<control, cyclic, component, isInit, running, report,
                 stateFlag, flags, frames, local, wire>>

\* stop(): ask a joinable thread to terminate and join it, ...
Stop(target) ==
  /\ after' = target
  /\ IF cyclic # "none"
     THEN terminate' = TRUE /\ lifecycle' = "join"
     ELSE UNCHANGED terminate /\ lifecycle' = "clear_running"
  /\ UNCHANGED <<control, cyclic, component, isInit, running, report,
                 stateFlag, flags, frames, local, wire>>

Deactivate == CallbackAllowed /\ component = "active" /\ Stop("inactive")
Shutdown == /\ CallbackAllowed
            /\ component \in {"unconfigured", "inactive", "active"}
            /\ Stop("finalized")
\* The destructor runs once the control loop no longer uses the driver.
Destroy == /\ CallbackAllowed /\ control = "idle"
           /\ component # "destroyed"
           /\ Stop("destroyed")

Join ==
  /\ lifecycle = "join" /\ cyclic = "done"
  /\ cyclic' = "none" /\ lifecycle' = "clear_running"
  /\ UNCHANGED <<control, component, after, isInit, running, terminate,
                 report, stateFlag, flags, frames, local, wire>>

\* ... then reset the flags and bring the bus down.
ClearRunning ==
  /\ lifecycle = "clear_running"
  /\ running' = FALSE /\ lifecycle' = "clear_terminate"
  /\ UNCHANGED <<control, cyclic, component, after, isInit, terminate,
                 report, stateFlag, flags, frames, local, wire>>

\* Variant: the terminate flag stays set.
KeepTerminate ==
  /\ lifecycle = "clear_terminate" /\ lifecycle' = "bus_down"
  /\ UNCHANGED <<control, cyclic, component, after, isInit, running,
                 terminate, report, stateFlag, flags, frames, local, wire>>

ClearTerminate ==
  /\ lifecycle = "clear_terminate"
  /\ terminate' = FALSE /\ lifecycle' = "bus_down"
  /\ UNCHANGED <<control, cyclic, component, after, isInit, running, report,
                 stateFlag, flags, frames, local, wire>>

BusDown ==
  /\ lifecycle = "bus_down"
  /\ IF isInit THEN Report("INITIALIZED") ELSE UNCHANGED report
  /\ IF after = "destroyed"
     THEN lifecycle' = "deinit" /\ UNCHANGED component
     ELSE lifecycle' = "idle" /\ component' = after
  /\ after' = IF after = "destroyed" THEN after ELSE "unconfigured"
  /\ UNCHANGED <<control, cyclic, isInit, running, terminate,
                 stateFlag, flags, frames, local, wire>>

\* Rest of deinit(); it brings the bus down a second time.
Deinit ==
  /\ lifecycle = "deinit"
  /\ statusQueue' = IF isInit /\ ~running
                    THEN Push(statusQueue, [status EXCEPT !.state = "INITIALIZED"])
                    ELSE statusQueue
  /\ status' = [status EXCEPT !.state = "UNINITIALIZED"]
  /\ lifecycle' = "idle" /\ component' = "destroyed"
  /\ UNCHANGED <<control, cyclic, after, isInit, running, terminate,
                 stateFlag, flags, frames, local, wire>>

\* on_cleanup calls nothing of the master.
Cleanup ==
  /\ CallbackAllowed /\ component = "inactive"
  /\ component' = "unconfigured"
  /\ UNCHANGED <<lifecycle, control, cyclic, after, isInit, running,
                 terminate, report, stateFlag, flags, frames, local, wire>>

Callback == InitMaster \/ ReachOp \/ MissOp \/ Deactivate \/ Shutdown
              \/ Destroy \/ Cleanup
LifecycleStep == StartBus \/ ReachSafeOp \/ MissSafeOp \/ Spawn \/ Join
                   \/ ClearRunning \/ ClearTerminate \/ BusDown \/ Deinit

-----------------------------------------------------------------------------
(* The cyclic task *)

CyclicUnchanged == UNCHANGED <<lifecycle, control, component, after, isInit,
                               terminate, touched, command, sample>>

Start ==
  /\ cyclic = "start" /\ cyclic' = "set_running"
  /\ running' = TRUE
  /\ CyclicUnchanged
  /\ UNCHANGED <<report, stateFlag, flags, frames, copied, wire>>

SetRunning ==
  /\ cyclic = "set_running" /\ cyclic' = "check"
  /\ stateFlag' = "RUNNING"
  /\ status' = [state |-> "RUNNING", failing |-> {}]
  /\ CyclicUnchanged
  /\ UNCHANGED <<running, statusQueue, flags, frames, copied, wire>>

\* Variant: the loop never ends.
IgnoreTerminate ==
  /\ cyclic = "check" /\ cyclic' = "rx" /\ stateFlag' = "RUNNING"
  /\ CyclicUnchanged
  /\ UNCHANGED <<running, report, flags, frames, copied, wire>>

CheckTerminate ==
  /\ cyclic = "check"
  /\ IF terminate
     THEN cyclic' = "exit" /\ UNCHANGED stateFlag
     ELSE cyclic' = "rx" /\ stateFlag' = "RUNNING"
  /\ CyclicUnchanged
  /\ UNCHANGED <<running, report, flags, frames, copied, wire>>

\* Test of a transfer flag: copy if it is set, carry on otherwise.
TestFlag(at, flag, copy, skip) ==
  /\ cyclic = at
  /\ cyclic' = IF flag THEN copy ELSE skip
  /\ CyclicUnchanged
  /\ UNCHANGED <<running, report, stateFlag, flags, frames, copied, wire>>

TestRx == TestFlag("rx", RxPDO_transfer, "rx_copy", "bus")
TestTx == TestFlag("tx", TxPDO_transfer, "tx_copy", "commit")

CopyRx ==
  /\ cyclic = "rx_copy"
  /\ \E b \in Byte \ copied :
       /\ RxPDO_IOmap' = [RxPDO_IOmap EXCEPT ![b] = RxPDO_working[b]]
       /\ copied' = copied \cup {b}
  /\ CyclicUnchanged
  /\ UNCHANGED <<cyclic, running, report, stateFlag, flags, RxPDO_working,
                 TxPDO_working, TxPDO_IOmap, wire>>

\* Variant: the request is taken back before the copy is complete.
ReleaseRxEarly ==
  /\ cyclic = "rx_copy" /\ cyclic' = "bus"
  /\ RxPDO_transfer' = FALSE /\ copied' = {}
  /\ CyclicUnchanged
  /\ UNCHANGED <<running, report, stateFlag, TxPDO_transfer, frames, wire>>

ReleaseRx ==
  /\ cyclic = "rx_copy" /\ copied = Byte /\ cyclic' = "bus"
  /\ RxPDO_transfer' = FALSE /\ copied' = {}
  /\ CyclicUnchanged
  /\ UNCHANGED <<running, report, stateFlag, TxPDO_transfer, frames, wire>>

\* Send and receive process data; a failure shows in the error counters.
ExchangeProcessData ==
  /\ cyclic = "bus" /\ cyclic' = "tx"
  /\ \E failed \in SUBSET (Fault \cap {"tx", "rx"}) :
       /\ wire' = IF "tx" \in failed THEN wire ELSE RxPDO_IOmap
       /\ TxPDO_IOmap' \in IF "rx" \in failed
                           THEN Input \cup {TxPDO_IOmap} ELSE Input
       /\ status' = [status EXCEPT
                       !.failing = (@ \cap {"other"}) \cup failed]
       /\ stateFlag' = IF failed = {} THEN stateFlag ELSE "ERROR"
  /\ CyclicUnchanged
  /\ UNCHANGED <<running, statusQueue, flags, RxPDO_working, RxPDO_IOmap,
                 TxPDO_working, copied>>

CopyTx ==
  /\ cyclic = "tx_copy"
  /\ \E b \in Byte \ copied :
       /\ TxPDO_working' = [TxPDO_working EXCEPT ![b] = TxPDO_IOmap[b]]
       /\ copied' = copied \cup {b}
  /\ CyclicUnchanged
  /\ UNCHANGED <<cyclic, running, report, stateFlag, flags, RxPDO_working,
                 RxPDO_IOmap, TxPDO_IOmap, wire>>

\* Variant: the request is not taken back.
KeepTx ==
  /\ cyclic = "tx_copy" /\ copied = Byte /\ cyclic' = "commit"
  /\ copied' = {}
  /\ CyclicUnchanged
  /\ UNCHANGED <<running, report, stateFlag, flags, frames, wire>>

ReleaseTx ==
  /\ cyclic = "tx_copy" /\ copied = Byte /\ cyclic' = "commit"
  /\ TxPDO_transfer' = FALSE /\ copied' = {}
  /\ CyclicUnchanged
  /\ UNCHANGED <<running, report, stateFlag, RxPDO_transfer, frames, wire>>

\* Variant: other errors are counted but do not make the cycle an ERROR.
CommitOptimistic ==
  /\ cyclic = "commit" /\ cyclic' = "push"
  /\ \E failed \in SUBSET (Fault \cap {"other"}) :
       status' = [state |-> stateFlag,
                  failing |-> (status.failing \ {"other"}) \cup failed]
  /\ CyclicUnchanged
  /\ UNCHANGED <<running, stateFlag, statusQueue, flags, frames, copied, wire>>

\* Count the errors SOEM reports otherwise and commit the cycle's state.
Commit ==
  /\ cyclic = "commit" /\ cyclic' = "push"
  /\ \E failed \in SUBSET (Fault \cap {"other"}) :
       /\ stateFlag' = IF failed = {} THEN stateFlag ELSE "ERROR"
       /\ status' = [state |-> stateFlag',
                     failing |-> (status.failing \ {"other"}) \cup failed]
  /\ CyclicUnchanged
  /\ UNCHANGED <<running, statusQueue, flags, frames, copied, wire>>

PushStatus ==
  /\ cyclic = "push" /\ cyclic' = "check"
  /\ statusQueue' = Push(statusQueue, status)
  /\ CyclicUnchanged
  /\ UNCHANGED <<running, status, stateFlag, flags, frames, copied, wire>>

Exit ==
  /\ cyclic = "exit" /\ cyclic' = "exit_push"
  /\ running' = FALSE
  /\ CyclicUnchanged
  /\ UNCHANGED <<report, stateFlag, flags, frames, copied, wire>>

ExitPush ==
  /\ cyclic = "exit_push" /\ cyclic' = "done"
  /\ status' = [status EXCEPT !.state = "IDLE"]
  /\ statusQueue' = Push(statusQueue, status')
  /\ CyclicUnchanged
  /\ UNCHANGED <<running, stateFlag, flags, frames, copied, wire>>

CyclicStep == \/ Start \/ SetRunning \/ CheckTerminate
              \/ TestRx \/ CopyRx \/ ReleaseRx \/ ExchangeProcessData
              \/ TestTx \/ CopyTx \/ ReleaseTx
              \/ Commit \/ PushStatus \/ Exit \/ ExitPush

-----------------------------------------------------------------------------
(* The control loop *)

ControlUnchanged == UNCHANGED <<lifecycle, cyclic, component, after, isInit,
                                running, terminate, report, stateFlag,
                                RxPDO_IOmap, TxPDO_working, TxPDO_IOmap,
                                copied, wire>>

\* The resource manager calls read() and write() of a configured component.
CallAllowed == /\ control = "idle"
               /\ component \in {"inactive", "active"}
               /\ Serialised => lifecycle = "idle"

Read ==
  /\ CallAllowed
  /\ control' = "tx_running"
  /\ ControlUnchanged /\ UNCHANGED <<flags, RxPDO_working, touched, command,
                                     sample>>

\* write(): the slave modules start writing a new set of outputs.
Write ==
  /\ CallAllowed
  /\ control' = "compose" /\ command' \in Output
  /\ ControlUnchanged /\ UNCHANGED <<flags, RxPDO_working, touched, sample>>

Goto(at, next) ==
  /\ control = at /\ control' = next
  /\ ControlUnchanged /\ UNCHANGED <<RxPDO_working, command, sample>>

\* Variant: a transfer does not ask whether the cyclic task runs.
AssumeRunning ==
  /\ UNCHANGED <<touched, flags>>
  /\ Goto("tx_running", "tx_terminate") \/ Goto("rx_running", "rx_terminate")

\* transfer_TxPDO / transfer_RxPDO: load both flags one after the other ...
LoadRunning ==
  /\ UNCHANGED <<touched, flags>>
  /\ \/ Goto("tx_running", IF running THEN "tx_terminate" ELSE "sample")
     \/ Goto("rx_running", IF running THEN "rx_terminate" ELSE "idle")
LoadTerminate ==
  /\ UNCHANGED <<touched, flags>>
  /\ \/ Goto("tx_terminate", IF terminate THEN "sample" ELSE "tx_store")
     \/ Goto("rx_terminate", IF terminate THEN "idle" ELSE "rx_store")
\* Variant: a transfer does not wait for the copy.
RequestOnly ==
  /\ UNCHANGED touched
  /\ \/ /\ Goto("tx_store", "sample")
        /\ TxPDO_transfer' = TRUE /\ UNCHANGED RxPDO_transfer
     \/ /\ Goto("rx_store", "idle")
        /\ RxPDO_transfer' = TRUE /\ UNCHANGED TxPDO_transfer

\* ... raise the request and wait for cyclic_task to take it back.
Request ==
  /\ UNCHANGED touched
  /\ \/ /\ Goto("tx_store", "tx_wait")
        /\ TxPDO_transfer' = TRUE /\ UNCHANGED RxPDO_transfer
     \/ /\ Goto("rx_store", "rx_wait")
        /\ RxPDO_transfer' = TRUE /\ UNCHANGED TxPDO_transfer
Resume ==
  /\ UNCHANGED <<touched, flags>>
  /\ \/ ~TxPDO_transfer /\ Goto("tx_wait", "sample")
     \/ ~RxPDO_transfer /\ Goto("rx_wait", "idle")

\* The slave modules' read() and write() access their part of the buffers.
ReadByte ==
  /\ control = "sample"
  /\ \E b \in Byte \ touched :
       /\ sample' = [sample EXCEPT ![b] = TxPDO_working[b]]
       /\ touched' = touched \cup {b}
  /\ ControlUnchanged /\ UNCHANGED <<control, flags, RxPDO_working, command>>
ReadReturn == touched = Byte /\ Goto("sample", "idle")
                /\ touched' = {} /\ UNCHANGED flags
WriteByte ==
  /\ control = "compose"
  /\ \E b \in Byte \ touched :
       /\ RxPDO_working' = [RxPDO_working EXCEPT ![b] = command[b]]
       /\ touched' = touched \cup {b}
  /\ ControlUnchanged /\ UNCHANGED <<control, flags, command, sample>>
WriteDone == touched = Byte /\ Goto("compose", "rx_running")
               /\ touched' = {} /\ UNCHANGED flags

ControlCall == Read \/ Write
ControlStep == \/ LoadRunning \/ LoadTerminate \/ Request \/ Resume
               \/ ReadByte \/ ReadReturn \/ WriteByte \/ WriteDone

-----------------------------------------------------------------------------
\* The diagnostics publisher's timer drains the queue.
ConsumeStatus ==
  /\ statusQueue # <<>> /\ component # "destroyed"
  /\ statusQueue' = <<>>
  /\ UNCHANGED <<lifecycle, control, cyclic, component, after, isInit,
                 running, terminate, status, stateFlag, flags, frames, local,
                 wire>>

\* Nothing is left to do once the driver is destroyed.
Destroyed == /\ component = "destroyed" /\ lifecycle = "idle"
             /\ UNCHANGED vars

Next == \/ Callback \/ LifecycleStep \/ CyclicStep
        \/ ControlCall \/ ControlStep \/ ConsumeStatus \/ Destroyed

Spec == Init /\ [][Next]_vars

\* Threads are scheduled; nobody is obliged to call the driver.
Fairness == WF_vars(LifecycleStep) /\ WF_vars(CyclicStep) /\ WF_vars(ControlStep)
FairSpec == Spec /\ Fairness

-----------------------------------------------------------------------------
(* Properties *)

\* Type invariant of the members, buffers and program counters.
TypeOK ==
  /\ lifecycle \in Lifecycle /\ control \in Control /\ cyclic \in Cyclic
  /\ component \in Component /\ after \in Component
  /\ isInit \in BOOLEAN /\ running \in BOOLEAN /\ terminate \in BOOLEAN
  /\ status \in Status /\ statusQueue \in StatusQueue
  /\ stateFlag \in {"RUNNING", "ERROR"}
  /\ RxPDO_transfer \in BOOLEAN /\ TxPDO_transfer \in BOOLEAN
  /\ RxPDO_working \in Frame /\ RxPDO_IOmap \in Frame
  /\ TxPDO_working \in Frame /\ TxPDO_IOmap \in Frame
  /\ copied \subseteq Byte /\ touched \subseteq Byte
  /\ command \in Frame /\ sample \in Frame /\ wire \in Frame

\* The cyclic task is in or before its loop: it tests the transfer flags again.
InLoop == cyclic \in {"set_running", "check", "rx", "rx_copy", "bus", "tx", "tx_copy",
                      "commit", "push"}
Alive == InLoop \/ cyclic \in {"start", "exit", "exit_push"}

\* The working sets are plain vectors without a lock: cyclic_task copies one
\* only while the slave modules keep their hands off it.
TransferExclusive ==
  /\ cyclic = "rx_copy" => control = "rx_wait"
  /\ cyclic = "tx_copy" => control = "tx_wait"

\* When callbacks exclude read() and write(), whoever waits for a transfer
\* has a cyclic task that is looping and was not asked to terminate.
NoOrphanWait ==
  Serialised =>
    /\ control = "rx_wait" /\ RxPDO_transfer => InLoop /\ ~terminate
    /\ control = "tx_wait" /\ TxPDO_transfer => InLoop /\ ~terminate

\* status and status_queue (single producer) are written by the lifecycle
\* thread only while no cyclic task is alive ("guard against races").
SingleStatusWriter ==
  lifecycle \in {"start_bus", "safe_op", "spawn", "clear_running",
                 "clear_terminate", "bus_down", "deinit"} => ~Alive

\* Between callbacks the master runs exactly while the component is active:
\* a stopped master keeps no thread, no flag and no pending request.
StoppedIsClean ==
  lifecycle = "idle" =>
    IF component = "active" THEN Alive
    ELSE /\ cyclic = "none" /\ ~running /\ ~terminate
         /\ Serialised => ~RxPDO_transfer /\ ~TxPDO_transfer

\* A queued status says RUNNING only if no consecutive error is being counted.
RunningIsHealthy ==
  \A i \in DOMAIN statusQueue :
    statusQueue[i].state = "RUNNING" => statusQueue[i].failing = {}

\* A transfer request is taken back only once the whole frame has arrived.
WholeFrameReleased ==
  [][ /\ RxPDO_transfer /\ ~RxPDO_transfer' => RxPDO_IOmap' = RxPDO_working'
      /\ TxPDO_transfer /\ ~TxPDO_transfer' => TxPDO_working' = TxPDO_IOmap'
    ]_vars

\* A pending transfer counts as done when its copy starts: the control loop
\* is waiting, so nobody can tell.  The same holds for a frame being read.
Image == INSTANCE ProcessImage WITH
           NoFrame <- ZeroFrame,
           image   <- IF cyclic = "rx_copy" THEN RxPDO_working ELSE RxPDO_IOmap,
           input   <- TxPDO_IOmap,
           latched <- IF cyclic = "tx_copy" THEN TxPDO_IOmap ELSE TxPDO_working,
           seen    <- IF control = "sample" THEN TxPDO_working ELSE sample

\* The master exchanges whole frames only: outputs reach the bus as the slave
\* modules composed them, inputs reach the modules as the bus delivered them.
ImplementsProcessImage == Image!Spec

\* read() and write() return: no transfer waits forever.
CallsReturn == control # "idle" ~> control = "idle"

\* Every lifecycle callback returns; stop() in particular joins the thread.
CallbacksReturn == lifecycle # "idle" ~> lifecycle = "idle"

-----------------------------------------------------------------------------
(* Inductive invariants *)

\* Who may be where: the thread lives while the component is active, from
\* run() to the join in stop(); both flags follow from its program counter.
Threads ==
  /\ running <=> InLoop \/ cyclic = "exit"
  /\ cyclic # "aborted"
  /\ cyclic \in {"exit", "exit_push", "done"} => lifecycle = "join"
  /\ lifecycle = "idle" =>
       /\ ~terminate
       /\ component # "active" => cyclic = "none"
       /\ component = "active" => cyclic # "none"
  /\ lifecycle = "join" => terminate /\ cyclic # "none"
  /\ lifecycle \notin {"idle", "join"} => cyclic = "none"
  /\ lifecycle \in {"start_bus", "safe_op", "spawn", "bus_down", "deinit"} => ~terminate
  /\ lifecycle \in {"start_bus", "safe_op"} => component = "unconfigured"
  /\ lifecycle \in {"join", "clear_running", "clear_terminate", "bus_down", "deinit"} =>
       after \in {"inactive", "finalized", "destroyed"}
  /\ lifecycle = "deinit" => after = "destroyed"

\* A raised request is waited for, and a copy runs only during that wait.
Handshake ==
  /\ RxPDO_transfer => control = "rx_wait"
  /\ TxPDO_transfer => control = "tx_wait"
  /\ cyclic = "rx_copy" => RxPDO_transfer
  /\ cyclic = "tx_copy" => TxPDO_transfer

\* With callbacks and calls excluding each other, a transfer under way has a
\* running cyclic task.
Exclusion ==
  Serialised =>
    /\ lifecycle = "idle" \/ control = "idle"
    /\ control \in {"tx_terminate", "tx_store", "rx_terminate", "rx_store"} => running
    /\ RxPDO_transfer \/ TxPDO_transfer => running

\* What a partly done copy of cyclic_task has achieved.
Copying ==
  /\ cyclic \notin {"rx_copy", "tx_copy"} => copied = {}
  /\ cyclic = "rx_copy" => \A b \in copied : RxPDO_IOmap[b] = RxPDO_working[b]
  /\ cyclic = "tx_copy" => \A b \in copied : TxPDO_working[b] = TxPDO_IOmap[b]

\* The same for the slave modules, and that their outputs stay as composed.
Copies ==
  /\ Copying
  /\ control \notin {"sample", "compose"} => touched = {}
  /\ control = "compose" => \A b \in touched : RxPDO_working[b] = command[b]
  /\ control = "sample" => \A b \in touched : sample[b] = TxPDO_working[b]
  /\ control \in {"rx_running", "rx_terminate", "rx_store", "rx_wait"} =>
       RxPDO_working = command

\* Where cyclic_task is within a cycle, what it is about to report fits the
\* errors it has counted so far.
Counted ==
  /\ cyclic \in {"tx", "tx_copy", "commit"} /\ stateFlag = "RUNNING" =>
       status.failing \subseteq {"other"}
  /\ cyclic = "push" /\ status.state = "RUNNING" => status.failing = {}
=============================================================================
