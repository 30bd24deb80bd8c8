------------------------------ MODULE TMCM1610 ------------------------------
(***************************************************************************)
(* The slave module of the Trinamic TMCM1610 servo drive: its state        *)
(* machine, driven by the calls read() and write() of the control loop,    *)
(* between the drive's process data and its mailbox.                       *)
(*                                                                         *)
(* A call of the module is one step: reacting to inputs, to at most one    *)
(* message, and the update are one thread's work.  The lifecycle callbacks *)
(* come between the calls of the loop.  The mailbox is that of             *)
(* MailboxChannel: one request in transit, replies in order.               *)
(*                                                                         *)
(* The hfsm2 machine is external.  Only the innermost active state is      *)
(* kept; a plan is a sequence of (origin, destination) tasks, done in      *)
(* order, each when its origin succeeds; a region whose plan is used up    *)
(* succeeds itself.                                                        *)
(***************************************************************************)
EXTENDS Naturals, Sequences, CommandMode

CONSTANTS
  HomingVelocity,   \* parameter homing_velocity_rpm is not zero
  HomingCurrent,    \* parameter homing_current_limit is not zero
  Firmware,         \* major firmware version the drive reports
  Status,           \* TMCL status the drive may reply with
  Inputs,           \* process data: sets of conditions that hold
  QueueCapacity,    \* of mbx_send_queue
  MaxConfigures     \* bound on the calls of configure()

\* What the states wait for in the process data.
Condition == {"no_timeout", "initialized", "current_limit", "halted",
              "position_reached", "position_zero"}

\* A zeroed image: no flag is set, the axis stands still in position 0.
ZeroInput == {"no_timeout", "halted", "position_zero"}

ASSUME HomingAssumption == HomingVelocity \in BOOLEAN /\ HomingCurrent \in BOOLEAN
ASSUME DriveAssumption == /\ Firmware \in {"1", "2"}
                          /\ Status \subseteq {"SUCCESS", "error"}
                          /\ Inputs \subseteq SUBSET Condition
ASSUME BoundsAssumption == QueueCapacity \in Nat \ {0} /\ MaxConfigures \in Nat

VARIABLES
  component,     \* lifecycle state of the driver
  initialized,   \* entries of the module in initialized_slaves
  turn, calls,   \* which call the control loop makes next
  module,        \* the members of the module
  command_mode,
  TxPDO,         \* conditions that hold in the inputs latched last
  RxPDO, image,  \* outputs of the module, and those the bus sends
  transit,       \* request write() took off the queue, and where it is
  unread         \* reply waiting in RMbx

vars == <<component, initialized, turn, calls, module, command_mode, TxPDO,
          RxPDO, image, transit, unread>>

Configuration == {"ReadFW", "ReadEncoderTicks", "ResetTimeout"}
MotionInit == {"Initialize", "HomeAxis", "HaltAxis", "BackoffAxis",
               "ZeroAxisPosition"}
Motion == {"Stop", "Effort", "Velocity", "Position"}
State == Configuration \cup MotionInit \cup Motion \cup {"OffStop"}

\* The mailbox request a state enqueues in its enter(): tmcm1610.cpp:376, 429,
\* 474 and 694.
Request == [ReadFW |-> "FIRMWARE_VERSION", ReadEncoderTicks |-> "GAP",
            ResetTimeout |-> "SAP_TIMEOUT", ZeroAxisPosition |-> "SAP_POSITION"]
Query == {"FIRMWARE_VERSION", "GAP"}
Requests == {Request[s] : s \in DOMAIN Request}

Reply == [request : Query, status : Status]
NoReply == [request |-> "none", status |-> "none"]
Transit == [request : Requests, at : {"driver", "slave", "lost"}]
NoTransit == [request |-> "none", at |-> "driver"]

\* What a state waits for in the inputs, in its react() to them, before it
\* succeeds: tmcm1610.cpp:490, 554, 595, 628, 664 and 710.
Awaited == [ResetTimeout |-> "no_timeout", Initialize |-> "initialized",
            HomeAxis |-> "current_limit", HaltAxis |-> "halted",
            BackoffAxis |-> "position_reached",
            ZeroAxisPosition |-> "position_zero"]

-----------------------------------------------------------------------------
(* The state machine, as functions of the module's members *)

\* Variant: the queries are sent without reading the encoder ticks.
ShortPlan == <<<<"ReadFW", "ResetTimeout">>>>

ConfigurationPlan == <<<<"ReadFW", "ReadEncoderTicks">>,
                       <<"ReadEncoderTicks", "ResetTimeout">>>>

Homing == HomingCurrent /\ HomingVelocity

\* Variant: the axis is referenced without halting it first.
HastyPlan == <<<<"Initialize", "HomeAxis">>, <<"HomeAxis", "ZeroAxisPosition">>,
               <<"ZeroAxisPosition", "BackoffAxis">>, <<"BackoffAxis", "HaltAxis">>,
               <<"HaltAxis", "ZeroAxisPosition">>, <<"ZeroAxisPosition", "Stop">>>>

\* The region MotionC starts in its state Stop.
MotionPlan ==
  IF Homing
  THEN <<<<"Initialize", "HaltAxis">>, <<"HaltAxis", "HomeAxis">>,
         <<"HomeAxis", "HaltAxis">>, <<"HaltAxis", "ZeroAxisPosition">>,
         <<"ZeroAxisPosition", "BackoffAxis">>, <<"BackoffAxis", "HaltAxis">>,
         <<"HaltAxis", "ZeroAxisPosition">>, <<"ZeroAxisPosition", "Stop">>>>
  ELSE <<<<"Initialize", "Stop">>>>

\* mbx_enqueue_send; nobody looks at its result.
Enqueue(m, request) ==
  IF Len(m.mbx_send_queue) < QueueCapacity
  THEN [m EXCEPT !.mbx_send_queue = Append(@, request)] ELSE m

\* Variant: the firmware version is asked for twice.
EnterTwice(m, state) ==
  LET entered == [m EXCEPT !.state = state]
  IN IF state = "ReadFW" THEN Enqueue(Enqueue(entered, Request[state]), Request[state])
     ELSE IF state \in DOMAIN Request THEN Enqueue(entered, Request[state])
     ELSE entered

\* Variant: queries are not sent.
EnterSilently(m, state) == [m EXCEPT !.state = state]

Enter(m, state) ==
  LET entered == [m EXCEPT !.state = state]
  IN IF state \in DOMAIN Request THEN Enqueue(entered, Request[state]) ELSE entered

\* control.succeed(): the next task of the plan, or the next region.
Succeed(m) ==
  CASE m.plan # <<>> /\ Head(m.plan)[1] = m.state ->
         Enter([m EXCEPT !.plan = Tail(@)], Head(m.plan)[2])
    [] m.plan # <<>> /\ Head(m.plan)[1] # m.state -> m
    [] m.plan = <<>> /\ m.state \in Configuration ->
         Enter([m EXCEPT !.plan = MotionPlan], "Initialize")
    [] OTHER -> Enter(m, "OffStop")

\* control.fail(): the plan of the region fails.
Fail(m) == Enter([m EXCEPT !.plan = <<>>], "OffStop")

ReactToRead(m, inputs) ==
  IF m.state \in DOMAIN Awaited /\ Awaited[m.state] \in inputs
  THEN Succeed(m) ELSE m

\* Variant: the status of the reply is taken for the version.
ReactToStatus(m, reply) ==
  IF reply = NoReply \/ m.state # "ReadFW" THEN m
  ELSE Succeed([m EXCEPT !.firmware_version = reply.status])

ReactToMessage(m, reply) ==
  IF reply = NoReply \/ m.state \notin {"ReadFW", "ReadEncoderTicks"} THEN m
  ELSE IF reply.status # "SUCCESS" \/ reply.request # Request[m.state] THEN Fail(m)
  ELSE IF m.state = "ReadFW"
       THEN Succeed([m EXCEPT !.firmware_version = Firmware])
       ELSE Succeed([m EXCEPT !.encoder_ticks = "known"])

\* MotionC::update changes to the state of the command mode.
Update(m) ==
  IF m.state \notin Motion THEN m
  ELSE [m EXCEPT !.state = CASE command_mode = "STOP" -> "Stop"
                             [] command_mode = "EFFORT" -> "Effort"
                             [] command_mode = "VELOCITY" -> "Velocity"
                             [] command_mode = "POSITION" -> "Position"]

\* What a state writes.  A command that is not finite makes the setpoint 0;
\* "retreat" is the negative homing velocity, 0 if none is configured.
ReactToWrite(m) ==
  CASE m.state = "Initialize" ->
         IF m.firmware_version = "2"
         THEN {[mode |-> "VELOCITY", setpoint |-> "retreat"]}
         ELSE {[mode |-> "INITIALIZE", setpoint |-> "zero"]}
    [] m.state = "HomeAxis" -> {[mode |-> "VELOCITY", setpoint |-> "home"]}
    [] m.state = "BackoffAxis" -> {[mode |-> "POSITION", setpoint |-> "backoff"]}
    [] m.state = "Effort" -> [mode : {"EFFORT"}, setpoint : {"zero", "command"}]
    [] m.state = "Velocity" -> [mode : {"VELOCITY"}, setpoint : {"zero", "command"}]
    [] m.state = "Position" -> [mode : {"POSITION"}, setpoint : {"zero", "command"}]
    [] OTHER -> {[mode |-> "STOP", setpoint |-> "zero"]}

StopOutput == [mode |-> "STOP", setpoint |-> "zero"]

-----------------------------------------------------------------------------
Init ==
  /\ component = "unconfigured" /\ initialized = 0
  /\ turn = "read" /\ calls = 0
  /\ module = [state |-> "ReadFW", plan |-> <<>>, mbx_send_queue |-> <<>>,
               firmware_version |-> "unread", encoder_ticks |-> "unread"]
  /\ command_mode = "STOP" /\ TxPDO = ZeroInput
  /\ RxPDO = StopOutput /\ image = StopOutput
  /\ transit = NoTransit /\ unread = NoReply

(* Lifecycle callbacks of the driver *)

BetweenCalls == calls = 0
MailboxUnchanged == UNCHANGED <<transit, unread>>

\* configure() makes a new state machine; it fails, or is not called, if the
\* slave on the bus is another one or missing.
ConfigureModule ==
  \/ /\ module' = Enter([module EXCEPT !.plan = ConfigurationPlan], "ReadFW")
     /\ initialized' = initialized + 1
  \/ UNCHANGED <<module, initialized>>

\* on_configure: master.init resets the slaves and their mailboxes (if it fails
\* nothing else happens), start_bus restarts from the process image.  If that
\* fails the resource manager decides on the state.
Configure ==
  /\ BetweenCalls /\ component = "unconfigured" /\ initialized < MaxConfigures
  /\ ConfigureModule
  /\ component' \in {"inactive", "unconfigured", "finalized"}
  /\ transit' = IF transit.at = "slave" THEN [transit EXCEPT !.at = "lost"] ELSE transit
  /\ RxPDO' = image
  /\ TxPDO' \in IF initialized = 0 THEN {ZeroInput} ELSE Inputs \cup {TxPDO}
  /\ UNCHANGED <<turn, calls, command_mode, image, unread>>

Lifecycle(from, to) ==
  /\ BetweenCalls /\ component = from /\ component' = to
  /\ MailboxUnchanged
  /\ UNCHANGED <<initialized, turn, calls, module, command_mode, TxPDO, RxPDO, image>>

Activate == Lifecycle("inactive", "active")
Deactivate == Lifecycle("active", "inactive")
Cleanup == Lifecycle("inactive", "unconfigured")
Shutdown == \E from \in {"unconfigured", "inactive", "active"} :
              Lifecycle(from, "finalized")

-----------------------------------------------------------------------------
(* The control loop *)

\* The driver calls the module once per entry in initialized_slaves.
Advance(next) ==
  IF calls + 1 < initialized
  THEN calls' = calls + 1 /\ UNCHANGED turn
  ELSE calls' = 0 /\ turn' = next

Called(at) == /\ turn = at /\ component \in {"inactive", "active"}
              /\ initialized > 0

\* read(): new inputs if the bus runs, the reply if there is one.
Read ==
  /\ Called("read") /\ Advance("write")
  /\ TxPDO' \in IF calls = 0 /\ component = "active" THEN Inputs ELSE {TxPDO}
  /\ module' = Update(ReactToMessage(ReactToRead(module, TxPDO'), unread))
  /\ unread' = NoReply
  /\ UNCHANGED <<component, initialized, command_mode, RxPDO, image, transit>>

\* perform_command_mode_switch, between read() and write().
SwitchMode ==
  /\ Called("write") /\ calls = 0
  /\ \E start \in {<<>>} \cup {<<c>> : c \in Claim}, stop \in SUBSET Claim :
       /\ command_mode' = NextMode(command_mode, start, stop)
       /\ command_mode' \in COMMAND_MODE
  /\ MailboxUnchanged
  /\ UNCHANGED <<component, initialized, turn, calls, module, TxPDO, RxPDO, image>>

\* Variant: the outputs are written before the update.
WriteThenUpdate(m) == ReactToWrite(module)

Outputs(m) == ReactToWrite(m)

\* write(): update and outputs of the module, then the driver takes a request
\* if none is in transit.  The last call transfers the outputs to the bus.
Write ==
  LET m == Update(module)
      take == transit = NoTransit /\ m.mbx_send_queue # <<>>
  IN /\ Called("write") /\ Advance("read")
     /\ RxPDO' \in Outputs(m)
     /\ image' = IF turn' = "read" /\ component = "active" THEN RxPDO' ELSE image
     /\ module' = IF take THEN [m EXCEPT !.mbx_send_queue = Tail(@)] ELSE m
     /\ transit' = IF take THEN [request |-> Head(m.mbx_send_queue), at |-> "driver"]
                   ELSE transit
     /\ UNCHANGED <<component, initialized, command_mode, TxPDO, unread>>

-----------------------------------------------------------------------------
(* The cyclic task and the drive, as far as the mailbox goes *)

DriverUnchanged == UNCHANGED <<component, initialized, turn, calls, module,
                               command_mode, TxPDO, RxPDO, image>>

\* A command is done with once it is sent, a query waits for its reply.
Send ==
  /\ component = "active" /\ transit # NoTransit /\ transit.at = "driver"
  /\ transit' = IF transit.request \in Query THEN [transit EXCEPT !.at = "slave"]
                ELSE NoTransit
  /\ DriverUnchanged /\ UNCHANGED unread

Receive ==
  /\ component = "active" /\ transit.at = "slave" /\ unread = NoReply
  /\ unread' \in [request : {transit.request}, status : Status]
  /\ transit' = NoTransit
  /\ DriverUnchanged

Finalized == component = "finalized" /\ UNCHANGED vars

ControlStep == Read \/ Write
CyclicStep == Send \/ Receive

Next == \/ Configure \/ Activate \/ Deactivate \/ Cleanup \/ Shutdown
        \/ SwitchMode \/ ControlStep \/ CyclicStep \/ Finalized

Spec == Init /\ [][Next]_vars

\* The control loop and the cyclic task run; the drive gets to where it is
\* told to, so the inputs a state waits for keep coming.
Progress == Read /\ module.state \in DOMAIN Awaited
                 /\ Awaited[module.state] \in TxPDO'
Fairness == WF_vars(ControlStep) /\ WF_vars(CyclicStep) /\ SF_vars(Progress)
FairSpec == Spec /\ Fairness

-----------------------------------------------------------------------------
(* Properties *)

Output == [mode : COMMAND_MODE \cup {"INITIALIZE"},
           setpoint : {"zero", "retreat", "home", "backoff", "command"}]

Module == [state : State, plan : Seq(State \X State),
           mbx_send_queue : Seq(Requests), firmware_version : {"unread", "1", "2"},
           encoder_ticks : {"unread", "known"}]

\* Type invariant: the send queue in particular stays within its capacity.
TypeOK ==
  /\ component \in {"unconfigured", "inactive", "active", "finalized"}
  /\ initialized \in 0..MaxConfigures /\ turn \in {"read", "write"}
  /\ calls \in 0..MaxConfigures
  /\ module \in Module /\ Len(module.mbx_send_queue) <= QueueCapacity
  /\ command_mode \in COMMAND_MODE /\ TxPDO \subseteq Condition
  /\ RxPDO \in Output /\ image \in Output
  /\ transit \in Transit \cup {NoTransit} /\ unread \in Reply \cup {NoReply}

\* The drive is told to do anything but stop only after its firmware version
\* and its encoder resolution, which setpoints are computed with, were read.
MovesWhenConfigured ==
  RxPDO.mode # "STOP" =>
    module.firmware_version # "unread" /\ module.encoder_ticks # "unread"

\* In the motion region what write() puts out is the mode the last switch
\* left, never that of an earlier cycle.
WritesCommandMode ==
  [][Write /\ module.state \in Motion => RxPDO'.mode = command_mode]_vars

\* A reply the module reads answers the query of the state it is in.
ReplyIsAwaited ==
  unread # NoReply =>
    module.state \in DOMAIN Request /\ unread.request = Request[module.state]

\* "configure driver for operation" (soem_driver/README.md:194): a drive that
\* answers every query successfully is not shut off.
ConfiguredForOperation == Status = {"SUCCESS"} => module.state # "OffStop"

Told(output) ==
  IF output.mode = "STOP" THEN "stop"
  ELSE IF output.mode = "INITIALIZE" \/ output.setpoint \in {"retreat", "home", "backoff"}
       THEN "move" ELSE "command"

\* The fourth and the seventh task of the plan ask for the position to be set:
\* ZeroAxisPosition enqueues the request when it is entered.
ReferencesAsked ==
  IF ~Homing \/ module.state \notin MotionInit \cup Motion THEN 0
  ELSE CASE Len(module.plan) > 4 -> 0
         [] Len(module.plan) \in 2..4 -> 1
         [] Len(module.plan) < 2 -> 2

Startup == INSTANCE AxisStartup WITH
  References <- IF Homing THEN 2 ELSE 0,
  phase      <- CASE module.state \in Configuration -> "configuring"
                  [] module.state \in MotionInit -> "preparing"
                  [] module.state \in Motion -> "motion"
                  [] module.state = "OffStop" -> "failed",
  asked      <- ReferencesAsked,
  output     <- Told(RxPDO)

\* The module puts out and asks for what AxisStartup says, in that order.
ImplementsAxisStartup == Startup!Spec

\* While the driver stays active, start-up of a configured module comes to an
\* end.
StartupEnds ==
  component = "active" /\ initialized > 0 ~> module.state \in Motion \cup {"OffStop"}
                            \/ component # "active"
=============================================================================
