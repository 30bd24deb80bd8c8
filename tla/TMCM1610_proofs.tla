-------------------------- MODULE TMCM1610_proofs --------------------------
(***************************************************************************)
(* For any number of configurations and any capacity of the send queue:    *)
(* the module keeps its types, the queue its bound, and the axis is not    *)
(* moved before its configuration was read.                                *)
(***************************************************************************)
EXTENDS TMCM1610, TLAPS

ModuleOK(m) == m \in Module /\ Len(m.mbx_send_queue) <= QueueCapacity

\* What was read of the drive is kept: nothing resets it.
Known(m) == m.firmware_version # "unread" /\ m.encoder_ticks # "unread"

\* The tasks left tell what has been read in each state.
Staged(m) ==
  /\ m.state = "ReadFW" => m.plan = ConfigurationPlan
  /\ m.state = "ReadEncoderTicks" =>
       /\ m.plan = <<<<"ReadEncoderTicks", "ResetTimeout">>>>
       /\ m.firmware_version # "unread"
  /\ m.state = "ResetTimeout" => m.plan = <<>> /\ Known(m)
  /\ m.state \in MotionInit \cup Motion =>
       Known(m) /\ m.plan \in Seq(State \X (MotionInit \cup {"Stop"}))

Fresh(m) == m.state = "ReadFW" /\ m.plan = <<>>

IInv ==
  /\ TypeOK
  /\ Staged(module) \/ (initialized = 0 /\ Fresh(module))
  /\ RxPDO.mode # "STOP" \/ image.mode # "STOP" => Known(module)
  /\ transit.at = "slave" => transit.request \in Query

-----------------------------------------------------------------------------
(* The functions the calls are made of *)

\* mbx_enqueue_send keeps the bound of the queue and touches nothing else.
LEMMA EnqueueKeeps ==
  ASSUME NEW m \in Module, ModuleOK(m), NEW r \in Requests
  PROVE  /\ ModuleOK(Enqueue(m, r))
         /\ Enqueue(m, r).state = m.state /\ Enqueue(m, r).plan = m.plan
         /\ Enqueue(m, r).firmware_version = m.firmware_version
         /\ Enqueue(m, r).encoder_ticks = m.encoder_ticks
<1> DEFINE q == Append(m.mbx_send_queue, r)
<1>1. m.mbx_send_queue \in Seq(Requests) BY DEF Module
<1>2. q \in Seq(Requests) /\ Len(q) = Len(m.mbx_send_queue) + 1 BY <1>1
<1>3. Len(m.mbx_send_queue) \in Nat BY <1>1
<1>4. CASE Len(m.mbx_send_queue) < QueueCapacity
  <2>1. Enqueue(m, r) = [m EXCEPT !.mbx_send_queue = q]
    BY <1>4 DEF Enqueue
  <2>2. Len(q) <= QueueCapacity BY <1>2, <1>3, <1>4, BoundsAssumption
  <2> HIDE DEF q
  <2> QED BY <1>2, <2>1, <2>2 DEF ModuleOK, Module
<1>5. CASE ~(Len(m.mbx_send_queue) < QueueCapacity)
  BY <1>5 DEF Enqueue
<1> QED BY <1>4, <1>5

\* Entering a state changes the state and, at most, the queue.
LEMMA EnterKeeps ==
  ASSUME NEW m \in Module, ModuleOK(m), NEW s \in State
  PROVE  /\ ModuleOK(Enter(m, s))
         /\ Enter(m, s).state = s /\ Enter(m, s).plan = m.plan
         /\ Enter(m, s).firmware_version = m.firmware_version
         /\ Enter(m, s).encoder_ticks = m.encoder_ticks
<1> DEFINE n == [m EXCEPT !.state = s]
<1>1. /\ n \in Module /\ ModuleOK(n) /\ n.state = s /\ n.plan = m.plan
      /\ n.firmware_version = m.firmware_version
      /\ n.encoder_ticks = m.encoder_ticks
  BY DEF ModuleOK, Module
<1>2. Enter(m, s) = IF s \in DOMAIN Request THEN Enqueue(n, Request[s]) ELSE n
  BY DEF Enter
<1> HIDE DEF n
<1>3. CASE s \in DOMAIN Request
  <2>1. Request[s] \in Requests BY <1>3 DEF Requests
  <2> QED BY <1>1, <1>2, <1>3, <2>1, EnqueueKeeps
<1>4. CASE s \notin DOMAIN Request
  BY <1>1, <1>2, <1>4
<1> QED BY <1>3, <1>4

\* A plan that is replaced leaves the rest of the module.
LEMMA PlanReplaced ==
  ASSUME NEW m \in Module, ModuleOK(m), NEW plan \in Seq(State \X State)
  PROVE  LET n == [m EXCEPT !.plan = plan]
         IN /\ n \in Module /\ ModuleOK(n) /\ n.state = m.state /\ n.plan = plan
            /\ n.firmware_version = m.firmware_version
            /\ n.encoder_ticks = m.encoder_ticks
BY DEF ModuleOK, Module

LEMMA PlansTyped ==
  /\ ConfigurationPlan \in Seq(State \X State)
  /\ Head(ConfigurationPlan) = <<"ReadFW", "ReadEncoderTicks">>
  /\ Tail(ConfigurationPlan) = <<<<"ReadEncoderTicks", "ResetTimeout">>>>
  /\ ConfigurationPlan # <<>>
  /\ MotionPlan \in Seq(State \X (MotionInit \cup {"Stop"}))
<1>1. \A s \in Configuration : s \in State BY DEF State
<1>2. ConfigurationPlan \in Seq(State \X State)
  BY DEF ConfigurationPlan, State, Configuration
<1>3. /\ Head(ConfigurationPlan) = <<"ReadFW", "ReadEncoderTicks">>
      /\ ConfigurationPlan # <<>>
  BY DEF ConfigurationPlan
<1>4. Tail(ConfigurationPlan) = <<<<"ReadEncoderTicks", "ResetTimeout">>>>
  BY DEF ConfigurationPlan
<1>5. MotionPlan \in Seq(State \X (MotionInit \cup {"Stop"}))
  <2> DEFINE T == State \X (MotionInit \cup {"Stop"})
  <2>1. /\ <<"Initialize", "HaltAxis">> \in T /\ <<"HaltAxis", "HomeAxis">> \in T
        /\ <<"HomeAxis", "HaltAxis">> \in T
        /\ <<"HaltAxis", "ZeroAxisPosition">> \in T
        /\ <<"ZeroAxisPosition", "BackoffAxis">> \in T
        /\ <<"BackoffAxis", "HaltAxis">> \in T
        /\ <<"ZeroAxisPosition", "Stop">> \in T /\ <<"Initialize", "Stop">> \in T
    BY DEF State, MotionInit
  <2> HIDE DEF T
  <2>2. MotionPlan \in Seq(T)
    BY <2>1 DEF MotionPlan
  <2> QED BY <2>2 DEF T
<1> QED BY <1>2, <1>3, <1>4, <1>5

\* Succeeding keeps the module well-formed and its tasks in step with what has
\* been read.
LEMMA SucceedKeeps ==
  ASSUME NEW m \in Module, ModuleOK(m),
         m.state \in DOMAIN Awaited \cup {"ReadFW", "ReadEncoderTicks"}, Staged(m),
         m.state \in {"ReadFW", "ReadEncoderTicks"} => m.firmware_version # "unread",
         m.state = "ReadEncoderTicks" => Known(m)
  PROVE  ModuleOK(Succeed(m)) /\ Staged(Succeed(m)) /\ (Known(m) => Known(Succeed(m)))
<1> DEFINE TaskEnds == MotionInit \cup {"Stop"}
<1>0. /\ m.plan \in Seq(State \X State) /\ m.state \in State
      /\ m.state \in Configuration \cup MotionInit
  BY DEF Module, Awaited, Configuration, MotionInit
<1>1. CASE m.state = "ReadFW"
  <2> DEFINE n == [m EXCEPT !.plan = Tail(m.plan)]
  <2>1. m.plan = ConfigurationPlan BY <1>1 DEF Staged
  <2>2. Succeed(m) = Enter(n, "ReadEncoderTicks")
    BY <1>1, <2>1, PlansTyped DEF Succeed
  <2>3. Tail(m.plan) = <<<<"ReadEncoderTicks", "ResetTimeout">>>>
        /\ Tail(m.plan) \in Seq(State \X State)
    BY <2>1, PlansTyped, <1>0
  <2>4. /\ n \in Module /\ ModuleOK(n) /\ n.plan = Tail(m.plan)
        /\ n.firmware_version = m.firmware_version
        /\ n.encoder_ticks = m.encoder_ticks
    BY <2>3, PlanReplaced
  <2>5. "ReadEncoderTicks" \in State BY DEF State, Configuration
  <2> HIDE DEF n
  <2>6. /\ ModuleOK(Succeed(m)) /\ Succeed(m).state = "ReadEncoderTicks"
        /\ Succeed(m).plan = Tail(m.plan)
        /\ Succeed(m).firmware_version = m.firmware_version
        /\ Succeed(m).encoder_ticks = m.encoder_ticks
    BY <2>2, <2>4, <2>5, EnterKeeps
  <2> QED BY <1>1, <2>3, <2>6 DEF Staged, Known, MotionInit, Motion
<1>2. CASE m.state = "ReadEncoderTicks"
  <2> DEFINE n == [m EXCEPT !.plan = Tail(m.plan)]
  <2>1. m.plan = <<<<"ReadEncoderTicks", "ResetTimeout">>>> BY <1>2 DEF Staged
  <2>2. Head(m.plan) = <<"ReadEncoderTicks", "ResetTimeout">> /\ m.plan # <<>>
        /\ Tail(m.plan) = <<>>
    BY <2>1
  <2>3. Succeed(m) = Enter(n, "ResetTimeout")
    BY <1>2, <2>2 DEF Succeed
  <2>4. <<>> \in Seq(State \X State) OBVIOUS
  <2>5. /\ n \in Module /\ ModuleOK(n) /\ n.plan = <<>>
        /\ n.firmware_version = m.firmware_version
        /\ n.encoder_ticks = m.encoder_ticks
    BY <2>2, <2>4, PlanReplaced
  <2>6. "ResetTimeout" \in State BY DEF State, Configuration
  <2> HIDE DEF n
  <2>7. /\ ModuleOK(Succeed(m)) /\ Succeed(m).state = "ResetTimeout"
        /\ Succeed(m).plan = <<>>
        /\ Succeed(m).firmware_version = m.firmware_version
        /\ Succeed(m).encoder_ticks = m.encoder_ticks
    BY <2>3, <2>5, <2>6, EnterKeeps
  <2> QED BY <1>2, <2>7 DEF Staged, Known, MotionInit, Motion
<1>3. CASE m.state = "ResetTimeout"
  <2> DEFINE n == [m EXCEPT !.plan = MotionPlan]
  <2>1. m.plan = <<>> /\ Known(m) BY <1>3 DEF Staged
  <2>2. Succeed(m) = Enter(n, "Initialize")
    BY <1>3, <2>1 DEF Succeed, Configuration
  <2>3. MotionPlan \in Seq(State \X State)
    BY PlansTyped DEF State, Motion
  <2>4. /\ n \in Module /\ ModuleOK(n) /\ n.plan = MotionPlan
        /\ n.firmware_version = m.firmware_version
        /\ n.encoder_ticks = m.encoder_ticks
    BY <2>3, PlanReplaced
  <2>5. "Initialize" \in State BY DEF State, MotionInit
  <2> HIDE DEF n
  <2>6. /\ ModuleOK(Succeed(m)) /\ Succeed(m).state = "Initialize"
        /\ Succeed(m).plan = MotionPlan
        /\ Succeed(m).firmware_version = m.firmware_version
        /\ Succeed(m).encoder_ticks = m.encoder_ticks
    BY <2>2, <2>4, <2>5, EnterKeeps
  <2> QED BY <2>1, <2>6, PlansTyped DEF Staged, Known
<1>4. CASE m.state \in MotionInit
  <2>1. Known(m) /\ m.plan \in Seq(State \X TaskEnds) BY <1>4 DEF Staged
  <2>2. CASE m.plan # <<>> /\ Head(m.plan)[1] = m.state
    <3> DEFINE n == [m EXCEPT !.plan = Tail(m.plan)]
               s == Head(m.plan)[2]
    <3>1. Head(m.plan) \in State \X TaskEnds /\ Tail(m.plan) \in Seq(State \X TaskEnds)
      BY <2>1, <2>2
    <3>2. s \in TaskEnds BY <3>1
    <3>3. s \in State BY <3>2 DEF State, MotionInit, Motion
    <3>4. Tail(m.plan) \in Seq(State \X State) BY <1>0, <2>2
    <3>5. /\ n \in Module /\ ModuleOK(n) /\ n.plan = Tail(m.plan)
          /\ n.firmware_version = m.firmware_version
          /\ n.encoder_ticks = m.encoder_ticks
      BY <3>4, PlanReplaced
    <3>6. Succeed(m) = Enter(n, s)
      BY <2>2 DEF Succeed
    <3> HIDE DEF n
    <3>7. /\ ModuleOK(Succeed(m)) /\ Succeed(m).state = s
          /\ Succeed(m).plan = Tail(m.plan)
          /\ Succeed(m).firmware_version = m.firmware_version
          /\ Succeed(m).encoder_ticks = m.encoder_ticks
      BY <3>3, <3>5, <3>6, EnterKeeps
    <3>8. s \notin {"ReadFW", "ReadEncoderTicks", "ResetTimeout"}
      BY <3>2 DEF MotionInit
    <3> QED BY <2>1, <3>1, <3>7, <3>8 DEF Staged, Known
  <2>3. CASE m.plan # <<>> /\ Head(m.plan)[1] # m.state
    <3>1. Succeed(m) = m BY <2>3 DEF Succeed
    <3> QED BY <3>1
  <2>4. CASE m.plan = <<>>
    <3>1. m.state \notin Configuration BY <1>4 DEF Configuration, MotionInit
    <3>2. Succeed(m) = Enter(m, "OffStop")
      BY <2>4, <3>1 DEF Succeed
    <3>3. "OffStop" \in State BY DEF State
    <3> QED BY <3>2, <3>3, EnterKeeps DEF Staged, Known, MotionInit, Motion
  <2> QED BY <2>2, <2>3, <2>4
<1> QED BY <1>0, <1>1, <1>2, <1>3, <1>4 DEF Configuration

\* A failed plan leaves a module that only stops.
LEMMA FailKeeps ==
  ASSUME NEW m \in Module, ModuleOK(m)
  PROVE  ModuleOK(Fail(m)) /\ Staged(Fail(m)) /\ (Known(m) => Known(Fail(m)))
<1> DEFINE n == [m EXCEPT !.plan = <<>>]
<1>0. <<>> \in Seq(State \X State) OBVIOUS
<1>1. /\ n \in Module /\ ModuleOK(n)
      /\ n.firmware_version = m.firmware_version
      /\ n.encoder_ticks = m.encoder_ticks
  BY <1>0, PlanReplaced
<1>2. "OffStop" \in State /\ Fail(m) = Enter(n, "OffStop") BY DEF State, Fail
<1> HIDE DEF n
<1> QED BY <1>1, <1>2, EnterKeeps DEF Staged, Known, MotionInit, Motion

-----------------------------------------------------------------------------
(* What a call of the module does to it *)

\* Inputs: a state that waits for one of them succeeds.
LEMMA ReadKeeps ==
  ASSUME NEW m \in Module, ModuleOK(m), Staged(m), NEW inputs
  PROVE  LET n == ReactToRead(m, inputs)
         IN n \in Module /\ ModuleOK(n) /\ Staged(n) /\ (Known(m) => Known(n))
<1>1. CASE m.state \in DOMAIN Awaited /\ Awaited[m.state] \in inputs
  <2>1. m.state \notin {"ReadFW", "ReadEncoderTicks"} BY <1>1 DEF Awaited
  <2>2. ReactToRead(m, inputs) = Succeed(m) BY <1>1 DEF ReactToRead
  <2> QED BY <1>1, <2>1, <2>2, SucceedKeeps DEF ModuleOK
<1>2. CASE ~(m.state \in DOMAIN Awaited /\ Awaited[m.state] \in inputs)
  BY <1>2 DEF ReactToRead
<1> QED BY <1>1, <1>2

\* A message: the state that asked succeeds with what it was told, or fails.
LEMMA MessageKeeps ==
  ASSUME NEW m \in Module, ModuleOK(m), Staged(m), NEW reply
  PROVE  LET n == ReactToMessage(m, reply)
         IN n \in Module /\ ModuleOK(n) /\ Staged(n) /\ (Known(m) => Known(n))
<1> DEFINE r == ReactToMessage(m, reply)
<1>1. CASE reply = NoReply \/ m.state \notin {"ReadFW", "ReadEncoderTicks"}
  <2>1. r = m BY <1>1 DEF ReactToMessage
  <2> QED BY <2>1
<1>2. CASE ~(reply = NoReply \/ m.state \notin {"ReadFW", "ReadEncoderTicks"})
  <2>1. CASE reply.status # "SUCCESS" \/ reply.request # Request[m.state]
    <3>1. r = Fail(m) BY <1>2, <2>1 DEF ReactToMessage
    <3> QED BY <3>1, FailKeeps DEF ModuleOK
  <2>2. CASE /\ ~(reply.status # "SUCCESS" \/ reply.request # Request[m.state])
             /\ m.state = "ReadFW"
    <3> DEFINE n == [m EXCEPT !.firmware_version = Firmware]
    <3>1. r = Succeed(n) BY <1>2, <2>2 DEF ReactToMessage
    <3>2. Firmware \in {"1", "2"} BY DriveAssumption
    <3>3. /\ n \in Module /\ ModuleOK(n) /\ n.state = "ReadFW" /\ n.plan = m.plan
          /\ n.firmware_version = Firmware /\ n.encoder_ticks = m.encoder_ticks
      BY <2>2, <3>2 DEF ModuleOK, Module
    <3> HIDE DEF n
    <3>4. Staged(n) /\ n.firmware_version # "unread" /\ (Known(m) => Known(n))
      BY <2>2, <3>2, <3>3 DEF Staged, Known, MotionInit, Motion
    <3>5. ModuleOK(r) /\ Staged(r) /\ (Known(n) => Known(r))
      BY <3>1, <3>3, <3>4, SucceedKeeps
    <3> QED BY <3>4, <3>5 DEF ModuleOK
  <2>3. CASE /\ ~(reply.status # "SUCCESS" \/ reply.request # Request[m.state])
             /\ m.state = "ReadEncoderTicks"
    <3> DEFINE n == [m EXCEPT !.encoder_ticks = "known"]
    <3>1. r = Succeed(n) BY <1>2, <2>3 DEF ReactToMessage
    <3>3. /\ n \in Module /\ ModuleOK(n) /\ n.state = m.state /\ n.plan = m.plan
          /\ n.firmware_version = m.firmware_version /\ n.encoder_ticks = "known"
      BY DEF ModuleOK, Module
    <3> HIDE DEF n
    <3>4. Staged(n) /\ Known(n)
      BY <2>3, <3>3 DEF Staged, Known, MotionInit, Motion
    <3>5. ModuleOK(r) /\ Staged(r) /\ Known(r)
      BY <2>3, <3>1, <3>3, <3>4, SucceedKeeps DEF Known
    <3> QED BY <3>5 DEF ModuleOK
  <2> QED BY <1>2, <2>1, <2>2, <2>3
<1> QED BY <1>1, <1>2

\* The update follows the command mode within the motion region.
LEMMA UpdateKeeps ==
  ASSUME NEW m \in Module, ModuleOK(m), Staged(m), command_mode \in COMMAND_MODE
  PROVE  LET n == Update(m)
         IN n \in Module /\ ModuleOK(n) /\ Staged(n) /\ (Known(m) => Known(n))
<1>1. CASE m.state \notin Motion
  BY <1>1 DEF Update
<1>2. CASE m.state \in Motion
  <2>1. PICK s \in Motion : Update(m) = [m EXCEPT !.state = s]
    BY <1>2 DEF Update, Motion, COMMAND_MODE
  <2>2. s \in State /\ s \notin {"ReadFW", "ReadEncoderTicks", "ResetTimeout"}
    BY DEF State, Motion
  <2> DEFINE n == [m EXCEPT !.state = s]
  <2>3. /\ n \in Module /\ ModuleOK(n) /\ n.state = s /\ n.plan = m.plan
        /\ n.firmware_version = m.firmware_version
        /\ n.encoder_ticks = m.encoder_ticks
    BY <2>2 DEF ModuleOK, Module
  <2> HIDE DEF n
  <2>4. Staged(n) /\ (Known(m) => Known(n))
    BY <1>2, <2>2, <2>3 DEF Staged, Known
  <2> QED BY <2>1, <2>3, <2>4 DEF n
<1> QED BY <1>1, <1>2

\* configure() starts over with a complete plan.
LEMMA ConfigureKeeps ==
  ASSUME NEW m \in Module, ModuleOK(m)
  PROVE  LET n == Enter([m EXCEPT !.plan = ConfigurationPlan], "ReadFW")
         IN n \in Module /\ ModuleOK(n) /\ Staged(n) /\ (Known(m) => Known(n))
<1> DEFINE p == [m EXCEPT !.plan = ConfigurationPlan]
<1>1. /\ p \in Module /\ ModuleOK(p) /\ p.plan = ConfigurationPlan
      /\ p.firmware_version = m.firmware_version
      /\ p.encoder_ticks = m.encoder_ticks
  BY PlansTyped, PlanReplaced
<1>2. "ReadFW" \in State BY DEF State, Configuration
<1> HIDE DEF p
<1>3. /\ ModuleOK(Enter(p, "ReadFW")) /\ Enter(p, "ReadFW").state = "ReadFW"
      /\ Enter(p, "ReadFW").plan = ConfigurationPlan
      /\ Enter(p, "ReadFW").firmware_version = m.firmware_version
      /\ Enter(p, "ReadFW").encoder_ticks = m.encoder_ticks
  BY <1>1, <1>2, EnterKeeps
<1>4. Staged(Enter(p, "ReadFW")) BY <1>3 DEF Staged, MotionInit, Motion
<1> QED BY <1>3, <1>4 DEF ModuleOK, Known, p

\* Outputs are well-formed, and move the axis in MotionInit and Motion only.
LEMMA OutputTyped ==
  ASSUME NEW m \in Module, NEW o \in ReactToWrite(m)
  PROVE  o \in Output /\ (o.mode # "STOP" => m.state \in MotionInit \cup Motion)
<1> USE DEF Output, COMMAND_MODE, MotionInit, Motion
<1>1. CASE m.state \in {"Initialize", "HomeAxis", "BackoffAxis"}
  BY <1>1 DEF ReactToWrite
<1>2. CASE m.state \in {"Effort", "Velocity", "Position"}
  BY <1>2 DEF ReactToWrite
<1>3. CASE m.state \notin {"Initialize", "HomeAxis", "BackoffAxis", "Effort", "Velocity", "Position"}
  <2>1. o = [mode |-> "STOP", setpoint |-> "zero"] BY <1>3 DEF ReactToWrite
  <2> QED BY <2>1
<1> QED BY <1>1, <1>2, <1>3

-----------------------------------------------------------------------------
(* The invariant *)

LEMMA InitHolds == Init => IInv
<1> SUFFICES ASSUME Init PROVE IInv
  OBVIOUS
<1>1. module \in Module
  <2>1. <<>> \in Seq(State \X State) /\ <<>> \in Seq(Requests) OBVIOUS
  <2>2. "ReadFW" \in State BY DEF State, Configuration
  <2> QED BY <2>1, <2>2 DEF Init, Module
<1>2. Len(module.mbx_send_queue) <= QueueCapacity
  BY BoundsAssumption DEF Init
<1>3. StopOutput \in Output BY DEF StopOutput, Output, COMMAND_MODE
<1>4. TypeOK
  BY <1>1, <1>2, <1>3, BoundsAssumption DEF Init, TypeOK, ZeroInput, Condition, COMMAND_MODE
<1>5. Fresh(module) BY DEF Init, Fresh
<1>6. RxPDO.mode = "STOP" /\ image.mode = "STOP" BY DEF Init, StopOutput
<1>7. transit.at # "slave" BY DEF Init, NoTransit
<1> QED BY <1>4, <1>5, <1>6, <1>7 DEF Init, IInv

\* Every call, callback and bus cycle keeps the invariant.
LEMMA StepHolds == IInv /\ [Next]_vars => IInv'
<1> SUFFICES ASSUME IInv, [Next]_vars PROVE IInv'
  OBVIOUS
<1>0. /\ TypeOK /\ module \in Module /\ ModuleOK(module)
      /\ RxPDO.mode # "STOP" \/ image.mode # "STOP" => Known(module)
      /\ transit.at = "slave" => transit.request \in Query
      /\ MaxConfigures \in Nat /\ Inputs \subseteq SUBSET Condition
  BY BoundsAssumption, DriveAssumption DEF IInv, TypeOK, ModuleOK
<1>1. CASE Configure
  <2>1. /\ module' \in Module /\ ModuleOK(module') /\ (Known(module) => Known(module'))
        /\ \/ Staged(module') /\ initialized' = initialized + 1
           \/ UNCHANGED <<module, initialized>>
    BY <1>0, <1>1, ConfigureKeeps DEF Configure, ConfigureModule
  <2>2. initialized' \in 0..MaxConfigures
    BY <1>0, <1>1 DEF Configure, ConfigureModule, TypeOK
  <2>3. transit' \in Transit \cup {NoTransit} /\ transit'.at # "slave"
    BY <1>0, <1>1 DEF Configure, TypeOK, Transit, NoTransit
  <2>4. TxPDO' \subseteq Condition
    BY <1>0, <1>1 DEF Configure, TypeOK, ZeroInput, Condition
  <2>5. TypeOK'
    BY <1>0, <1>1, <2>1, <2>2, <2>3, <2>4 DEF Configure, TypeOK, ModuleOK
  <2>6. Staged(module') \/ (initialized' = 0 /\ Fresh(module'))
    BY <2>1 DEF IInv
  <2> QED BY <1>0, <1>1, <2>1, <2>3, <2>5, <2>6 DEF Configure, IInv
<1>2. CASE Activate \/ Deactivate \/ Cleanup \/ Shutdown
  <2>1. PICK from, to \in {"unconfigured", "inactive", "active", "finalized"} :
          Lifecycle(from, to)
    BY <1>2 DEF Activate, Deactivate, Cleanup, Shutdown
  <2> QED BY <1>0, <2>1 DEF Lifecycle, MailboxUnchanged, IInv, TypeOK
<1>3. CASE SwitchMode
  BY <1>0, <1>3 DEF SwitchMode, MailboxUnchanged, IInv, TypeOK
<1>4. CASE Read
  <2>1. Staged(module)
    BY <1>4 DEF Read, Called, IInv, TypeOK
  <2> DEFINE a == ReactToRead(module, TxPDO')
             b == ReactToMessage(a, unread)
  <2>2. a \in Module /\ ModuleOK(a) /\ Staged(a) /\ (Known(module) => Known(a))
    BY <1>0, <2>1, ReadKeeps
  <2>3. b \in Module /\ ModuleOK(b) /\ Staged(b) /\ (Known(a) => Known(b))
    BY <2>2, MessageKeeps
  <2>4. module' = Update(b) BY <1>4 DEF Read
  <2> HIDE DEF a, b
  <2>5. /\ module' \in Module /\ ModuleOK(module') /\ Staged(module')
        /\ Known(module) => Known(module')
    BY <1>0, <2>2, <2>3, <2>4, UpdateKeeps DEF TypeOK
  <2>6. TxPDO' \subseteq Condition BY <1>0, <1>4 DEF Read, TypeOK
  <2>7. calls' \in 0..MaxConfigures /\ turn' \in {"read", "write"}
    BY <1>0, <1>4 DEF Read, Advance, TypeOK
  <2>8. TypeOK'
    BY <1>0, <1>4, <2>5, <2>6, <2>7 DEF Read, TypeOK, ModuleOK
  <2> QED BY <1>0, <1>4, <2>5, <2>8 DEF Read, IInv
<1>5. CASE Write
  <2>1. Staged(module)
    BY <1>5 DEF Write, Called, IInv, TypeOK
  <2> DEFINE m == Update(module)
  <2>2. m \in Module /\ ModuleOK(m) /\ Staged(m) /\ (Known(module) => Known(m))
    BY <1>0, <2>1, UpdateKeeps DEF TypeOK
  <2>3. RxPDO' \in ReactToWrite(m)
    BY <1>5 DEF Write, Outputs
  <2>4. \/ module' = m /\ UNCHANGED transit
        \/ /\ m.mbx_send_queue # <<>>
           /\ module' = [m EXCEPT !.mbx_send_queue = Tail(@)]
           /\ transit' = [request |-> Head(m.mbx_send_queue), at |-> "driver"]
    BY <1>5 DEF Write
  <2>5. /\ calls' \in 0..MaxConfigures /\ turn' \in {"read", "write"}
        /\ image' = RxPDO' \/ image' = image
        /\ UNCHANGED <<component, initialized, command_mode, TxPDO, unread>>
    BY <1>0, <1>5 DEF Write, Advance, TypeOK
  <2> HIDE DEF m
  <2>6. RxPDO' \in Output /\ (RxPDO'.mode # "STOP" => Known(m))
    BY <2>2, <2>3, OutputTyped DEF Staged
  <2>7. /\ module' \in Module /\ ModuleOK(module') /\ Staged(module')
        /\ Known(m) => Known(module')
        /\ transit' \in Transit \cup {NoTransit}
        /\ transit'.at = "slave" => transit'.request \in Query
    <3>1. CASE module' = m /\ UNCHANGED transit
      BY <1>0, <2>2, <3>1 DEF TypeOK
    <3>2. CASE /\ m.mbx_send_queue # <<>>
               /\ module' = [m EXCEPT !.mbx_send_queue = Tail(@)]
               /\ transit' = [request |-> Head(m.mbx_send_queue), at |-> "driver"]
      <4> DEFINE q == m.mbx_send_queue
      <4>1. q \in Seq(Requests) /\ q # <<>> /\ Len(q) <= QueueCapacity
        BY <2>2, <3>2 DEF Module, ModuleOK
      <4>2. /\ Head(q) \in Requests /\ Tail(q) \in Seq(Requests)
            /\ Len(Tail(q)) = Len(q) - 1 /\ Len(q) \in Nat
        BY <4>1
      <4>3. Len(Tail(q)) <= QueueCapacity
        BY <4>1, <4>2, BoundsAssumption
      <4>4. /\ module' \in Module /\ module'.mbx_send_queue = Tail(q)
            /\ module'.state = m.state /\ module'.plan = m.plan
            /\ module'.firmware_version = m.firmware_version
            /\ module'.encoder_ticks = m.encoder_ticks
        BY <2>2, <3>2, <4>2 DEF Module
      <4>5. transit' \in Transit /\ transit'.at = "driver"
        BY <3>2, <4>2 DEF Transit
      <4> QED BY <2>2, <4>3, <4>4, <4>5 DEF ModuleOK, Staged, Known
    <3> QED BY <2>4, <3>1, <3>2
  <2>8. TypeOK'
    BY <1>0, <2>5, <2>6, <2>7 DEF TypeOK, ModuleOK
  <2> QED BY <1>0, <2>2, <2>5, <2>6, <2>7, <2>8 DEF IInv
<1>6. CASE Send
  <2>1. /\ transit' \in Transit \cup {NoTransit}
        /\ transit'.at = "slave" => transit'.request \in Query
    BY <1>0, <1>6 DEF Send, TypeOK, Transit, NoTransit
  <2> QED BY <1>0, <1>6, <2>1 DEF Send, DriverUnchanged, IInv, TypeOK
<1>7. CASE Receive
  <2>1. transit' = NoTransit /\ unread' \in Reply
    BY <1>0, <1>7 DEF Receive, Reply
  <2> QED BY <1>0, <1>7, <2>1 DEF Receive, DriverUnchanged, IInv, TypeOK, NoTransit
<1>8. CASE Finalized \/ UNCHANGED vars
  BY <1>0, <1>8 DEF Finalized, vars, IInv, TypeOK
<1> QED BY <1>1, <1>2, <1>3, <1>4, <1>5, <1>6, <1>7, <1>8
        DEF Next, ControlStep, CyclicStep

LEMMA IInvHolds == Spec => []IInv
BY InitHolds, StepHolds, PTL DEF Spec

\* However often the module is configured, its members, its send queue and the
\* mailbox keep their types and the queue its capacity: mbx_enqueue_send drops
\* a request rather than grow it, Head is only taken of a queue with elements.
THEOREM ModuleTyped == Spec => []TypeOK
<1>1. IInv => TypeOK BY DEF IInv
<1> QED BY <1>1, IInvHolds, PTL

\* However often the module is configured, and whatever replies are late: the
\* outputs tell the axis to stop until firmware version and encoder resolution
\* have been read once.
THEOREM MovesOnlyWhenConfigured == Spec => []MovesWhenConfigured
<1>1. IInv => MovesWhenConfigured BY DEF IInv, MovesWhenConfigured, Known
<1> QED BY <1>1, IInvHolds, PTL

-----------------------------------------------------------------------------
(* Command modes *)

\* In the motion region write() tells the drive the mode the last switch left,
\* whichever mode the state entered by read() had.
THEOREM WritesLastMode == Spec => WritesCommandMode
<1>1. IInv /\ [Next]_vars
        => [Write /\ module.state \in Motion => RxPDO'.mode = command_mode]_vars
  <2> SUFFICES ASSUME IInv, Write, module.state \in Motion
               PROVE  RxPDO'.mode = command_mode
    OBVIOUS
  <2> DEFINE m == Update(module)
  <2>1. RxPDO' \in ReactToWrite(m) BY DEF Write, Outputs
  <2>2. module \in Module /\ command_mode \in COMMAND_MODE BY DEF IInv, TypeOK
  <2>3. m.state = CASE command_mode = "STOP" -> "Stop"
                    [] command_mode = "EFFORT" -> "Effort"
                    [] command_mode = "VELOCITY" -> "Velocity"
                    [] command_mode = "POSITION" -> "Position"
    BY <2>2 DEF Update, Module
  <2> HIDE DEF m
  <2>4. CASE command_mode = "STOP" BY <2>1, <2>3, <2>4 DEF ReactToWrite
  <2>5. CASE command_mode = "EFFORT" BY <2>1, <2>3, <2>5 DEF ReactToWrite
  <2>6. CASE command_mode = "VELOCITY" BY <2>1, <2>3, <2>6 DEF ReactToWrite
  <2>7. CASE command_mode = "POSITION" BY <2>1, <2>3, <2>7 DEF ReactToWrite
  <2> QED BY <2>2, <2>4, <2>5, <2>6, <2>7 DEF COMMAND_MODE
<1> QED BY <1>1, IInvHolds, PTL DEF Spec, WritesCommandMode

-----------------------------------------------------------------------------
(* Queries and replies *)

Asking == {"ReadFW", "ReadEncoderTicks"}
NoQuery(q) == \A i \in 1..Len(q) : q[i] \notin Query

\* A state that asks has one query, in the queue, in transit or answered; any
\* other state, and a module not configured yet, has none.
OneQuery ==
  IF module.state \in Asking /\ initialized # 0
  THEN LET query == Request[module.state]
       IN /\ module.mbx_send_queue \in {<<>>, <<query>>}
          /\ transit.request \in {"none", query}
          /\ unread.request \in {"none", query}
          /\ module.mbx_send_queue # <<>> => transit = NoTransit /\ unread = NoReply
          /\ transit # NoTransit => unread = NoReply
  ELSE NoQuery(module.mbx_send_queue) /\ transit.request \notin Query /\ unread = NoReply

Unstarted == initialized = 0 =>
  module.state = "ReadFW" /\ module.mbx_send_queue = <<>> /\ transit = NoTransit

\* Before configure() the module has asked for nothing.
LEMMA InitQuery == Init => OneQuery /\ Unstarted
<1>1. Len(<<>>) = 0 /\ 1..0 = {} OBVIOUS
<1> QED BY <1>1 DEF Init, OneQuery, Unstarted, NoQuery, NoTransit, NoReply, Query

\* Requests by name.
LEMMA QueryFacts ==
  /\ Request["ReadFW"] = "FIRMWARE_VERSION" /\ Request["ReadEncoderTicks"] = "GAP"
  /\ \A s \in DOMAIN Request \ Asking : Request[s] \notin Query
  /\ Asking \subseteq DOMAIN Request /\ Query \subseteq Requests
  /\ \A r \in Requests : r # "none"
BY DEF Request, Requests, Query, Asking

\* A request that is no query adds none to a queue; nor does taking one out.
LEMMA QueueFacts ==
  ASSUME NEW q \in Seq(Requests), NoQuery(q)
  PROVE  /\ \A r \in Requests \ Query : NoQuery(Append(q, r))
         /\ q # <<>> => NoQuery(Tail(q)) /\ Head(q) \notin Query
<1>1. Len(q) \in Nat OBVIOUS
<1>2. ASSUME NEW r \in Requests \ Query PROVE NoQuery(Append(q, r))
  <2>1. /\ Len(Append(q, r)) = Len(q) + 1 /\ Append(q, r)[Len(q) + 1] = r
        /\ \A i \in 1..Len(q) : Append(q, r)[i] = q[i]
    OBVIOUS
  <2> QED BY <1>1, <1>2, <2>1 DEF NoQuery
<1>3. ASSUME q # <<>> PROVE NoQuery(Tail(q)) /\ Head(q) \notin Query
  <2>1. /\ Len(q) >= 1 /\ Head(q) = q[1] /\ Len(Tail(q)) = Len(q) - 1
        /\ \A i \in 1..(Len(q) - 1) : Tail(q)[i] = q[i + 1]
    BY <1>3
  <2> QED BY <1>1, <2>1 DEF NoQuery
<1> QED BY <1>2, <1>3

\* Entering a state enqueues its request, if it has one and there is room.
LEMMA EnterEnqueues ==
  ASSUME NEW m \in Module, NEW s \in State
  PROVE  /\ s \notin DOMAIN Request => Enter(m, s).mbx_send_queue = m.mbx_send_queue
         /\ s \in DOMAIN Request =>
              Enter(m, s).mbx_send_queue \in
                {m.mbx_send_queue, Append(m.mbx_send_queue, Request[s])}
         /\ s \notin Asking /\ NoQuery(m.mbx_send_queue) => NoQuery(Enter(m, s).mbx_send_queue)
<1> DEFINE n == [m EXCEPT !.state = s]
<1>1. n \in Module /\ n.mbx_send_queue = m.mbx_send_queue BY DEF Module
<1>2. Enter(m, s) = IF s \in DOMAIN Request THEN Enqueue(n, Request[s]) ELSE n
  BY DEF Enter
<1> HIDE DEF n
<1>3. \A r : Enqueue(n, r).mbx_send_queue \in {m.mbx_send_queue, Append(m.mbx_send_queue, r)}
  BY <1>1 DEF Enqueue, Module
<1>4. m.mbx_send_queue \in Seq(Requests) BY DEF Module
<1>5. s \in DOMAIN Request \ Asking => Request[s] \in Requests \ Query
  BY QueryFacts DEF Requests
<1> QED BY <1>1, <1>2, <1>3, <1>4, <1>5, QueueFacts

\* Past the queries no state asks again, however its region goes on.
LEMMA SucceedSilently ==
  ASSUME NEW m \in Module, Staged(m), NoQuery(m.mbx_send_queue),
         m.state \in DOMAIN Awaited \cup {"ReadEncoderTicks"}
  PROVE  Succeed(m).state \notin Asking /\ NoQuery(Succeed(m).mbx_send_queue)
<1> USE DEF Asking
<1>1. ASSUME NEW plan \in Seq(State \X State), NEW s \in State \ Asking,
             Succeed(m) = Enter([m EXCEPT !.plan = plan], s)
      PROVE  Succeed(m).state \notin Asking /\ NoQuery(Succeed(m).mbx_send_queue)
  <2> DEFINE n == [m EXCEPT !.plan = plan]
  <2>1. n \in Module /\ n.mbx_send_queue = m.mbx_send_queue BY DEF Module
  <2>2. Enter(n, s).state = s
    BY DEF Enter, Enqueue, Module
  <2> HIDE DEF n
  <2>3. NoQuery(Enter(n, s).mbx_send_queue) BY <2>1, EnterEnqueues
  <2> QED BY <1>1, <2>2, <2>3 DEF n
<1>2. /\ m.plan \in Seq(State \X State) /\ [m EXCEPT !.plan = m.plan] = m
      /\ <<>> \in Seq(State \X State)
  BY DEF Module
<1>3. CASE m.state = "ReadEncoderTicks"
  <2>1. Head(m.plan) = <<"ReadEncoderTicks", "ResetTimeout">> /\ m.plan # <<>>
        /\ Tail(m.plan) = <<>>
    <3>1. m.plan = <<<<"ReadEncoderTicks", "ResetTimeout">>>> BY <1>3 DEF Staged
    <3> QED BY <3>1
  <2>2. Succeed(m) = Enter([m EXCEPT !.plan = <<>>], "ResetTimeout")
    BY <1>3, <2>1 DEF Succeed
  <2> QED BY <1>1, <1>2, <2>2 DEF State, Configuration
<1>4. CASE m.state = "ResetTimeout"
  <2>1. Succeed(m) = Enter([m EXCEPT !.plan = MotionPlan], "Initialize")
    BY <1>4 DEF Staged, Succeed, Configuration
  <2>2. MotionPlan \in Seq(State \X State) BY PlansTyped DEF State, Motion
  <2> QED BY <1>1, <2>1, <2>2 DEF State, MotionInit
<1>5. CASE m.state \in MotionInit
  <2>1. m.plan \in Seq(State \X (MotionInit \cup {"Stop"})) BY <1>5 DEF Staged
  <2>2. CASE m.plan # <<>> /\ Head(m.plan)[1] = m.state
    <3>1. Head(m.plan) \in State \X (MotionInit \cup {"Stop"}) BY <2>1, <2>2
    <3>2. Head(m.plan)[2] \in State \ Asking
      BY <3>1 DEF State, MotionInit, Motion
    <3>3. Tail(m.plan) \in Seq(State \X State) BY <1>2, <2>2
    <3>4. Succeed(m) = Enter([m EXCEPT !.plan = Tail(m.plan)], Head(m.plan)[2])
      BY <2>2 DEF Succeed
    <3> QED BY <1>1, <3>2, <3>3, <3>4
  <2>3. CASE m.plan # <<>> /\ Head(m.plan)[1] # m.state
    BY <1>5, <2>3 DEF Succeed, MotionInit
  <2>4. CASE m.plan = <<>>
    <3>1. Succeed(m) = Enter([m EXCEPT !.plan = m.plan], "OffStop")
      BY <1>2, <1>5, <2>4 DEF Succeed, Configuration, MotionInit
    <3> QED BY <1>1, <1>2, <3>1 DEF State
  <2> QED BY <2>2, <2>3, <2>4
<1> QED BY <1>3, <1>4, <1>5 DEF Awaited, MotionInit

\* The update neither asks nor answers.
LEMMA UpdateSilently ==
  ASSUME NEW m \in Module, command_mode \in COMMAND_MODE
  PROVE  /\ Update(m).mbx_send_queue = m.mbx_send_queue
         /\ m.state \in Asking => Update(m) = m
         /\ m.state \notin Asking => Update(m).state \notin Asking
BY DEF Update, Module, Motion, Asking, COMMAND_MODE

\* A message answers the query of the state; the next state asks in its place.
LEMMA MessageAsks ==
  ASSUME NEW m \in Module, Staged(m), m.state \in Asking, m.mbx_send_queue = <<>>,
         unread # NoReply
  PROVE  LET n == ReactToMessage(m, unread)
         IN IF n.state \in Asking
            THEN n.mbx_send_queue \in {<<>>, <<Request[n.state]>>}
            ELSE NoQuery(n.mbx_send_queue)
<1> DEFINE r == ReactToMessage(m, unread)
<1>0. NoQuery(<<>>) /\ \A T : <<>> \in Seq(T)
  <2>1. Len(<<>>) = 0 /\ 1..0 = {} OBVIOUS
  <2> QED BY <2>1 DEF NoQuery
<1>1. CASE unread.status # "SUCCESS" \/ unread.request # Request[m.state]
  <2> DEFINE n == [m EXCEPT !.plan = <<>>]
  <2>1. r = Enter(n, "OffStop") BY <1>1 DEF ReactToMessage, Fail, Asking
  <2>2. n \in Module /\ n.mbx_send_queue = <<>> BY <1>0 DEF Module
  <2>3. "OffStop" \in State /\ "OffStop" \notin DOMAIN Request BY DEF State, Request
  <2>4. Enter(n, "OffStop").state = "OffStop" BY <2>2, <2>3 DEF Enter, Module
  <2> HIDE DEF n
  <2>5. r.mbx_send_queue = <<>> BY <2>1, <2>2, <2>3, EnterEnqueues
  <2> QED BY <1>0, <2>1, <2>4, <2>5 DEF Asking
<1>2. CASE /\ ~(unread.status # "SUCCESS" \/ unread.request # Request[m.state])
           /\ m.state = "ReadFW"
  <2> DEFINE n == [m EXCEPT !.firmware_version = Firmware]
             p == [n EXCEPT !.plan = Tail(n.plan)]
  <2>1. r = Succeed(n) BY <1>2 DEF ReactToMessage
  <2>2. Firmware \in {"1", "2"} BY DriveAssumption
  <2>3. n \in Module /\ n.state = "ReadFW" /\ n.plan = ConfigurationPlan
        /\ n.mbx_send_queue = <<>>
    BY <1>2, <2>2 DEF Module, Staged
  <2>4. Succeed(n) = Enter(p, "ReadEncoderTicks")
    BY <2>3, PlansTyped DEF Succeed
  <2>5. p \in Module /\ p.mbx_send_queue = <<>>
    <3>1. Tail(n.plan) \in Seq(State \X State) BY <2>3, PlansTyped
    <3> HIDE DEF n
    <3> QED BY <2>3, <3>1 DEF Module
  <2>6. "ReadEncoderTicks" \in State BY DEF State, Configuration
  <2> HIDE DEF p, n
  <2>7. Enter(p, "ReadEncoderTicks").state = "ReadEncoderTicks"
    BY <2>5, <2>6 DEF Enter, Enqueue, Module
  <2>8. /\ Append(<<>>, Request["ReadEncoderTicks"]) = <<Request["ReadEncoderTicks"]>>
        /\ "ReadEncoderTicks" \in DOMAIN Request
    BY QueryFacts DEF Asking
  <2>9. r.mbx_send_queue \in {<<>>, <<Request["ReadEncoderTicks"]>>}
    BY <2>1, <2>4, <2>5, <2>6, <2>8, EnterEnqueues
  <2> QED BY <2>1, <2>4, <2>7, <2>9 DEF Asking
<1>3. CASE /\ ~(unread.status # "SUCCESS" \/ unread.request # Request[m.state])
           /\ m.state = "ReadEncoderTicks"
  <2> DEFINE n == [m EXCEPT !.encoder_ticks = "known"]
  <2>1. r = Succeed(n) BY <1>3 DEF ReactToMessage
  <2>2. n \in Module /\ n.state = m.state /\ n.plan = m.plan /\ n.mbx_send_queue = <<>>
        /\ n.firmware_version = m.firmware_version
    BY DEF Module
  <2> HIDE DEF n
  <2>3. Staged(n) BY <1>3, <2>2 DEF Staged, MotionInit, Motion
  <2> QED BY <1>0, <1>3, <2>1, <2>2, <2>3, SucceedSilently
<1> QED BY <1>1, <1>2, <1>3 DEF Asking

\* With one configuration a query is asked only when none is left.
LEMMA QueryStep ==
  MaxConfigures <= 1 /\ IInv /\ OneQuery /\ Unstarted /\ [Next]_vars
    => (OneQuery /\ Unstarted)'
<1> SUFFICES ASSUME MaxConfigures <= 1, IInv, OneQuery, Unstarted, [Next]_vars
             PROVE  (OneQuery /\ Unstarted)'
  OBVIOUS
<1>0. /\ module \in Module /\ initialized \in 0..MaxConfigures /\ MaxConfigures \in Nat
      /\ command_mode \in COMMAND_MODE
      /\ transit \in Transit \cup {NoTransit} /\ unread \in Reply \cup {NoReply}
      /\ transit # NoTransit => transit.request \in Requests /\ transit.request # "none"
      /\ initialized # 0 => Staged(module)
  BY BoundsAssumption, QueryFacts DEF IInv, TypeOK, Transit
<1>1. CASE Configure
  <2>1. /\ initialized = 0 /\ module.mbx_send_queue = <<>> /\ transit = NoTransit
        /\ unread = NoReply /\ UNCHANGED <<transit, unread>>
    BY <1>0, <1>1 DEF Configure, OneQuery, Unstarted, NoTransit
  <2>2. CASE UNCHANGED <<module, initialized>>
    BY <2>1, <2>2 DEF OneQuery, Unstarted
  <2>3. CASE /\ module' = Enter([module EXCEPT !.plan = ConfigurationPlan], "ReadFW")
             /\ initialized' = initialized + 1
    <3> DEFINE n == [module EXCEPT !.plan = ConfigurationPlan]
    <3>1. n \in Module /\ n.mbx_send_queue = <<>>
      BY <1>0, <2>1, PlansTyped DEF Module
    <3>2. "ReadFW" \in State /\ "ReadFW" \in DOMAIN Request
      BY DEF State, Configuration, Request
    <3> HIDE DEF n
    <3>3. Enter(n, "ReadFW").state = "ReadFW" BY <3>1, <3>2 DEF Enter, Enqueue, Module
    <3>4. Append(<<>>, Request["ReadFW"]) = <<Request["ReadFW"]>> OBVIOUS
    <3>5. module'.mbx_send_queue \in {<<>>, <<Request["ReadFW"]>>}
      BY <2>3, <3>1, <3>2, <3>4, EnterEnqueues DEF n
    <3>6. initialized' # 0 /\ module'.state = "ReadFW" BY <2>1, <2>3, <3>3 DEF n
    <3> QED BY <2>1, <3>5, <3>6 DEF OneQuery, Unstarted, Asking, NoTransit, NoReply
  <2> QED BY <1>1, <2>2, <2>3 DEF Configure, ConfigureModule
<1>2. CASE Activate \/ Deactivate \/ Cleanup \/ Shutdown \/ SwitchMode
  BY <1>2 DEF Activate, Deactivate, Cleanup, Shutdown, Lifecycle, SwitchMode,
     MailboxUnchanged, OneQuery, Unstarted
<1>3. CASE Read
  <2> DEFINE a == ReactToRead(module, TxPDO')
             b == ReactToMessage(a, unread)
  <2>0. /\ module' = Update(b) /\ unread' = NoReply /\ UNCHANGED <<transit, initialized>>
        /\ initialized # 0 /\ Staged(module)
    BY <1>0, <1>3 DEF Read, Called
  <2>1. b \in Module
    BY <1>0, <2>0, ReadKeeps, MessageKeeps DEF IInv, TypeOK, ModuleOK
  <2>2. CASE module.state \in Asking
    <3>1. a = module BY <2>2 DEF ReactToRead, Awaited, Asking
    <3>2. CASE unread = NoReply
      <4>1. module' = module
        BY <1>0, <2>0, <2>2, <3>1, <3>2, UpdateSilently DEF ReactToMessage
      <4> QED BY <2>0, <2>2, <3>2, <4>1 DEF OneQuery, Unstarted
    <3>3. CASE unread # NoReply
      <4>1. module.mbx_send_queue = <<>> /\ transit = NoTransit
        BY <1>0, <2>0, <2>2, <3>3 DEF OneQuery
      <4>2. IF b.state \in Asking THEN b.mbx_send_queue \in {<<>>, <<Request[b.state]>>}
            ELSE NoQuery(b.mbx_send_queue)
        BY <1>0, <2>0, <2>2, <3>1, <3>3, <4>1, MessageAsks
      <4> HIDE DEF b
      <4>3. IF module'.state \in Asking
            THEN module'.mbx_send_queue \in {<<>>, <<Request[module'.state]>>}
            ELSE NoQuery(module'.mbx_send_queue)
        BY <1>0, <2>0, <2>1, <4>2, UpdateSilently
      <4> QED
        BY <2>0, <4>1, <4>3 DEF OneQuery, Unstarted, NoTransit, NoReply, Query
    <3> QED BY <3>2, <3>3
  <2>3. CASE module.state \notin Asking
    <3>1. NoQuery(module.mbx_send_queue) /\ transit.request \notin Query /\ unread = NoReply
      BY <2>3 DEF OneQuery
    <3>2. b = a BY <3>1 DEF ReactToMessage
    <3>3. a.state \notin Asking /\ NoQuery(a.mbx_send_queue)
      BY <1>0, <2>0, <2>3, <3>1, SucceedSilently DEF ReactToRead
    <3> HIDE DEF a, b
    <3>4. module'.state \notin Asking /\ NoQuery(module'.mbx_send_queue)
      BY <1>0, <2>0, <2>1, <3>2, <3>3, UpdateSilently
    <3> QED BY <2>0, <3>1, <3>4 DEF OneQuery, Unstarted
  <2> QED BY <2>2, <2>3
<1>4. CASE Write
  <2> DEFINE m == Update(module)
             take == transit = NoTransit /\ m.mbx_send_queue # <<>>
  <2>0. /\ module' = IF take THEN [m EXCEPT !.mbx_send_queue = Tail(@)] ELSE m
        /\ transit' = IF take THEN [request |-> Head(m.mbx_send_queue), at |-> "driver"]
                      ELSE transit
        /\ UNCHANGED <<unread, initialized>> /\ initialized # 0 /\ Staged(module)
    BY <1>0, <1>4 DEF Write, Called
  <2>1. /\ m.mbx_send_queue = module.mbx_send_queue
        /\ module.state \in Asking => m = module
        /\ module.state \notin Asking => m.state \notin Asking
    BY <1>0, UpdateSilently
  <2>2. m \in Module
    BY <1>0, <2>0, UpdateKeeps DEF IInv, TypeOK, ModuleOK
  <2> HIDE DEF m
  <2>3. CASE ~take
    BY <2>0, <2>1, <2>3 DEF OneQuery, Unstarted
  <2>4. CASE take
    <3> DEFINE q == module.mbx_send_queue
    <3>1. /\ module'.state = m.state /\ module'.mbx_send_queue = Tail(q)
          /\ transit'.request = Head(q) /\ q # <<>> /\ transit = NoTransit
          /\ q \in Seq(Requests)
      BY <1>0, <2>0, <2>1, <2>2, <2>4 DEF Module
    <3>2. CASE module.state \in Asking
      <4>1. q = <<Request[module.state]>> /\ unread = NoReply
        BY <2>0, <3>1, <3>2 DEF OneQuery
      <4>2. Tail(q) = <<>> /\ Head(q) = Request[module.state] BY <4>1
      <4> QED BY <2>0, <2>1, <3>1, <3>2, <4>1, <4>2 DEF OneQuery, Unstarted, NoReply
    <3>3. CASE module.state \notin Asking
      <4>1. NoQuery(q) /\ unread = NoReply BY <3>3 DEF OneQuery
      <4>2. NoQuery(Tail(q)) /\ Head(q) \notin Query BY <3>1, <4>1, QueueFacts
      <4> QED BY <2>0, <2>1, <3>1, <3>3, <4>1, <4>2 DEF OneQuery, Unstarted
    <3> QED BY <3>2, <3>3
  <2> QED BY <2>3, <2>4
<1>5. CASE Send
  <2>1. /\ transit # NoTransit /\ UNCHANGED <<module, initialized, unread>>
        /\ transit' = NoTransit \/ transit'.request = transit.request
    BY <1>0, <1>5 DEF Send, DriverUnchanged, Transit
  <2> QED BY <1>0, <2>1 DEF OneQuery, Unstarted, NoTransit, Query
<1>6. CASE Receive
  <2>1. /\ transit.at = "slave" /\ transit # NoTransit /\ transit.request \in Query
        /\ transit' = NoTransit /\ unread'.request = transit.request
        /\ UNCHANGED <<module, initialized>>
    BY <1>6 DEF Receive, DriverUnchanged, IInv, NoTransit
  <2>2. module.state \in Asking /\ initialized # 0 BY <2>1 DEF OneQuery
  <2> QED BY <1>0, <2>1, <2>2 DEF OneQuery, Unstarted, NoTransit
<1>7. CASE Finalized \/ UNCHANGED vars
  BY <1>7 DEF Finalized, vars, OneQuery, Unstarted
<1> QED BY <1>1, <1>2, <1>3, <1>4, <1>5, <1>6, <1>7 DEF Next, ControlStep, CyclicStep

\* As long as the module is configured once, a reply is read in the state that
\* asked for it, however long it takes and wherever the queue is filled.
THEOREM RepliesAreAwaited == MaxConfigures <= 1 => (Spec => []ReplyIsAwaited)
<1> SUFFICES ASSUME MaxConfigures <= 1 PROVE Spec => []ReplyIsAwaited
  OBVIOUS
<1>1. IInv /\ OneQuery => ReplyIsAwaited
  BY QueryFacts DEF IInv, TypeOK, OneQuery, ReplyIsAwaited, Reply
<1>2. IInv /\ OneQuery /\ Unstarted /\ [Next]_vars => (OneQuery /\ Unstarted)'
  BY QueryStep
<1> QED BY <1>1, <1>2, InitQuery, IInvHolds, PTL DEF Spec
=============================================================================
