------------------------- MODULE AxisStartup_proofs -------------------------
(***************************************************************************)
(* For any inputs, replies, firmware and capacity of the queue, with or    *)
(* without homing: a module that is configured once puts out and asks for  *)
(* what AxisStartup says, in that order.                                   *)
(***************************************************************************)
EXTENDS TMCM1610_proofs

-----------------------------------------------------------------------------
(* Where the module is in the plan of MotionInit *)

\* While the axis is prepared the plan is what is left of MotionPlan, and its
\* first task starts where the module is; in motion nothing is left.
OnPlan(m) ==
  /\ m.state \in MotionInit =>
       /\ Len(m.plan) \in 1..Len(MotionPlan)
       /\ \A i \in 1..Len(m.plan) :
            m.plan[i] = MotionPlan[i + (Len(MotionPlan) - Len(m.plan))]
       /\ m.plan[1][1] = m.state
  /\ m.state \in Motion => m.plan = <<>>

\* The plan with homing halts the axis before it asks for each of two references.
LEMMA HomingPlan ==
  ASSUME Homing
  PROVE  /\ Len(MotionPlan) = 8
         /\ MotionPlan[1] = <<"Initialize", "HaltAxis">>
         /\ MotionPlan[2] = <<"HaltAxis", "HomeAxis">>
         /\ MotionPlan[3] = <<"HomeAxis", "HaltAxis">>
         /\ MotionPlan[4] = <<"HaltAxis", "ZeroAxisPosition">>
         /\ MotionPlan[5] = <<"ZeroAxisPosition", "BackoffAxis">>
         /\ MotionPlan[6] = <<"BackoffAxis", "HaltAxis">>
         /\ MotionPlan[7] = <<"HaltAxis", "ZeroAxisPosition">>
         /\ MotionPlan[8] = <<"ZeroAxisPosition", "Stop">>
BY DEF MotionPlan

\* Without homing it has one task.
LEMMA ShortestPlan ==
  ASSUME ~Homing
  PROVE  Len(MotionPlan) = 1 /\ MotionPlan[1] = <<"Initialize", "Stop">>
BY DEF MotionPlan

\* The tasks of either plan form a chain from Initialize to Stop.
LEMMA PlanIsChain ==
  /\ Len(MotionPlan) \in Nat \ {0} /\ MotionPlan[1][1] = "Initialize"
  /\ \A k \in 1..(Len(MotionPlan) - 1) :
       MotionPlan[k][2] = MotionPlan[k + 1][1] /\ MotionPlan[k][2] \in MotionInit
  /\ MotionPlan[Len(MotionPlan)][2] = "Stop"
<1>1. CASE Homing
  <2>1. ASSUME NEW k \in 1..7
        PROVE  MotionPlan[k][2] = MotionPlan[k + 1][1] /\ MotionPlan[k][2] \in MotionInit
    <3>1. k \in {1, 2, 3, 4, 5, 6, 7} OBVIOUS
    <3>2. CASE k \in {1, 2, 3, 4} BY <1>1, <3>2, HomingPlan DEF MotionInit
    <3>3. CASE k \in {5, 6, 7} BY <1>1, <3>3, HomingPlan DEF MotionInit
    <3> QED BY <3>1, <3>2, <3>3
  <2>2. Len(MotionPlan) = 8 /\ MotionPlan[1][1] = "Initialize" /\ MotionPlan[8][2] = "Stop"
    BY <1>1, HomingPlan
  <2>3. 8 \in Nat \ {0} /\ 8 - 1 = 7 OBVIOUS
  <2> QED BY ONLY <2>1, <2>2, <2>3
<1>2. CASE ~Homing
  <2>1. Len(MotionPlan) = 1 /\ MotionPlan[1] = <<"Initialize", "Stop">>
    BY <1>2, ShortestPlan
  <2>2. 1 \in Nat \ {0} /\ 1..(1 - 1) = {} /\ MotionPlan[1][1] = "Initialize"
        /\ MotionPlan[1][2] = "Stop"
    BY <2>1
  <2> QED BY ONLY <2>1, <2>2
<1> QED BY <1>1, <1>2

\* Entering a state leaves the plan.
LEMMA EnterPlan ==
  ASSUME NEW m \in Module, NEW plan \in Seq(State \X State), NEW s \in State
  PROVE  /\ Enter([m EXCEPT !.plan = plan], s).state = s
         /\ Enter([m EXCEPT !.plan = plan], s).plan = plan
BY DEF Enter, Enqueue, Module

\* Also when nothing is left of it.
LEMMA EnterEmpty ==
  ASSUME NEW m \in Module, NEW s \in State
  PROVE  Enter([m EXCEPT !.plan = <<>>], s).state = s
<1>1. \A plan \in Seq(State \X State) : Enter([m EXCEPT !.plan = plan], s).state = s
  BY EnterPlan
<1>2. <<>> \in Seq(State \X State) OBVIOUS
<1> QED BY ONLY <1>1, <1>2, Zenon

\* A state of MotionInit that succeeds takes the next task.
LEMMA SucceedOnPlan ==
  ASSUME NEW m \in Module, OnPlan(m), m.state \in MotionInit
  PROVE  LET k == Len(MotionPlan) - Len(m.plan) + 1
         IN /\ k \in 1..Len(MotionPlan) /\ m.state = MotionPlan[k][1]
            /\ Succeed(m).state = MotionPlan[k][2]
            /\ Len(Succeed(m).plan) = Len(m.plan) - 1
            /\ OnPlan(Succeed(m))
<1> DEFINE N == Len(MotionPlan)
           L == Len(m.plan)
           k == N - L + 1
           T == Tail(m.plan)
<1>1. /\ m.plan \in Seq(State \X State) /\ L \in 1..N /\ N \in Nat \ {0}
      /\ \A i \in 1..L : m.plan[i] = MotionPlan[i + (N - L)]
      /\ m.plan[1][1] = m.state
  BY PlanIsChain DEF OnPlan, Module
<1>0. /\ L \in Nat /\ k = 1 + (N - L) /\ k \in 1..N
      /\ L # 1 => L - 1 \in 1..N /\ k \in 1..(N - 1) /\ k + 1 = 1 + (N - (L - 1))
                  /\ 1 \in 1..(L - 1)
      /\ L = 1 => k = N
  <2> HIDE DEF N, L
  <2> QED BY <1>1
<1>2. /\ m.plan # <<>> /\ Head(m.plan) = m.plan[1] /\ Len(T) = L - 1
      /\ T \in Seq(State \X State) /\ \A i \in 1..(L - 1) : T[i] = m.plan[i + 1]
  BY <1>1
<1>3. m.plan[1] = MotionPlan[k]
  <2> HIDE DEF N, L, k
  <2>1. 1 \in 1..L BY <1>1, <1>0
  <2> QED BY <1>1, <1>0, <2>1
<1>4. MotionPlan[k][2] \in State
  <2>1. Head(m.plan) \in State \X State BY <1>1, <1>2
  <2> QED BY <1>2, <1>3, <2>1
<1>5. Succeed(m) = Enter([m EXCEPT !.plan = T], MotionPlan[k][2])
  BY <1>1, <1>2, <1>3 DEF Succeed
<1>6. Succeed(m).state = MotionPlan[k][2] /\ Succeed(m).plan = T
  <2> DEFINE s == MotionPlan[k][2]
  <2> HIDE DEF s, T
  <2>1. s \in State /\ T \in Seq(State \X State) BY <1>2, <1>4 DEF s
  <2>2. Enter([m EXCEPT !.plan = T], s).state = s /\ Enter([m EXCEPT !.plan = T], s).plan = T
    BY <2>1, EnterPlan, ZenonT(60)
  <2> QED BY <1>5, <2>2 DEF s
<1> HIDE DEF T, N, L, k
<1>7. CASE L = 1
  <2>1. k = N BY <1>0, <1>7
  <2>2. MotionPlan[k][2] = "Stop" BY <2>1, PlanIsChain DEF N
  <2>3. T = <<>>
    <3>1. Len(T) = 0 BY <1>2, <1>7
    <3> QED BY <1>2, <3>1
  <2> QED BY <1>0, <1>2, <1>3, <1>1, <1>6, <2>2, <2>3 DEF OnPlan, MotionInit, Motion, N, L, k
<1>8. CASE L # 1
  <2>1. /\ L - 1 \in 1..N /\ k \in 1..(N - 1) /\ k + 1 = 1 + (N - (L - 1))
    BY <1>0, <1>8
  <2>2. MotionPlan[k][2] = MotionPlan[k + 1][1] /\ MotionPlan[k][2] \in MotionInit
    BY <2>1, PlanIsChain DEF N
  <2>3. \A i \in 1..(L - 1) : T[i] = MotionPlan[i + (N - (L - 1))]
    <3> SUFFICES ASSUME NEW i \in 1..(L - 1) PROVE T[i] = MotionPlan[i + (N - (L - 1))]
      OBVIOUS
    <3>1. i + 1 \in 1..L /\ (i + 1) + (N - L) = i + (N - (L - 1)) BY <1>1
    <3> QED BY <1>1, <1>2, <3>1
  <2>4. T[1][1] = MotionPlan[k][2]
    <3>1. 1 \in 1..(L - 1) BY <1>0, <1>8
    <3> QED BY <2>1, <2>2, <2>3, <3>1
  <2>5. MotionPlan[k][2] \notin Motion BY <2>2 DEF MotionInit, Motion
  <2>6. OnPlan(Succeed(m))
    BY <1>2, <1>6, <2>1, <2>2, <2>3, <2>4, <2>5 DEF OnPlan, N
  <2> QED BY <1>0, <1>1, <1>2, <1>3, <1>6, <2>6 DEF N, L, k
<1> QED BY <1>7, <1>8

-----------------------------------------------------------------------------
(* What read() does to the phase and the references asked for *)

Phase(m) == CASE m.state \in Configuration -> "configuring"
              [] m.state \in MotionInit -> "preparing"
              [] m.state \in Motion -> "motion"
              [] m.state = "OffStop" -> "failed"

AskedBy(m) ==
  IF ~Homing \/ m.state \notin MotionInit \cup Motion THEN 0
  ELSE CASE Len(m.plan) > 4 -> 0
         [] Len(m.plan) \in 2..4 -> 1
         [] Len(m.plan) < 2 -> 2

Wanted == IF Homing THEN 2 ELSE 0

\* The ways AxisStartup can go on from one module to the next.
Stays(m, n) == Phase(n) = Phase(m) /\ AskedBy(n) = AskedBy(m)
Decides(m, n) == Phase(m) = "configuring" /\ Phase(n) \in {"failed", "preparing"}
                 /\ AskedBy(n) = AskedBy(m)
Asks(m, n) == /\ Phase(m) = "preparing" /\ Phase(n) = "preparing"
                    /\ m.state = "HaltAxis"
                    /\ AskedBy(m) < Wanted /\ AskedBy(n) = AskedBy(m) + 1
Starts(m, n) == /\ Phase(m) = "preparing" /\ Phase(n) = "motion"
                /\ AskedBy(m) = Wanted /\ AskedBy(n) = Wanted
GoesOn(m, n) == Stays(m, n) \/ Decides(m, n) \/ Asks(m, n) \/ Starts(m, n)

\* The phases by state.
LEMMA PhaseFacts ==
  ASSUME NEW m
  PROVE  /\ m.state \in Configuration => Phase(m) = "configuring" /\ AskedBy(m) = 0
         /\ m.state \in MotionInit => Phase(m) = "preparing"
         /\ m.state \in Motion => Phase(m) = "motion"
         /\ m.state = "OffStop" => Phase(m) = "failed" /\ AskedBy(m) = 0
BY DEF Phase, AskedBy, Configuration, MotionInit, Motion

\* In motion the state does not matter.
LEMMA MotionFacts ==
  ASSUME NEW m, NEW n, m.state \in Motion, n.state \in Motion, n.plan = m.plan
  PROVE  Phase(n) = Phase(m) /\ AskedBy(n) = AskedBy(m)
<1>1. Phase(n) = Phase(m) BY PhaseFacts
<1>2. AskedBy(n) = AskedBy(m)
  <2>1. CASE Homing
    <3>1. Len(n.plan) = Len(m.plan) OBVIOUS
    <3>2. /\ AskedBy(n) = CASE Len(n.plan) > 4 -> 0 [] Len(n.plan) \in 2..4 -> 1
                          [] Len(n.plan) < 2 -> 2
          /\ AskedBy(m) = CASE Len(m.plan) > 4 -> 0 [] Len(m.plan) \in 2..4 -> 1
                          [] Len(m.plan) < 2 -> 2
      BY <2>1 DEF AskedBy
    <3> QED BY <3>1, <3>2, Zenon
  <2>2. CASE ~Homing BY <2>2 DEF AskedBy
  <2> QED BY <2>1, <2>2
<1> QED BY <1>1, <1>2

\* Phase and references asked for depend on state and plan.
LEMMA SameFacts ==
  ASSUME NEW m, NEW n, n.state = m.state, n.plan = m.plan
  PROVE  Phase(n) = Phase(m) /\ AskedBy(n) = AskedBy(m)
<1>1. Phase(n) = Phase(m) BY DEF Phase
<1>2. AskedBy(n) = AskedBy(m)
  <2> DEFINE Set(state, plan) ==
        IF ~Homing \/ state \notin MotionInit \cup Motion THEN 0
        ELSE CASE Len(plan) > 4 -> 0
               [] Len(plan) \in 2..4 -> 1
               [] Len(plan) < 2 -> 2
  <2>1. AskedBy(m) = Set(m.state, m.plan) BY Zenon DEF AskedBy
  <2>2. AskedBy(n) = Set(n.state, n.plan) BY Zenon DEF AskedBy
  <2> HIDE DEF Set
  <2> QED BY <2>1, <2>2
<1> QED BY <1>1, <1>2

\* The n-th last task has been started with so many references asked for.
LEMMA AskedFacts ==
  ASSUME NEW m, m.state \in MotionInit \cup Motion, Len(m.plan) \in Nat, Homing
  PROVE  /\ Len(m.plan) > 4 => AskedBy(m) = 0
         /\ Len(m.plan) \in 2..4 => AskedBy(m) = 1
         /\ Len(m.plan) < 2 => AskedBy(m) = 2
<1> DEFINE L == Len(m.plan)
<1>1. AskedBy(m) = CASE L > 4 -> 0 [] L \in 2..4 -> 1 [] L < 2 -> 2
  BY DEF AskedBy
<1> HIDE DEF L
<1>2. L \in Nat BY DEF L
<1>3. /\ L > 4 => AskedBy(m) = 0
      /\ L \in 2..4 => AskedBy(m) = 1
      /\ L < 2 => AskedBy(m) = 2
  BY <1>1, <1>2
<1> QED BY <1>3 DEF L

\* A task of MotionPlan that is done asks for a reference exactly if the axis was
\* halted before and is to be zeroed next; the last one starts the motion.
LEMMA TaskDone ==
  ASSUME NEW m \in Module, OnPlan(m), m.state \in MotionInit
  PROVE  GoesOn(m, Succeed(m)) /\ Succeed(m).state \in MotionInit \cup {"Stop"}
<1> DEFINE L == Len(m.plan)
           k == Len(MotionPlan) - L + 1
           n == Succeed(m)
<1>1. /\ k \in 1..Len(MotionPlan) /\ m.state = MotionPlan[k][1]
      /\ n.state = MotionPlan[k][2] /\ Len(n.plan) = L - 1 /\ L \in Nat
  <2>1. m.plan \in Seq(State \X State) BY DEF Module
  <2>2. L \in Nat BY <2>1
  <2>3. /\ k \in 1..Len(MotionPlan) /\ m.state = MotionPlan[k][1]
        /\ n.state = MotionPlan[k][2] /\ Len(n.plan) = L - 1
    BY SucceedOnPlan
  <2> QED BY <2>2, <2>3
<1> HIDE DEF L, n
<1>2. n.state \in MotionInit \cup {"Stop"}
  <2>1. CASE k = Len(MotionPlan) BY <1>1, <2>1, PlanIsChain
  <2>2. CASE k # Len(MotionPlan)
    <3>1. k \in 1..(Len(MotionPlan) - 1)
      <4> DEFINE N == Len(MotionPlan)
      <4>1. N \in Nat BY PlanIsChain
      <4> HIDE DEF N
      <4> QED BY <1>1, <2>2, <4>1 DEF N
    <3> QED BY <1>1, <3>1, PlanIsChain
  <2> QED BY <2>1, <2>2
<1>3. CASE ~Homing
  <2>1. Len(MotionPlan) = 1 /\ MotionPlan[1] = <<"Initialize", "Stop">>
    BY <1>3, ShortestPlan
  <2>2. n.state = "Stop" BY <1>1, <2>1
  <2>3. Phase(m) = "preparing" /\ Phase(n) = "motion" BY <2>2, PhaseFacts DEF Motion
  <2>4. AskedBy(m) = 0 /\ AskedBy(n) = 0 /\ Wanted = 0 BY <1>3 DEF AskedBy, Wanted
  <2> QED BY <1>2, <2>3, <2>4 DEF GoesOn, Starts, n
<1>4. CASE Homing
  <2>0. L = 9 - k /\ k \in 1..8 /\ Len(n.plan) = 8 - k
    <3>1. Len(MotionPlan) = 8 BY <1>4, HomingPlan
    <3> QED BY <1>1, <3>1
  <2>1. Wanted = 2 /\ Phase(m) = "preparing" BY <1>4, PhaseFacts DEF Wanted
  <2>2. /\ L > 4 => AskedBy(m) = 0
        /\ L \in 2..4 => AskedBy(m) = 1
        /\ L < 2 => AskedBy(m) = 2
    BY <1>1, <1>4, AskedFacts DEF L
  <2>3. /\ L - 1 > 4 => AskedBy(n) = 0
        /\ L - 1 \in 2..4 => AskedBy(n) = 1
        /\ L - 1 < 2 => AskedBy(n) = 2
    <3>1. n.state \in MotionInit \cup Motion BY <1>2 DEF Motion
    <3>2. Len(n.plan) \in Nat BY <1>1, <2>0
    <3> QED BY <1>1, <1>4, <3>1, <3>2, AskedFacts
  <2> HIDE DEF k
  <2>4. CASE k \in {4, 7}
    <3>1. m.state = "HaltAxis" /\ n.state = "ZeroAxisPosition"
      BY <1>1, <1>4, <2>4, HomingPlan, SMTT(30) DEF k
    <3>2. Phase(n) = "preparing" BY <3>1, PhaseFacts DEF MotionInit
    <3>3. AskedBy(m) < 2 /\ AskedBy(n) = AskedBy(m) + 1 BY <2>0, <2>2, <2>3, <2>4
    <3> QED BY <1>2, <2>1, <3>1, <3>2, <3>3 DEF GoesOn, Asks, n
  <2>5. CASE k = 8
    <3>1. n.state = "Stop" BY <1>1, <1>4, <2>5, HomingPlan DEF k
    <3>2. Phase(n) = "motion" BY <3>1, PhaseFacts DEF Motion
    <3>3. AskedBy(m) = 2 /\ AskedBy(n) = 2 BY <2>0, <2>2, <2>3, <2>5
    <3> QED BY <1>2, <2>1, <3>2, <3>3 DEF GoesOn, Starts, n
  <2>6. CASE k \in {1, 2, 3, 5, 6}
    <3>1. n.state \in MotionInit
      <4>1. CASE k \in {1, 2, 3} BY <1>1, <1>4, <4>1, HomingPlan, SMTT(30) DEF k, MotionInit
      <4>2. CASE k \in {5, 6} BY <1>1, <1>4, <4>2, HomingPlan, SMTT(30) DEF k, MotionInit
      <4> QED BY <2>6, <4>1, <4>2
    <3>2. Phase(n) = "preparing" BY <3>1, PhaseFacts
    <3>3. AskedBy(n) = AskedBy(m) BY <2>0, <2>2, <2>3, <2>6
    <3> QED BY <1>2, <2>1, <3>2, <3>3 DEF GoesOn, Stays, n
  <2> QED BY <2>0, <2>4, <2>5, <2>6
<1> QED BY <1>3, <1>4

\* A reply leads on within the configuration, or ends it.
LEMMA MessageState ==
  ASSUME NEW m \in Module, Staged(m), m.state \in Asking, NEW reply
  PROVE  LET n == ReactToMessage(m, reply)
         IN n = m \/ n.state \in {"OffStop", "ReadEncoderTicks", "ResetTimeout"}
<1> DEFINE r == ReactToMessage(m, reply)
<1>1. CASE reply = NoReply BY <1>1 DEF ReactToMessage
<1>2. CASE reply # NoReply /\ (reply.status # "SUCCESS" \/ reply.request # Request[m.state])
  <2>1. r = Enter([m EXCEPT !.plan = <<>>], "OffStop")
    BY <1>2 DEF ReactToMessage, Fail, Asking
  <2>2. "OffStop" \in State BY DEF State
  <2>3. Enter([m EXCEPT !.plan = <<>>], "OffStop").state = "OffStop"
    BY <2>2, EnterEmpty
  <2> QED BY <2>1, <2>3
<1>3. CASE /\ reply # NoReply /\ ~(reply.status # "SUCCESS" \/ reply.request # Request[m.state])
           /\ m.state = "ReadFW"
  <2> DEFINE n == [m EXCEPT !.firmware_version = Firmware]
  <2>1. n \in Module /\ n.state = "ReadFW" /\ n.plan = ConfigurationPlan
    BY <1>3, DriveAssumption DEF Module, Staged
  <2>2. r = Succeed(n) BY <1>3 DEF ReactToMessage
  <2> HIDE DEF n
  <2>3. Succeed(n) = Enter([n EXCEPT !.plan = Tail(n.plan)], "ReadEncoderTicks")
    BY <2>1, PlansTyped DEF Succeed
  <2>4. Tail(n.plan) \in Seq(State \X State) BY <2>1, PlansTyped
  <2>5. "ReadEncoderTicks" \in State BY DEF State, Configuration
  <2>6. Enter([n EXCEPT !.plan = Tail(n.plan)], "ReadEncoderTicks").state = "ReadEncoderTicks"
    <3> DEFINE e == Tail(n.plan)
    <3>1. e \in Seq(State \X State) BY <2>4
    <3> HIDE DEF e
    <3>2. Enter([n EXCEPT !.plan = e], "ReadEncoderTicks").state = "ReadEncoderTicks"
      BY <2>1, <2>5, <3>1, EnterPlan
    <3> QED BY <3>2 DEF e
  <2> QED BY <2>2, <2>3, <2>6
<1>4. CASE /\ reply # NoReply /\ ~(reply.status # "SUCCESS" \/ reply.request # Request[m.state])
           /\ m.state = "ReadEncoderTicks"
  <2> DEFINE n == [m EXCEPT !.encoder_ticks = "known"]
             task == <<"ReadEncoderTicks", "ResetTimeout">>
  <2>1. n \in Module /\ n.state = "ReadEncoderTicks" /\ n.plan = <<task>>
    BY <1>4 DEF Module, Staged
  <2>2. r = Succeed(n) BY <1>4 DEF ReactToMessage
  <2> HIDE DEF n
  <2>3. n.plan # <<>> /\ Head(n.plan) = task /\ Tail(n.plan) = <<>> BY <2>1
  <2>4. Succeed(n) = Enter([n EXCEPT !.plan = <<>>], "ResetTimeout")
    BY <2>1, <2>3 DEF Succeed
  <2>5. "ResetTimeout" \in State BY DEF State, Configuration
  <2>6. Enter([n EXCEPT !.plan = <<>>], "ResetTimeout").state = "ResetTimeout"
    BY <2>1, <2>5, EnterEmpty
  <2> QED BY <2>2, <2>4, <2>6
<1> QED BY <1>1, <1>2, <1>3, <1>4 DEF Asking

\* The update stays within the motion region.
LEMMA UpdatePlan ==
  ASSUME NEW m \in Module, command_mode \in COMMAND_MODE
  PROVE  /\ m.state \notin Motion => Update(m) = m
         /\ m.state \in Motion => Update(m).state \in Motion /\ Update(m).plan = m.plan
BY DEF Update, Module, Motion, COMMAND_MODE

\* read() goes on by one step at most, and only as AxisStartup allows.
LEMMA ReadGoesOn ==
  ASSUME NEW m \in Module, ModuleOK(m), Staged(m), OnPlan(m), NEW inputs, NEW reply,
         command_mode \in COMMAND_MODE
  PROVE  LET n == Update(ReactToMessage(ReactToRead(m, inputs), reply))
         IN OnPlan(n) /\ GoesOn(m, n)
<1> DEFINE a == ReactToRead(m, inputs)
           b == ReactToMessage(a, reply)
           n == Update(b)
<1>0. a \in Module /\ b \in Module /\ Staged(a)
  BY ReadKeeps, MessageKeeps
<1> HIDE DEF a, b, n
<1>1. CASE m.state \in Asking
  <2>1. a = m BY <1>1 DEF a, ReactToRead, Awaited, Asking
  <2>2. b = m \/ b.state \in {"OffStop", "ReadEncoderTicks", "ResetTimeout"}
    BY <1>1, <2>1, MessageState DEF b
  <2>3. b.state \notin MotionInit \cup Motion BY <1>1, <2>2 DEF Asking, MotionInit, Motion
  <2>4. n = b BY <1>0, <2>3, UpdatePlan DEF n
  <2>5. Phase(m) = "configuring" /\ AskedBy(m) = 0
    BY <1>1, PhaseFacts DEF Asking, Configuration
  <2>6. AskedBy(b) = 0 /\ Phase(b) \in {"failed", "configuring"}
    BY <2>2, <2>5, PhaseFacts DEF Configuration
  <2> QED BY <2>3, <2>4, <2>5, <2>6 DEF OnPlan, GoesOn, Stays, Decides, n, b, a
<1>2. CASE m.state = "ResetTimeout"
  <2>1. a = m \/ (a.state = "Initialize" /\ a.plan = MotionPlan)
    <3>1. m.plan = <<>> BY <1>2 DEF Staged
    <3>2. Succeed(m) = Enter([m EXCEPT !.plan = MotionPlan], "Initialize")
      BY <1>2, <3>1 DEF Succeed, Configuration
    <3>3. "Initialize" \in State /\ MotionPlan \in Seq(State \X State)
      BY PlansTyped DEF State, MotionInit, Motion
    <3>4. \A plan \in Seq(State \X State), s \in State :
            /\ Enter([m EXCEPT !.plan = plan], s).state = s
            /\ Enter([m EXCEPT !.plan = plan], s).plan = plan
      BY EnterPlan
    <3>5. /\ Enter([m EXCEPT !.plan = MotionPlan], "Initialize").state = "Initialize"
          /\ Enter([m EXCEPT !.plan = MotionPlan], "Initialize").plan = MotionPlan
      BY ONLY <3>3, <3>4, ZenonT(30)
    <3> QED BY <3>2, <3>5 DEF a, ReactToRead
  <2>2. a.state \notin Asking BY <1>2, <2>1 DEF Asking
  <2>3. b = a BY <2>2 DEF b, ReactToMessage, Asking
  <2>4. n = a BY <1>0, <1>2, <2>1, <2>3, UpdatePlan DEF n, Motion
  <2>5. Phase(m) = "configuring" /\ AskedBy(m) = 0
    BY <1>2, PhaseFacts DEF Configuration
  <2>6. CASE a = m
    BY <2>4, <2>6 DEF GoesOn, Stays, n, b, a
  <2>7. CASE a.state = "Initialize" /\ a.plan = MotionPlan
    <3>1. OnPlan(a)
      <4> DEFINE N == Len(MotionPlan)
      <4>1. N \in Nat \ {0} /\ MotionPlan[1][1] = "Initialize" BY PlanIsChain
      <4> HIDE DEF N
      <4>2. N \in 1..N /\ \A i \in 1..N : i + (N - N) = i BY <4>1
      <4>3. a.state \notin Motion BY <2>7 DEF Motion
      <4> QED BY <2>7, <4>1, <4>2, <4>3 DEF OnPlan, N
    <3>2. Phase(a) = "preparing" BY <2>7, PhaseFacts DEF MotionInit
    <3>3. AskedBy(a) = 0
      <4>1. CASE Homing
        <5>1. Len(a.plan) = 8 BY <2>7, <4>1, HomingPlan
        <5>2. 8 > 4 /\ 8 \in Nat OBVIOUS
        <5> QED BY <2>7, <4>1, <5>1, <5>2, AskedFacts DEF MotionInit
      <4>2. CASE ~Homing BY <4>2 DEF AskedBy
      <4> QED BY <4>1, <4>2
    <3> QED BY <2>4, <2>5, <3>1, <3>2, <3>3 DEF GoesOn, Decides, n, b, a
  <2> QED BY <1>2, <2>1, <2>4, <2>6, <2>7 DEF OnPlan, MotionInit, Motion, n, b, a
<1>3. CASE m.state \in MotionInit
  <2>1. a = m \/ a = Succeed(m) BY DEF a, ReactToRead
  <2>2. OnPlan(a) /\ GoesOn(m, a) /\ a.state \in MotionInit \cup {"Stop"}
    BY <1>3, <2>1, TaskDone, SucceedOnPlan DEF GoesOn, Stays
  <2>3. b = a BY <2>2 DEF b, ReactToMessage, MotionInit
  <2>4. CASE a.state \in MotionInit
    <3>1. n = a BY <1>0, <2>3, <2>4, UpdatePlan DEF n, MotionInit, Motion
    <3> QED BY <2>2, <3>1 DEF n, b, a
  <2>5. CASE a.state = "Stop"
    <3>1. n.state \in Motion /\ n.plan = a.plan /\ a.state \in Motion
      BY <1>0, <2>3, <2>5, UpdatePlan DEF n, Motion
    <3>2. Phase(n) = Phase(a) /\ AskedBy(n) = AskedBy(a)
      BY <3>1, MotionFacts
    <3>3. OnPlan(n) BY <2>2, <3>1 DEF OnPlan, MotionInit, Motion
    <3>4. GoesOn(m, n) BY <2>2, <3>2 DEF GoesOn, Stays, Decides, Asks, Starts
    <3> QED BY <3>3, <3>4 DEF n, b, a
  <2> QED BY <2>2, <2>4, <2>5
<1>4. CASE m.state \in Motion
  <2>1. a = m BY <1>4 DEF a, ReactToRead, Awaited, Motion
  <2>2. b = m BY <1>4, <2>1 DEF b, ReactToMessage, Motion
  <2>3. n.state \in Motion /\ n.plan = m.plan
    BY <1>0, <1>4, <2>2, UpdatePlan DEF n
  <2>4. Phase(n) = Phase(m) /\ AskedBy(n) = AskedBy(m)
    BY <1>4, <2>3, MotionFacts
  <2>5. OnPlan(n) BY <1>4, <2>3 DEF OnPlan, MotionInit, Motion
  <2> QED BY <2>4, <2>5 DEF GoesOn, Stays, n, b, a
<1>5. CASE m.state = "OffStop"
  <2>1. a = m BY <1>5 DEF a, ReactToRead, Awaited
  <2>2. b = m BY <1>5, <2>1 DEF b, ReactToMessage
  <2>3. n = m BY <1>0, <1>5, <2>2, UpdatePlan DEF n, Motion
  <2> QED BY <2>3 DEF GoesOn, Stays, n, b, a
<1>6. m.state \in State BY DEF Module
<1> QED BY <1>1, <1>2, <1>3, <1>4, <1>5, <1>6 DEF State, Configuration, Asking

-----------------------------------------------------------------------------
(* The invariant of a module that is configured once *)

\* A module that waits for its axis to halt has told it to.
Halted == turn = "read" /\ module.state = "HaltAxis" => RxPDO.mode = "STOP"

StartInv == OnPlan(module) /\ Halted

\* The module of read() is on the plan and goes on along it.
LEMMA ReadStep ==
  ASSUME IInv, OnPlan(module), Read
  PROVE  OnPlan(module') /\ GoesOn(module, module')
<1>1. /\ module \in Module /\ ModuleOK(module) /\ Staged(module)
      /\ command_mode \in COMMAND_MODE
  BY DEF IInv, TypeOK, ModuleOK, Read, Called
<1>2. module' = Update(ReactToMessage(ReactToRead(module, TxPDO'), unread))
  BY DEF Read
<1>3. \A inputs, reply :
        LET n == Update(ReactToMessage(ReactToRead(module, inputs), reply))
        IN OnPlan(n) /\ GoesOn(module, n)
  BY <1>1, ReadGoesOn
<1> QED BY <1>2, <1>3

\* write() leaves the state, but for the update, and the plan.
LEMMA WriteStep ==
  ASSUME IInv, Write
  PROVE  /\ module'.state = Update(module).state /\ module'.plan = module.plan
         /\ module.state \notin Motion => module'.state = module.state
         /\ module.state \in Motion => module'.state \in Motion
<1> DEFINE m == Update(module)
<1>1. /\ module \in Module /\ ModuleOK(module) /\ Staged(module)
      /\ command_mode \in COMMAND_MODE
  BY DEF IInv, TypeOK, ModuleOK, Write, Called
<1>2. m \in Module BY <1>1, UpdateKeeps
<1>3. module' = m \/ module' = [m EXCEPT !.mbx_send_queue = Tail(@)] BY DEF Write
<1>4. /\ module.state \notin Motion => m = module
      /\ module.state \in Motion => m.state \in Motion /\ m.plan = module.plan
  BY <1>1, UpdatePlan
<1> HIDE DEF m
<1>5. module'.state = m.state /\ module'.plan = m.plan BY <1>2, <1>3 DEF Module
<1> QED BY <1>4, <1>5 DEF m

\* The only configure() leaves the module as it is, or enters its first state.
LEMMA ConfigureStep ==
  ASSUME IInv, Unstarted, MaxConfigures <= 1, Configure
  PROVE  module.state = "ReadFW" /\ module'.state = "ReadFW"
<1>1. initialized = 0 /\ module \in Module
  BY BoundsAssumption DEF IInv, TypeOK, Configure
<1>2. module.state = "ReadFW" BY <1>1 DEF Unstarted
<1>3. CASE UNCHANGED <<module, initialized>> BY <1>2, <1>3
<1>4. CASE module' = Enter([module EXCEPT !.plan = ConfigurationPlan], "ReadFW")
  <2>1. "ReadFW" \in State BY DEF State, Configuration
  <2>2. Enter([module EXCEPT !.plan = ConfigurationPlan], "ReadFW").state = "ReadFW"
    <3> DEFINE n == [module EXCEPT !.plan = ConfigurationPlan]
    <3>1. n \in Module BY <1>1, PlansTyped DEF Module
    <3> HIDE DEF n
    <3>2. Enter(n, "ReadFW").state = "ReadFW"
      BY <2>1, <3>1 DEF Enter, Enqueue, Module
    <3> QED BY <3>2 DEF n
  <2> QED BY <1>2, <1>4, <2>2
<1> QED BY <1>2, <1>3, <1>4 DEF Configure, ConfigureModule

\* Nothing else touches the module or its outputs.
LEMMA OtherSteps ==
  ASSUME [Next]_vars, ~Configure, ~Read, ~Write
  PROVE  UNCHANGED <<module, RxPDO>> /\ (turn' = turn)
BY DEF Next, Activate, Deactivate, Cleanup, Shutdown, Lifecycle, SwitchMode, ControlStep,
   CyclicStep, Send, Receive, DriverUnchanged, Finalized, vars

LEMMA StartStep ==
  MaxConfigures <= 1 /\ IInv /\ Unstarted /\ StartInv /\ [Next]_vars => StartInv'
<1> SUFFICES ASSUME MaxConfigures <= 1, IInv, Unstarted, StartInv, [Next]_vars
             PROVE  OnPlan(module') /\ Halted'
  BY DEF StartInv, OnPlan
<1>0. OnPlan(module) /\ Halted BY DEF StartInv
<1>1. CASE Configure
  <2>1. module'.state = "ReadFW" BY <1>1, ConfigureStep
  <2> QED BY <2>1 DEF OnPlan, Halted, MotionInit, Motion
<1>2. CASE Read
  <2>1. turn' = "write"
    <3>1. initialized \in Nat /\ initialized <= 1 /\ calls \in Nat
      BY BoundsAssumption DEF IInv, TypeOK
    <3> QED BY <1>2, <3>1 DEF Read, Advance
  <2> QED BY <1>0, <1>2, <2>1, ReadStep DEF Halted
<1>3. CASE Write
  <2>1. /\ module'.state = Update(module).state /\ module'.plan = module.plan
        /\ module.state \notin Motion => module'.state = module.state
        /\ module.state \in Motion => module'.state \in Motion
    BY <1>3, WriteStep
  <2>2. OnPlan(module')
    <3>1. CASE module.state \in Motion
      BY <1>0, <2>1, <3>1 DEF OnPlan, MotionInit, Motion
    <3>2. CASE module.state \notin Motion
      BY <1>0, <2>1, <3>2 DEF OnPlan
    <3> QED BY <3>1, <3>2
  <2>3. RxPDO' \in ReactToWrite(Update(module)) BY <1>3 DEF Write, Outputs
  <2>4. module'.state = "HaltAxis" => RxPDO'.mode = "STOP"
    BY <2>1, <2>3 DEF ReactToWrite
  <2> QED BY <2>2, <2>4 DEF Halted
<1>4. CASE ~Configure /\ ~Read /\ ~Write
  BY <1>0, <1>4, OtherSteps DEF Halted
<1> QED BY <1>1, <1>2, <1>3, <1>4

-----------------------------------------------------------------------------
(* The steps of AxisStartup *)

\* What the outputs may be depends on the phase.
LEMMA ToldByPhase ==
  ASSUME NEW m, NEW o \in ReactToWrite(m), m.state \in State
  PROVE  Told(o) \in CASE Phase(m) \in {"configuring", "failed"} -> {"stop"}
                       [] Phase(m) = "preparing" -> {"stop", "move"}
                       [] Phase(m) = "motion" -> {"stop", "command"}
<1>1. CASE m.state \in Configuration \cup {"OffStop"}
  <2>1. o.mode = "STOP" BY <1>1 DEF ReactToWrite, Configuration
  <2>2. Phase(m) \in {"configuring", "failed"} BY <1>1, PhaseFacts
  <2> QED BY <2>1, <2>2 DEF Told
<1>2. CASE m.state \in MotionInit
  <2>1. Phase(m) = "preparing" BY <1>2, PhaseFacts
  <2>2. o.mode = "STOP" \/ o.mode = "INITIALIZE" \/ o.setpoint \in {"retreat", "home", "backoff"}
    BY <1>2 DEF ReactToWrite, MotionInit
  <2>3. Told(o) \in {"stop", "move"} BY <2>2 DEF Told
  <2> QED BY <2>1, <2>3
<1>3. CASE m.state \in Motion
  <2>1. Phase(m) = "motion" BY <1>3, PhaseFacts
  <2>2. o.mode = "STOP" \/ (o.mode # "INITIALIZE" /\ o.setpoint \in {"zero", "command"})
    BY <1>3 DEF ReactToWrite, Motion
  <2>3. Told(o) \in {"stop", "command"} BY <2>2 DEF Told
  <2> QED BY <2>1, <2>3
<1> QED BY <1>1, <1>2, <1>3 DEF State

\* The actions of AxisStartup, in terms of the module.
LEMMA StartupSteps ==
  /\ UNCHANGED <<Phase(module), AskedBy(module), Told(RxPDO)>> => UNCHANGED Startup!vars
  /\ /\ Decides(module, module') /\ Told(RxPDO)' = Told(RxPDO)
     => Startup!Next
  /\ /\ Asks(module, module') /\ Told(RxPDO) = "stop" /\ Told(RxPDO)' = Told(RxPDO)
     => Startup!Next
  /\ /\ Starts(module, module') /\ Told(RxPDO)' = Told(RxPDO)
     => Startup!Next
  /\ /\ Phase(module') = Phase(module) /\ AskedBy(module') = AskedBy(module)
     /\ Told(RxPDO)' \in CASE Phase(module) \in {"configuring", "failed"} -> {"stop"}
                           [] Phase(module) = "preparing" -> {"stop", "move"}
                           [] Phase(module) = "motion" -> {"stop", "command"}
     => Startup!Next
  /\ Phase(module') = "configuring" /\ AskedBy(module') = 0
     => Startup!Next
BY DEF Startup!vars, Startup!Next, Startup!Configure, Startup!Fail, Startup!Configured,
   Startup!Ask, Startup!Ready, Startup!Write, Phase, AskedBy, ReferencesAsked, Told,
   Decides, Asks, Starts, Wanted

\* read() goes on within a phase, or to the next; write() puts out what
\* the phase allows; configure() starts over; the rest does not concern it.
LEMMA StartSimulation ==
  MaxConfigures <= 1 /\ IInv /\ Unstarted /\ StartInv /\ [Next]_vars
    => [Startup!Next]_(Startup!vars)
<1> SUFFICES ASSUME MaxConfigures <= 1, IInv, Unstarted, StartInv, [Next]_vars
             PROVE  [Startup!Next]_(Startup!vars)
  OBVIOUS
<1>0. OnPlan(module) /\ Halted BY DEF StartInv
<1>1. CASE Configure
  <2>1. module'.state = "ReadFW" BY <1>1, ConfigureStep
  <2>2. Phase(module') = "configuring" /\ AskedBy(module') = 0
    BY <2>1, PhaseFacts DEF Configuration
  <2> QED BY <2>2, StartupSteps
<1>2. CASE Read
  <2>1. GoesOn(module, module') BY <1>0, <1>2, ReadStep
  <2>2. Told(RxPDO)' = Told(RxPDO) BY <1>2 DEF Read
  <2>3. CASE Stays(module, module')
    <3>1. UNCHANGED <<Phase(module), AskedBy(module), Told(RxPDO)>>
      BY <2>2, <2>3 DEF Stays
    <3> QED BY <3>1, StartupSteps
  <2>4. CASE Asks(module, module')
    <3>1. RxPDO.mode = "STOP" BY <1>0, <1>2, <2>4 DEF Asks, Halted, Read, Called
    <3>2. Told(RxPDO) = "stop" BY <3>1 DEF Told
    <3> QED BY <2>2, <2>4, <3>2, StartupSteps
  <2> QED BY <2>1, <2>2, <2>3, <2>4, StartupSteps DEF GoesOn
<1>3. CASE Write
  <2> DEFINE m == Update(module)
  <2>1. /\ module'.state = m.state /\ module'.plan = module.plan
        /\ module.state \notin Motion => module'.state = module.state
        /\ module.state \in Motion => module'.state \in Motion
    BY <1>3, WriteStep
  <2>2. Phase(module') = Phase(module) /\ AskedBy(module') = AskedBy(module)
    <3>1. CASE module.state \in Motion BY <2>1, <3>1, MotionFacts
    <3>2. CASE module.state \notin Motion BY <2>1, <3>2, SameFacts
    <3> QED BY <3>1, <3>2
  <2>3. RxPDO' \in ReactToWrite(m) BY <1>3 DEF Write, Outputs
  <2>4. m \in Module
    BY <1>3, UpdateKeeps DEF IInv, TypeOK, ModuleOK, Write, Called
  <2> HIDE DEF m
  <2>5. m.state \in State BY <2>4 DEF Module
  <2>6. Told(RxPDO') \in CASE Phase(m) \in {"configuring", "failed"} -> {"stop"}
                           [] Phase(m) = "preparing" -> {"stop", "move"}
                           [] Phase(m) = "motion" -> {"stop", "command"}
    BY <2>3, <2>5, ToldByPhase
  <2>7. Phase(m) = Phase(module') BY <2>1 DEF Phase
  <2>8. Told(RxPDO)' \in CASE Phase(module) \in {"configuring", "failed"} -> {"stop"}
                           [] Phase(module) = "preparing" -> {"stop", "move"}
                           [] Phase(module) = "motion" -> {"stop", "command"}
    BY <2>2, <2>6, <2>7
  <2> QED BY <2>2, <2>8, StartupSteps
<1>4. CASE ~Configure /\ ~Read /\ ~Write
  <2>1. UNCHANGED <<Phase(module), AskedBy(module), Told(RxPDO)>> BY <1>4, OtherSteps
  <2> QED BY <2>1, StartupSteps
<1> QED BY <1>1, <1>2, <1>3, <1>4

-----------------------------------------------------------------------------
\* A module that is configured once goes on as AxisStartup says: its output is
\* stop until its configuration is read, it asks for each reference only where
\* its output is stop, lets controllers command the axis only after it has asked
\* for the last one, and stays off after a failure.
THEOREM StartupRefinement == MaxConfigures <= 1 => (Spec => ImplementsAxisStartup)
<1> SUFFICES ASSUME MaxConfigures <= 1 PROVE Spec => ImplementsAxisStartup
  OBVIOUS
<1>1. Init => Startup!Init
  BY DEF Init, Startup!Init, Configuration, MotionInit, Motion, ReferencesAsked, Told, StopOutput
<1>2. Init => StartInv
  BY DEF Init, StartInv, OnPlan, Halted, MotionInit, Motion
<1>3. MaxConfigures <= 1 /\ IInv /\ OneQuery /\ Unstarted /\ [Next]_vars
        => (OneQuery /\ Unstarted)'
  BY QueryStep
<1>4. MaxConfigures <= 1 /\ IInv /\ Unstarted /\ StartInv /\ [Next]_vars => StartInv'
  BY StartStep
<1>5. MaxConfigures <= 1 /\ IInv /\ Unstarted /\ StartInv /\ [Next]_vars
        => [Startup!Next]_(Startup!vars)
  BY StartSimulation
<1>6. MaxConfigures <= 1 OBVIOUS
<1> QED
  BY <1>1, <1>2, <1>3, <1>4, <1>5, <1>6, InitQuery, IInvHolds, PTL
     DEF Spec, ImplementsAxisStartup, Startup!Spec
=============================================================================
