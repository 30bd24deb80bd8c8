--------------------- MODULE DiagnosticsPublisher_proofs ---------------------
(***************************************************************************)
(* Proofs about DiagnosticsPublisher for every bound: its types, when a    *)
(* publisher's thread outlives its configuration, and the order in which   *)
(* statuses are published.                                                 *)
(***************************************************************************)
EXTENDS DiagnosticsPublisher, SequenceTheorems, TLAPS

\* The state predicates keep their value while nothing changes.
LEMMA Stutter ==
  ASSUME TypeOK, SinglePublisher, Stopping, UNCHANGED vars
  PROVE  TypeOK' /\ SinglePublisher' /\ Stopping'
BY DEF TypeOK, SinglePublisher, Stopping, Alive, vars

\* What the callback publishes last is a status.
LEMMA LastOfMessage ==
  ASSUME TypeOK, msg # <<>>
  PROVE  msg[Len(msg)] \in 0..MaxReports
<1>1. Len(msg) \in 1..Len(msg)
  BY DEF TypeOK
<1>2. msg \in Seq(0..MaxReports)
  BY DEF TypeOK
<1>. QED
  BY <1>1, <1>2, ElementOfSeq

\* Every step preserves the types.
LEMMA TypeStep ==
  ASSUME TypeOK, [Next]_vars
  PROVE  TypeOK'
<1>. USE BoundsAssumption
<1>1. CASE RunDiagnosticsPublisher
  <2>1. executor' \in 0..MaxRuns /\ runs' \in 0..MaxRuns
    BY <1>1 DEF RunDiagnosticsPublisher, FindSpinning, StartSpinning, TypeOK
  <2>2. /\ component' \in {"inactive", component} /\ leftOver' \in {FALSE, leftOver}
        /\ spinning' \in BOOLEAN /\ thread' \in {"starting", "aborted", thread}
    BY <1>1 DEF RunDiagnosticsPublisher, FindSpinning, StartSpinning, TypeOK
  <2>3. leftOver' \in BOOLEAN
    BY <2>2 DEF TypeOK
  <2>. QED
    BY <1>1, <2>1, <2>2, <2>3 DEF RunDiagnosticsPublisher, TypeOK, data
<1>2. CASE Cleanup \/ Shutdown \/ Destroy
  BY <1>2 DEF Cleanup, Shutdown, Destroy, Stop, TypeOK, data
<1>3. CASE Cancel
  BY <1>3 DEF Cancel, TypeOK, data
<1>4. CASE Join
  BY <1>4 DEF Join, TypeOK, data
<1>5. CASE Reset
  <2>1. executor' \in 0..MaxRuns
    BY <1>5 DEF Reset
  <2>. QED
    BY <1>5, <2>1 DEF Reset, TypeOK, data
<1>6. CASE Spin
  BY <1>6 DEF Spin, ThreadOnly, TypeOK, data, driver
<1>7. CASE TestSpinning
  BY <1>7 DEF TestSpinning, ThreadOnly, TypeOK, data, driver
<1>8. CASE Wait
  BY <1>8 DEF Wait, ThreadOnly, TypeOK, data, driver
<1>9. CASE Consume
  <2>1. status_queue \in Seq(0..MaxReports)
    <3>1. CASE status_queue = <<>>
      BY <3>1
    <3>2. CASE \E n \in 0..MaxReports : status_queue = <<n>>
      <4>1. PICK n \in 0..MaxReports : status_queue = <<n>>
        BY <3>2
      <4>2. <<n>> \in Seq(0..MaxReports)
        OBVIOUS
      <4>. QED
        BY <4>1, <4>2
    <3>. QED
      BY <3>1, <3>2 DEF TypeOK
  <2>2. msg' \in Seq(0..MaxReports)
    <3>1. msg \in Seq(0..MaxReports)
      BY DEF TypeOK
    <3>2. msg' = msg \o status_queue
      BY <1>9 DEF Consume
    <3>3. msg \o status_queue \in Seq(0..MaxReports)
      BY ONLY <2>1, <3>1, ConcatProperties
    <3>. QED
      BY <3>2, <3>3
  <2>. QED
    BY <1>9, <2>2 DEF Consume, ThreadOnly, TypeOK, driver
<1>10. CASE Publish
  <2>1. published' \in 0..MaxReports
    BY <1>10, LastOfMessage DEF Publish, Sent, TypeOK
  <2>2. msg' \in Seq(0..MaxReports)
    BY <1>10 DEF Publish, Sent
  <2>. QED
    BY <1>10, <2>1, <2>2 DEF Publish, Sent, ThreadOnly, TypeOK, driver
<1>11. CASE Report
  BY <1>11 DEF Report, Push, ThreadOnly, TypeOK, driver
<1>12. CASE RosShutdown
  BY <1>12, ZenonT(60) DEF RosShutdown, TypeOK, driver, data
<1>13. CASE Ended \/ UNCHANGED vars
  BY <1>13 DEF Ended, TypeOK, vars
<1>14. CASE ConfigureFails \/ ActivateFails
  BY <1>14, ZenonT(60) DEF ConfigureFails, ActivateFails, TypeOK, data
<1>. QED
  BY <1>1, <1>2, <1>3, <1>4, <1>5, <1>6, <1>7, <1>8, <1>9, <1>10, <1>11, <1>12, <1>13,
     <1>14
  DEF Next, Callback, LifecycleStep, ThreadStep

\* Every variable stays in its type; the status queue holds at most one.
THEOREM TypeCorrect == Spec => []TypeOK
<1>1. Init => TypeOK
  <2>1. 0 \in 0..MaxReports /\ 0 \in 0..MaxRuns
    BY BoundsAssumption
  <2>2. <<>> \in Seq(0..MaxReports)
    OBVIOUS
  <2>. QED
    BY <2>1, <2>2 DEF Init, TypeOK
<1>. QED
  BY <1>1, TypeStep, PTL DEF Spec

\* Every step keeps one thread per publisher.
LEMMA PublisherStep ==
  ASSUME TypeOK, SinglePublisher, Stopping, [Next]_vars
  PROVE  SinglePublisher' /\ Stopping'
<1>. USE DEF SinglePublisher, Stopping, Alive
<1>1. CASE RunDiagnosticsPublisher
  <2>1. lifecycle = "idle" /\ lifecycle' = "idle" /\ component = "unconfigured" /\ Alive
    BY <1>1 DEF RunDiagnosticsPublisher, CallbackAllowed
  <2>2. CASE FindSpinning
    BY <2>1, <2>2 DEF FindSpinning
  <2>3. CASE StartSpinning
    <3>1. executor' # 0
      BY <2>3 DEF StartSpinning, TypeOK
    <3>. QED
      BY <2>1, <2>3, <3>1 DEF StartSpinning
  <2>. QED
    BY <1>1, <2>2, <2>3 DEF RunDiagnosticsPublisher
<1>2. CASE Cleanup \/ Shutdown \/ Destroy
  BY <1>2 DEF Cleanup, Shutdown, Destroy, Stop, CallbackAllowed
<1>3. CASE Cancel
  BY <1>3 DEF Cancel
<1>4. CASE Join
  BY <1>4 DEF Join
<1>5. CASE Reset
  BY <1>5 DEF Reset, TypeOK
<1>6. CASE Spin \/ TestSpinning \/ Wait \/ Consume \/ Publish
  BY <1>6 DEF Spin, TestSpinning, Wait, Consume, Publish, ThreadOnly, driver
<1>7. CASE Report \/ RosShutdown
  BY <1>7 DEF Report, RosShutdown, ThreadOnly, driver
<1>8. CASE Ended \/ UNCHANGED vars
  BY <1>8, Stutter DEF Ended
<1>9. CASE ConfigureFails \/ ActivateFails
  BY <1>9 DEF ConfigureFails, ActivateFails, CallbackAllowed
<1>. QED
  BY <1>1, <1>2, <1>3, <1>4, <1>5, <1>6, <1>7, <1>8, <1>9
  DEF Next, Callback, LifecycleStep, ThreadStep

\* A publisher's thread outlives the configuration it was started for only by a
\* failing on_activate and until the next callback that stops it; nothing else
\* makes on_configure assign to a joinable thread.
THEOREM OnePublisher == Spec => []SinglePublisher
<1>1. Init => SinglePublisher /\ Stopping
  BY DEF Init, SinglePublisher, Stopping, Alive
<1>2. SinglePublisher /\ Stopping /\ TypeOK /\ [Next]_vars
        => SinglePublisher' /\ Stopping'
  BY PublisherStep
<1>. QED
  BY <1>1, <1>2, TypeCorrect, PTL DEF Spec

-----------------------------------------------------------------------------
(* The order of statuses *)

\* From the last status published to the last one reported.
Pipeline == <<published>> \o msg \o status_queue
Ascending(s) == \A i \in 1..Len(s) - 1 : s[i] < s[i + 1]

\* The queue is a sequence of statuses.
LEMMA QueueIsSeq ==
  ASSUME TypeOK
  PROVE  /\ status_queue \in Seq(Nat) /\ msg \in Seq(Nat) /\ <<published>> \in Seq(Nat)
         /\ <<published>> \o msg \in Seq(Nat) /\ Pipeline \in Seq(Nat)
         /\ Len(Pipeline) \in Nat \ {0} /\ status \in Nat
<1>1. CASE status_queue = <<>>
  BY <1>1, BoundsAssumption DEF TypeOK, Pipeline
<1>2. CASE \E n \in 0..MaxReports : status_queue = <<n>>
  BY <1>2, BoundsAssumption DEF TypeOK, Pipeline
<1>. QED
  BY <1>1, <1>2 DEF TypeOK

\* The end of a sequence goes after the end of the one before it.
LEMMA AscendingAppend ==
  ASSUME NEW s \in Seq(Nat), Ascending(s), Len(s) \in Nat \ {0}, NEW n \in Nat, s[Len(s)] < n
  PROVE  Ascending(s \o <<n>>) /\ (s \o <<n>>)[Len(s \o <<n>>)] = n
<1>1. /\ Len(s \o <<n>>) = Len(s) + 1 /\ (s \o <<n>>)[Len(s) + 1] = n
      /\ \A i \in 1..Len(s) : (s \o <<n>>)[i] = s[i]
  OBVIOUS
<1>. QED
  BY <1>1 DEF Ascending

\* Concatenation of statuses is associative.
LEMMA Associative ==
  ASSUME NEW s \in Seq(Nat), NEW t \in Seq(Nat), NEW u \in Seq(Nat)
  PROVE  s \o (t \o u) = (s \o t) \o u
BY ConcatProperties, SMTT(30)

\* The queue is drained into the message, which is published as its last
\* status; only a new status is added.
LEMMA OrderStep ==
  ASSUME TypeOK, PublishedInOrder, [Next]_vars
  PROVE  PublishedInOrder'
<1>0. Ascending(Pipeline) /\ Pipeline[Len(Pipeline)] <= status
  BY DEF PublishedInOrder, Pipeline, Ascending
<1>. SUFFICES Ascending(Pipeline') /\ Pipeline'[Len(Pipeline')] <= status'
  BY DEF PublishedInOrder, Pipeline, Ascending
<1>1. CASE Consume
  <2>1. msg' = msg \o status_queue /\ status_queue' = <<>> /\ UNCHANGED <<published, status>>
    BY <1>1 DEF Consume, ThreadOnly
  <2>2. <<published>> \o (msg \o status_queue) = Pipeline
    <3>1. status_queue \in Seq(Nat) /\ msg \in Seq(Nat) /\ <<published>> \in Seq(Nat)
      BY QueueIsSeq
    <3>. QED
      BY <3>1, Associative DEF Pipeline
  <2>3. Pipeline' = Pipeline
    BY <2>1, <2>2, QueueIsSeq, ConcatEmptySeq DEF Pipeline
  <2>. QED
    BY <1>0, <2>1, <2>3
<1>2. CASE Publish
  <2>1. /\ status_queue = <<>> /\ status_queue' = <<>> /\ msg' = <<>> /\ status' = status
        /\ published' = IF msg = <<>> THEN published ELSE msg[Len(msg)]
    BY <1>2 DEF Publish, Sent, ThreadOnly
  <2>2. Pipeline = <<published>> \o msg
    BY <2>1, QueueIsSeq, ConcatEmptySeq DEF Pipeline
  <2>3. published' = Pipeline[Len(Pipeline)]
    <3>1. CASE msg = <<>>
      BY <2>1, <2>2, <3>1
    <3>2. CASE msg # <<>>
      <4>1. Len(msg) \in Nat \ {0}
        BY <3>2, QueueIsSeq, EmptySeq
      <4>2. Len(Pipeline) = Len(msg) + 1 /\ Pipeline[Len(msg) + 1] = msg[Len(msg)]
        BY <2>2, <4>1, QueueIsSeq
      <4>. QED
        BY <2>1, <3>2, <4>2
    <3>. QED
      BY <3>1, <3>2
  <2>4. Pipeline' = <<published'>> \o <<>> \o <<>>
    BY <2>1 DEF Pipeline
  <2>5. Len(Pipeline') = 1 /\ Pipeline'[1] = published'
    BY <2>4
  <2>. QED
    BY <1>0, <2>1, <2>3, <2>5 DEF Ascending
<1>3. CASE Report
  <2>1. /\ status' = status + 1 /\ UNCHANGED <<msg, published>>
        /\ status_queue' = IF status_queue = <<>> THEN <<status'>> ELSE status_queue
    BY <1>3 DEF Report, Push, ThreadOnly
  <2>2. CASE status_queue = <<>>
    <3>1. Pipeline = <<published>> \o msg
      BY <2>2, QueueIsSeq, ConcatEmptySeq DEF Pipeline
    <3>2. Pipeline' = Pipeline \o <<status'>>
      BY <2>1, <2>2, <3>1 DEF Pipeline
    <3>3. Pipeline[Len(Pipeline)] < status' /\ status' \in Nat
      <4>1. Pipeline[Len(Pipeline)] \in Nat
        BY QueueIsSeq, ElementOfSeq
      <4>. QED
        BY <1>0, <2>1, <4>1, QueueIsSeq
    <3>. QED
      BY <1>0, <3>2, <3>3, QueueIsSeq, AscendingAppend
  <2>3. CASE status_queue # <<>>
    <3>1. Pipeline' = Pipeline
      BY <2>1, <2>3 DEF Pipeline
    <3>2. Pipeline[Len(Pipeline)] \in Nat
      BY QueueIsSeq, ElementOfSeq
    <3>. QED
      BY <1>0, <2>1, <3>1, <3>2, QueueIsSeq
  <2>. QED
    BY <2>2, <2>3
<1>4. CASE UNCHANGED data
  <2>1. UNCHANGED <<Pipeline, status>>
    BY <1>4 DEF data, Pipeline
  <2>. QED
    BY <1>0, <2>1
<1>5. [Next]_vars => Consume \/ Publish \/ Report \/ UNCHANGED data
  BY DEF Next, Callback, RunDiagnosticsPublisher, ConfigureFails, ActivateFails, Cleanup, Shutdown, Destroy, Stop,
     LifecycleStep, Cancel, Join, Reset, ThreadStep, Spin, TestSpinning, Wait, RosShutdown,
     Ended, vars, data
<1>. QED
  BY <1>1, <1>2, <1>3, <1>4, <1>5

\* Across restarts of the publisher no status is published out of order or
\* twice, however many are lost at the full queue.
THEOREM Ordered == Spec => []PublishedInOrder
<1>1. Init => PublishedInOrder
  <2>1. <<0>> \o <<>> \o <<>> = <<0>> /\ Len(<<0>>) = 1 /\ <<0>>[1] = 0
    OBVIOUS
  <2>. QED
    BY <2>1 DEF Init, PublishedInOrder
<1>. QED
  BY <1>1, OrderStep, TypeCorrect, PTL DEF Spec
=============================================================================
