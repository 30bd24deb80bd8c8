------------------------ MODULE DiagnosticsPublisher ------------------------
(***************************************************************************)
(* The diagnostics publisher of SOEMDriver: a node with a timer, an        *)
(* executor and the thread that spins it, started at the end of            *)
(* on_configure and stopped by on_cleanup, on_shutdown and the destructor. *)
(* An on_activate that throws may end in another state than the configured *)
(* one without any of them.                                                *)
(* Its timer empties the status queue of the master and publishes.         *)
(*                                                                         *)
(* The executor is external: spin() raises the flag `spinning` and runs    *)
(* callbacks while it is up and ROS is; cancel() lowers it.  The master is *)
(* external too: it reports one status after another, here numbered.       *)
(***************************************************************************)
EXTENDS Naturals, Sequences

CONSTANTS
  MaxReports,   \* bound on the statuses reported
  MaxRuns       \* bound on the publishers started

ASSUME BoundsAssumption == MaxReports \in Nat /\ MaxRuns \in Nat

VARIABLES
  component,     \* lifecycle state of the driver
  lifecycle,     \* where the lifecycle thread is
  after,         \* state the component goes to with the callback
  ok,            \* rclcpp::ok(): ROS was not shut down
  executor,      \* driver_ros_node_executor: its number, 0 for none
  spinning,      \* flag of the executor
  thread,        \* where driver_ros_node_executor_thread is
  status,        \* number of the last status reported
  status_queue,  \* with room for one
  msg,           \* the message being put together
  published,     \* the last status published
  runs,          \* publishers started so far
  leftOver       \* history: on_activate threw, and nothing stopped the
                 \* publisher or found it running since

vars == <<component, lifecycle, after, ok, executor, spinning, thread, status,
          status_queue, msg, published, runs, leftOver>>

driver == <<component, lifecycle, after, executor, runs, leftOver>>
data == <<status, status_queue, msg, published>>

-----------------------------------------------------------------------------
Init ==
  /\ component = "unconfigured" /\ lifecycle = "idle" /\ after = "unconfigured"
  /\ ok = TRUE /\ executor = 0 /\ spinning = FALSE /\ thread = "none"
  /\ status = 0 /\ status_queue = <<>> /\ msg = <<>> /\ published = 0
  /\ runs = 0 /\ leftOver = FALSE

-----------------------------------------------------------------------------
(* The lifecycle thread *)

\* Nothing happens any more in a process that was aborted.
Alive == thread # "aborted"

CallbackAllowed == lifecycle = "idle" /\ Alive

\* run_diagnostics_publisher, at the end of a successful on_configure: an
\* executor that spins is left alone, ...
FindSpinning ==
  /\ executor # 0 /\ spinning
  /\ component' = "inactive" /\ leftOver' = FALSE
  /\ UNCHANGED <<executor, runs, spinning, thread>>

\* ... or else there is a new executor and its thread.  Assigning to a thread
\* that was not joined aborts the process.
StartSpinning ==
  /\ executor = 0 \/ ~spinning
  /\ executor' = runs + 1 /\ runs' = runs + 1 /\ spinning' = FALSE
  /\ \/ /\ thread = "none" /\ thread' = "starting"
        /\ component' = "inactive" /\ leftOver' = FALSE
     \/ /\ thread # "none" /\ thread' = "aborted"
        /\ UNCHANGED <<component, leftOver>>

RunDiagnosticsPublisher ==
  /\ CallbackAllowed /\ component = "unconfigured" /\ runs < MaxRuns
  /\ FindSpinning \/ StartSpinning
  /\ UNCHANGED <<lifecycle, after, ok>> /\ UNCHANGED data

\* on_configure fails before it gets there; the resource manager may then
\* finalize the component, which stops nothing.
ConfigureFails ==
  /\ CallbackAllowed /\ component = "unconfigured" /\ component' = "finalized"
  /\ UNCHANGED <<lifecycle, after, ok, executor, spinning, thread, runs, leftOver>>
  /\ UNCHANGED data

\* on_activate throws: what becomes of the component is up to the resource
\* manager, and nobody stops the publisher.
ActivateFails ==
  /\ CallbackAllowed /\ component = "inactive"
  /\ component' \in {"unconfigured", "finalized"} /\ leftOver' = TRUE
  /\ UNCHANGED <<lifecycle, after, ok, executor, spinning, thread, runs>>
  /\ UNCHANGED data

\* stop_diagnostics_publisher: cancel the executor if there is a thread, ...
Stop(target) ==
  /\ CallbackAllowed
  /\ after' = target
  /\ lifecycle' = IF thread = "none" THEN "reset" ELSE "cancel"
  /\ UNCHANGED <<component, ok, executor, spinning, thread, runs, leftOver>> /\ UNCHANGED data

Cleanup == component = "inactive" /\ Stop("unconfigured")
Shutdown == /\ component \in {"unconfigured", "inactive"}
            /\ Stop("finalized")
Destroy == component # "destroyed" /\ Stop("destroyed")

Cancel ==
  /\ lifecycle = "cancel" /\ lifecycle' = "join"
  /\ spinning' = IF executor # 0 THEN FALSE ELSE spinning
  /\ UNCHANGED <<component, after, ok, executor, thread, runs, leftOver>> /\ UNCHANGED data

\* Variant: the thread is let go instead of joined.
Detach ==
  /\ lifecycle = "join" /\ lifecycle' = "reset"
  /\ UNCHANGED <<component, after, ok, executor, spinning, thread, runs, leftOver>>
  /\ UNCHANGED data

\* ... join the thread ...
Join ==
  /\ lifecycle = "join" /\ thread = "done"
  /\ thread' = "none" /\ lifecycle' = "reset"
  /\ UNCHANGED <<component, after, ok, executor, spinning, runs, leftOver>> /\ UNCHANGED data

\* ... and drop the executor.
Reset ==
  /\ lifecycle = "reset" /\ lifecycle' = "idle"
  /\ executor' = 0 /\ spinning' = FALSE /\ component' = after /\ leftOver' = FALSE
  /\ UNCHANGED <<after, ok, thread, runs>> /\ UNCHANGED data

-----------------------------------------------------------------------------
(* The publisher's thread *)

ThreadOnly == UNCHANGED driver /\ UNCHANGED ok

Spin ==
  /\ thread = "starting" /\ thread' = "loop" /\ spinning' = TRUE
  /\ ThreadOnly /\ UNCHANGED data

\* Variant: nobody looks at the flag.
SpinOn ==
  /\ thread = "loop" /\ thread' = IF ok THEN "wait" ELSE "done"
  /\ spinning' = ok
  /\ ThreadOnly /\ UNCHANGED data

TestSpinning ==
  /\ thread = "loop" /\ thread' = IF ok /\ spinning THEN "wait" ELSE "done"
  /\ spinning' = (ok /\ spinning)
  /\ ThreadOnly /\ UNCHANGED data

\* The executor waits for the timer; cancel() and a shutdown wake it up.
Wait ==
  /\ thread = "wait"
  /\ thread' \in {"timer"} \cup (IF ok /\ spinning THEN {} ELSE {"loop"})
  /\ ThreadOnly /\ UNCHANGED <<spinning>> /\ UNCHANGED data

\* Variant: statuses are read and left in the queue.
ConsumeKeep ==
  /\ thread = "timer" /\ status_queue # <<>> /\ Len(msg) < 2
  /\ msg' = msg \o status_queue
  /\ ThreadOnly /\ UNCHANGED <<spinning, thread, status, status_queue, published>>

\* The timer's callback: take what is in the queue, as long as there is any, ...
Consume ==
  /\ thread = "timer" /\ status_queue # <<>>
  /\ msg' = msg \o status_queue /\ status_queue' = <<>>
  /\ ThreadOnly /\ UNCHANGED <<spinning, thread, status, published>>

Sent == /\ published' = IF msg = <<>> THEN published ELSE msg[Len(msg)]
        /\ msg' = <<>>

\* Variant: the thread spins for one callback only.
PublishOnce ==
  /\ thread = "timer" /\ status_queue = <<>> /\ Sent
  /\ thread' = "done" /\ spinning' = FALSE
  /\ ThreadOnly /\ UNCHANGED <<status, status_queue>>

\* ... and publish it.
Publish ==
  /\ thread = "timer" /\ status_queue = <<>> /\ Sent
  /\ thread' = "loop"
  /\ ThreadOnly /\ UNCHANGED <<spinning, status, status_queue>>

-----------------------------------------------------------------------------
(* The master, and ROS *)

\* Variant: the queue grows beyond its capacity.
PushUnbounded(queue, s) == Append(queue, s)

\* A push to a full queue is lost.
Push(queue, s) == IF queue = <<>> THEN <<s>> ELSE queue

Report ==
  /\ component # "destroyed" /\ Alive /\ status < MaxReports
  /\ status' = status + 1 /\ status_queue' = Push(status_queue, status')
  /\ ThreadOnly /\ UNCHANGED <<spinning, thread, msg, published>>

\* External: ROS shuts down.
RosShutdown ==
  /\ ok /\ Alive /\ ok' = FALSE
  /\ UNCHANGED driver /\ UNCHANGED <<spinning, thread>> /\ UNCHANGED data

Ended ==
  /\ ~Alive \/ (component = "destroyed" /\ lifecycle = "idle")
  /\ UNCHANGED vars

Callback == \/ RunDiagnosticsPublisher \/ ConfigureFails \/ ActivateFails
            \/ Cleanup \/ Shutdown \/ Destroy
LifecycleStep == Cancel \/ Join \/ Reset
ThreadStep == Spin \/ TestSpinning \/ Wait \/ Consume \/ Publish

Next == \/ Callback \/ LifecycleStep \/ ThreadStep
        \/ Report \/ RosShutdown \/ Ended

Spec == Init /\ [][Next]_vars

\* Both threads run, and the timer keeps firing.
FairSpec == Spec /\ WF_vars(LifecycleStep) /\ WF_vars(ThreadStep)

-----------------------------------------------------------------------------
(* Properties *)

\* Type invariant: in particular, the queue has at most one element.
TypeOK ==
  /\ component \in {"unconfigured", "inactive", "finalized", "destroyed"}
  /\ lifecycle \in {"idle", "cancel", "join", "reset"}
  /\ after \in {"unconfigured", "finalized", "destroyed"}
  /\ ok \in BOOLEAN /\ spinning \in BOOLEAN /\ leftOver \in BOOLEAN
  /\ executor \in 0..MaxRuns /\ runs \in 0..MaxRuns
  /\ thread \in {"none", "starting", "loop", "wait", "timer", "done", "aborted"}
  /\ status \in 0..MaxReports /\ published \in 0..MaxReports
  /\ status_queue \in {<<>>} \cup {<<n>> : n \in 0..MaxReports}
  /\ msg \in Seq(0..MaxReports)

\* Between callbacks a publisher runs exactly while the driver is configured,
\* but for the one a failing on_activate left over, which the next callback that
\* stops publishers ends.  Only such a one is ever met by on_configure: running,
\* it is taken over; otherwise its thread is replaced, which aborts the process.
SinglePublisher ==
  /\ ~Alive => leftOver
  /\ lifecycle = "idle" /\ Alive =>
       /\ thread # "none" <=> component = "inactive" \/ leftOver
       /\ thread # "none" <=> executor # 0
       /\ leftOver => component \in {"unconfigured", "finalized"}

\* Inductive strengthening: while stop_diagnostics_publisher is under way there
\* is a thread until it is joined, and none from then on.
Stopping ==
  /\ lifecycle \in {"cancel", "join"} => thread # "none" /\ executor # 0
  /\ lifecycle = "reset" => thread = "none"

\* Statuses are published in the order they were reported and none is published
\* twice, across the message in the making, the queue and restarts.
PublishedInOrder ==
  LET pipeline == <<published>> \o msg \o status_queue
  IN /\ \A i \in 1..Len(pipeline) - 1 : pipeline[i] < pipeline[i + 1]
     /\ pipeline[Len(pipeline)] <= status

\* on_cleanup and on_shutdown "stop **diagnostics publisher**"
\* (soem_driver/README.md:232) and return.
StopReturns == lifecycle # "idle" ~> lifecycle = "idle"

\* A publisher whose thread got to spin() is stopped for good: cancel() reaches
\* it, the thread ends and the callback returns.
SpinningStops == lifecycle = "cancel" /\ thread # "starting" ~> lifecycle = "idle"

\* A status that made it into the queue is published while the driver stays
\* configured and ROS is up.
QueuedIsPublished ==
  \A n \in 1..MaxReports :
    status_queue = <<n>> /\ component = "inactive"
      ~> published >= n \/ component # "inactive" \/ ~ok
=============================================================================
