-------------------------- MODULE SOEMMaster_proofs --------------------------
(***************************************************************************)
(* Proofs about SOEMMaster, for every set of bytes, frames and faults.     *)
(* Type correctness comes first, then an invariant about the threads       *)
(* (Threads), one about the transfer handshake (Handshake), and from them  *)
(* the refinement of ProcessImage.  Frames released and statuses reported  *)
(* come last.                                                              *)
(***************************************************************************)
EXTENDS SOEMMaster, TLAPS

(* A push keeps the single-element queue well-formed. *)
LEMMA PushType ==
  ASSUME NEW q \in StatusQueue, NEW x \in Status
  PROVE  Push(q, x) \in StatusQueue
BY DEF Push, StatusQueue

(* Reporting a state keeps status and queue well-formed. *)
LEMMA ReportType ==
  ASSUME TypeOK, NEW s \in MasterState, Report(s)
  PROVE  /\ status' \in Status
         /\ statusQueue' \in StatusQueue
<1>1. CASE running
  BY <1>1 DEF Report, report, TypeOK
<1>2. CASE ~running
  <2>1. status' = [status EXCEPT !.state = s] /\ statusQueue' = Push(statusQueue, status')
    BY <1>2 DEF Report
  <2>2. status' \in Status
    BY <2>1 DEF TypeOK, Status
  <2> QED BY <2>1, <2>2, PushType DEF TypeOK
<1> QED BY <1>1, <1>2 DEF TypeOK

(* The type invariant is inductive: every member, buffer and program       *)
(* counter of SOEMMaster keeps its type under every step of every thread.  *)
LEMMA TypeStep == TypeOK /\ [Next]_vars => TypeOK'
<1> SUFFICES ASSUME TypeOK, [Next]_vars PROVE TypeOK'
  OBVIOUS
<1> USE ValueAssumption, FrameAssumption, FaultAssumption
<1>1. CASE InitMaster
  <2>1. Report("INITIALIZED") BY <1>1 DEF InitMaster
  <2>2. "INITIALIZED" \in MasterState BY DEF MasterState
  <2>3. status' \in Status /\ statusQueue' \in StatusQueue
    BY <2>1, <2>2, ReportType
  <2> QED BY <1>1, <2>3 DEF InitMaster, TypeOK, Lifecycle, flags, frames, local
<1>2. CASE StartBus
  <2>1. Report("STARTING") BY <1>2 DEF StartBus
  <2>2. "STARTING" \in MasterState BY DEF MasterState
  <2>3. status' \in Status /\ statusQueue' \in StatusQueue
    BY <2>1, <2>2, ReportType
  <2> QED BY <1>2, <2>3 DEF StartBus, TypeOK, Lifecycle, flags
<1>3. CASE ReachSafeOp
  BY <1>3 DEF ReachSafeOp, TypeOK, Lifecycle, Component, report, flags, frames, local
<1>4. CASE MissSafeOp
  <2>1. Report("ERROR") BY <1>4 DEF MissSafeOp
  <2>2. "ERROR" \in MasterState BY DEF MasterState
  <2>3. status' \in Status /\ statusQueue' \in StatusQueue
    BY <2>1, <2>2, ReportType
  <2> QED BY <1>4, <2>3 DEF MissSafeOp, TypeOK, Lifecycle, Component, flags, frames, local
<1>5. CASE ReachOp
  <2>1. Report("IDLE") BY <1>5 DEF ReachOp
  <2>2. "IDLE" \in MasterState BY DEF MasterState
  <2>3. status' \in Status /\ statusQueue' \in StatusQueue
    BY <2>1, <2>2, ReportType
  <2> QED BY <1>5, <2>3 DEF ReachOp, BusUpExchange, TypeOK, Lifecycle, flags, local
<1>6. CASE MissOp
  <2>1. Report("ERROR") BY <1>6 DEF MissOp
  <2>2. "ERROR" \in MasterState BY DEF MasterState
  <2>3. status' \in Status /\ statusQueue' \in StatusQueue
    BY <2>1, <2>2, ReportType
  <2> QED BY <1>6, <2>3 DEF MissOp, BusUpExchange, TypeOK, Component, flags, local
<1>7. CASE Spawn
  <2>1. lifecycle' \in Lifecycle /\ component' \in Component /\ cyclic' \in Cyclic
    BY <1>7 DEF Spawn, Lifecycle, Component, Cyclic
  <2> QED BY <1>7, <2>1 DEF Spawn, TypeOK, report, flags, frames, local
<1>8. CASE Deactivate \/ Shutdown \/ Destroy
  <2>1. PICK target \in {"inactive", "finalized", "destroyed"} : Stop(target)
    BY <1>8 DEF Deactivate, Shutdown, Destroy
  <2> QED BY <2>1, ZenonT(60) DEF Stop, TypeOK, Lifecycle, Component, report, flags, frames, local
<1>9. CASE Join \/ ClearRunning \/ ClearTerminate
  BY <1>9, ZenonT(60) DEF Join, ClearRunning, ClearTerminate, TypeOK, Lifecycle, Cyclic,
              report, flags, frames, local
<1>10. CASE BusDown
  <2>1. "INITIALIZED" \in MasterState BY DEF MasterState
  <2>2. status' \in Status /\ statusQueue' \in StatusQueue
    <3>1. CASE isInit BY <1>10, <3>1, <2>1, ReportType DEF BusDown
    <3>2. CASE ~isInit BY <1>10, <3>2 DEF BusDown, report, TypeOK
    <3> QED BY <3>1, <3>2
  <2> QED BY <1>10, <2>2 DEF BusDown, TypeOK, Lifecycle, Component, flags, frames, local
<1>11. CASE Deinit
  <2>1. /\ [status EXCEPT !.state = "INITIALIZED"] \in Status
        /\ [status EXCEPT !.state = "UNINITIALIZED"] \in Status
    BY DEF TypeOK, Status, MasterState
  <2>2. statusQueue' \in StatusQueue
    BY <1>11, <2>1, PushType DEF Deinit, TypeOK
  <2> QED BY <1>11, <2>1, <2>2 DEF Deinit, TypeOK, Lifecycle, Component, flags, frames, local
<1>12. CASE Cleanup
  BY <1>12 DEF Cleanup, TypeOK, Component, report, flags, frames, local
<1>13. CASE Start \/ CheckTerminate \/ TestRx \/ TestTx \/ Exit
  BY <1>13, ZenonT(60) DEF Start, CheckTerminate, TestRx, TestTx, TestFlag, Exit, TypeOK, Cyclic,
               CyclicUnchanged, report, flags, frames
<1>14. CASE SetRunning
  <2>1. status' \in Status BY <1>14 DEF SetRunning, Status, MasterState
  <2> QED BY <1>14, <2>1 DEF SetRunning, TypeOK, Cyclic, CyclicUnchanged, flags, frames
<1>15. CASE CopyRx
  BY <1>15 DEF CopyRx, TypeOK, CyclicUnchanged, report, flags, Frame
<1>16. CASE CopyTx
  BY <1>16 DEF CopyTx, TypeOK, CyclicUnchanged, report, flags, Frame
<1>17. CASE ReleaseRx \/ ReleaseTx
  BY <1>17 DEF ReleaseRx, ReleaseTx, TypeOK, Cyclic, CyclicUnchanged, report, frames
<1>18. CASE ExchangeProcessData
  <2>1. PICK failed \in SUBSET (Fault \cap {"tx", "rx"}) :
          /\ wire' = IF "tx" \in failed THEN wire ELSE RxPDO_IOmap
          /\ TxPDO_IOmap' \in IF "rx" \in failed
                              THEN Input \cup {TxPDO_IOmap} ELSE Input
          /\ status' = [status EXCEPT !.failing = (@ \cap {"other"}) \cup failed]
          /\ stateFlag' = IF failed = {} THEN stateFlag ELSE "ERROR"
    BY <1>18 DEF ExchangeProcessData
  <2>2. status' \in Status BY <2>1 DEF TypeOK, Status
  <2>3. wire' \in Frame /\ TxPDO_IOmap' \in Frame /\ stateFlag' \in {"RUNNING", "ERROR"}
    BY <2>1 DEF TypeOK
  <2> QED BY <1>18, <2>2, <2>3 DEF ExchangeProcessData, TypeOK, Cyclic, CyclicUnchanged, flags
<1>19. CASE Commit
  <2>1. PICK failed \in SUBSET (Fault \cap {"other"}) :
          /\ stateFlag' = IF failed = {} THEN stateFlag ELSE "ERROR"
          /\ status' = [state |-> stateFlag',
                        failing |-> (status.failing \ {"other"}) \cup failed]
    BY <1>19 DEF Commit
  <2>2. stateFlag' \in {"RUNNING", "ERROR"} BY <2>1 DEF TypeOK
  <2>3. status.failing \subseteq Fault BY DEF TypeOK, Status
  <2>4. status' \in Status BY <2>1, <2>2, <2>3 DEF Status, MasterState
  <2> QED BY <1>19, <2>2, <2>4 DEF Commit, TypeOK, Cyclic, CyclicUnchanged, flags, frames
<1>20. CASE PushStatus
  <2>1. statusQueue' \in StatusQueue
    BY <1>20, PushType DEF PushStatus, TypeOK
  <2> QED BY <1>20, <2>1 DEF PushStatus, TypeOK, Cyclic, CyclicUnchanged, flags, frames
<1>21. CASE ExitPush
  <2>1. status' \in Status BY <1>21 DEF ExitPush, TypeOK, Status, MasterState
  <2>2. statusQueue' \in StatusQueue
    BY <1>21, <2>1, PushType DEF ExitPush, TypeOK
  <2> QED BY <1>21, <2>1, <2>2 DEF ExitPush, TypeOK, Cyclic, CyclicUnchanged, flags, frames
<1>22. CASE ControlCall
  BY <1>22 DEF ControlCall, Read, Write, TypeOK, Control, ControlUnchanged, report, flags
<1>23. CASE LoadRunning \/ LoadTerminate \/ Request \/ Resume
  BY <1>23, ZenonT(60) DEF LoadRunning, LoadTerminate, Request, Resume, Goto, TypeOK, Control,
               ControlUnchanged, report, flags
<1>24. CASE ReadByte
  BY <1>24 DEF ReadByte, TypeOK, ControlUnchanged, report, flags, Frame
<1>25. CASE WriteByte
  BY <1>25 DEF WriteByte, TypeOK, ControlUnchanged, report, flags, Frame
<1>26. CASE ReadReturn \/ WriteDone
  BY <1>26 DEF ReadReturn, WriteDone, Goto, TypeOK, Control, ControlUnchanged, report, flags
<1>27. CASE ConsumeStatus
  BY <1>27 DEF ConsumeStatus, TypeOK, StatusQueue, flags, frames, local
<1>28. CASE UNCHANGED vars
  BY <1>28 DEF vars, TypeOK, report, flags, frames, local
<1> QED
  BY <1>1, <1>2, <1>3, <1>4, <1>5, <1>6, <1>7, <1>8, <1>9, <1>10, <1>11, <1>12,
     <1>13, <1>14, <1>15, <1>16, <1>17, <1>18, <1>19, <1>20, <1>21, <1>22, <1>23,
     <1>24, <1>25, <1>26, <1>27, <1>28
  DEF Next, Callback, LifecycleStep, CyclicStep, ControlStep, Destroyed

(* The initial state is well-typed. *)
LEMMA InitType == Init => TypeOK
<1> SUFFICES ASSUME Init PROVE TypeOK
  OBVIOUS
<1>1. ZeroFrame \in Frame BY ValueAssumption DEF ZeroFrame, Frame
<1>2. status \in Status /\ statusQueue \in StatusQueue
  BY DEF Init, Status, StatusQueue, MasterState
<1> QED BY <1>1, <1>2 DEF Init, TypeOK, Lifecycle, Control, Cyclic, Component

(* Every reachable state is well-typed, status_queue holding at most one   *)
(* element included.                                                       *)
THEOREM TypeCorrect == Spec => []TypeOK
BY InitType, TypeStep, PTL DEF Spec

(* The thread lives from run() to the join of stop(): each step of the     *)
(* lifecycle thread and of cyclic_task keeps Threads.                      *)
LEMMA ThreadsStep == Threads /\ [Next]_vars => Threads'
<1> SUFFICES ASSUME Threads, [Next]_vars PROVE Threads'
  OBVIOUS
<1>1. CASE InitMaster \/ StartBus \/ ReachSafeOp \/ MissSafeOp
  BY <1>1 DEF InitMaster, StartBus, ReachSafeOp, MissSafeOp, Threads, InLoop, CallbackAllowed, CyclicUnchanged, ControlUnchanged
<1>2. CASE ReachOp \/ MissOp
  BY <1>2 DEF ReachOp, MissOp, BusUpExchange, Threads, InLoop, CallbackAllowed, CyclicUnchanged, ControlUnchanged
<1>3. CASE Spawn
  BY <1>3 DEF Spawn, Threads, InLoop, CallbackAllowed, CyclicUnchanged, ControlUnchanged
<1>4. CASE Deactivate \/ Shutdown \/ Destroy
  BY <1>4 DEF Deactivate, Shutdown, Destroy, Stop, Threads, InLoop, CallbackAllowed, CyclicUnchanged, ControlUnchanged
<1>5. CASE Join \/ ClearRunning \/ ClearTerminate
  BY <1>5 DEF Join, ClearRunning, ClearTerminate, Threads, InLoop, CallbackAllowed, CyclicUnchanged, ControlUnchanged
<1>6. CASE BusDown \/ Deinit \/ Cleanup
  BY <1>6 DEF BusDown, Deinit, Cleanup, Threads, InLoop, CallbackAllowed, CyclicUnchanged, ControlUnchanged
<1>7. CASE Start \/ SetRunning \/ CheckTerminate
  BY <1>7 DEF Start, SetRunning, CheckTerminate, Threads, InLoop, CallbackAllowed, CyclicUnchanged, ControlUnchanged
<1>8. CASE TestRx \/ TestTx
  BY <1>8 DEF TestRx, TestTx, TestFlag, Threads, InLoop, CallbackAllowed, CyclicUnchanged, ControlUnchanged
<1>9. CASE CopyRx \/ CopyTx \/ ReleaseRx \/ ReleaseTx
  BY <1>9 DEF CopyRx, CopyTx, ReleaseRx, ReleaseTx, Threads, InLoop, CallbackAllowed, CyclicUnchanged, ControlUnchanged
<1>10. CASE ExchangeProcessData \/ Commit \/ PushStatus
  BY <1>10 DEF ExchangeProcessData, Commit, PushStatus, Threads, InLoop, CallbackAllowed, CyclicUnchanged, ControlUnchanged
<1>11. CASE Exit \/ ExitPush
  BY <1>11 DEF Exit, ExitPush, Threads, InLoop, CallbackAllowed, CyclicUnchanged, ControlUnchanged
<1>12. CASE Read \/ Write
  BY <1>12 DEF Read, Write, CallAllowed, Threads, InLoop, CallbackAllowed, CyclicUnchanged, ControlUnchanged
<1>13. CASE LoadRunning \/ LoadTerminate \/ Request \/ Resume \/ ReadReturn \/ WriteDone
  BY <1>13 DEF LoadRunning, LoadTerminate, Request, Resume, ReadReturn, WriteDone, Goto, Threads, InLoop, CallbackAllowed, CyclicUnchanged, ControlUnchanged
<1>14. CASE ReadByte \/ WriteByte
  BY <1>14 DEF ReadByte, WriteByte, Threads, InLoop, CallbackAllowed, CyclicUnchanged, ControlUnchanged
<1>15. CASE ConsumeStatus
  BY <1>15 DEF ConsumeStatus, Threads, InLoop, CallbackAllowed, CyclicUnchanged, ControlUnchanged
<1>16. CASE UNCHANGED vars
  BY <1>16 DEF vars, flags, frames, local, Threads, InLoop
<1> QED
  BY <1>1, <1>2, <1>3, <1>4, <1>5, <1>6, <1>7, <1>8, <1>9, <1>10, <1>11, <1>12, <1>13, <1>14, <1>15, <1>16
  DEF Next, Callback, LifecycleStep, CyclicStep, ControlCall, ControlStep, Destroyed

(* Only the waiting control loop has a request raised, only cyclic_task    *)
(* takes it back: the transfer flags keep Handshake.                       *)
LEMMA HandshakeStep == Handshake /\ [Next]_vars => Handshake'
<1> SUFFICES ASSUME Handshake, [Next]_vars PROVE Handshake'
  OBVIOUS
<1>1. CASE InitMaster \/ StartBus \/ ReachSafeOp \/ MissSafeOp
  BY <1>1 DEF InitMaster, StartBus, ReachSafeOp, MissSafeOp, Handshake, flags, CyclicUnchanged, ControlUnchanged
<1>2. CASE ReachOp \/ MissOp
  BY <1>2 DEF ReachOp, MissOp, BusUpExchange, Handshake, flags, CyclicUnchanged, ControlUnchanged
<1>3. CASE Spawn
  BY <1>3 DEF Spawn, Handshake, flags, CyclicUnchanged, ControlUnchanged
<1>4. CASE Deactivate \/ Shutdown \/ Destroy
  BY <1>4 DEF Deactivate, Shutdown, Destroy, Stop, Handshake, flags, CyclicUnchanged, ControlUnchanged
<1>5. CASE Join \/ ClearRunning \/ ClearTerminate
  BY <1>5 DEF Join, ClearRunning, ClearTerminate, Handshake, flags, CyclicUnchanged, ControlUnchanged
<1>6. CASE BusDown \/ Deinit \/ Cleanup
  BY <1>6 DEF BusDown, Deinit, Cleanup, Handshake, flags, CyclicUnchanged, ControlUnchanged
<1>7. CASE Start \/ SetRunning \/ CheckTerminate
  BY <1>7 DEF Start, SetRunning, CheckTerminate, Handshake, flags, CyclicUnchanged, ControlUnchanged
<1>8. CASE TestRx \/ TestTx
  BY <1>8 DEF TestRx, TestTx, TestFlag, Handshake, flags, CyclicUnchanged, ControlUnchanged
<1>9. CASE CopyRx \/ CopyTx \/ ReleaseRx \/ ReleaseTx
  BY <1>9 DEF CopyRx, CopyTx, ReleaseRx, ReleaseTx, Handshake, flags, CyclicUnchanged, ControlUnchanged
<1>10. CASE ExchangeProcessData \/ Commit \/ PushStatus
  BY <1>10 DEF ExchangeProcessData, Commit, PushStatus, Handshake, flags, CyclicUnchanged, ControlUnchanged
<1>11. CASE Exit \/ ExitPush
  BY <1>11 DEF Exit, ExitPush, Handshake, flags, CyclicUnchanged, ControlUnchanged
<1>12. CASE Read \/ Write
  BY <1>12 DEF Read, Write, CallAllowed, Handshake, flags, CyclicUnchanged, ControlUnchanged
<1>13. CASE LoadRunning \/ LoadTerminate \/ Request \/ Resume \/ ReadReturn \/ WriteDone
  BY <1>13 DEF LoadRunning, LoadTerminate, Request, Resume, ReadReturn, WriteDone, Goto, Handshake, flags, CyclicUnchanged, ControlUnchanged
<1>14. CASE ReadByte \/ WriteByte
  BY <1>14 DEF ReadByte, WriteByte, Handshake, flags, CyclicUnchanged, ControlUnchanged
<1>15. CASE ConsumeStatus
  BY <1>15 DEF ConsumeStatus, Handshake, flags, CyclicUnchanged, ControlUnchanged
<1>16. CASE UNCHANGED vars
  BY <1>16 DEF vars, flags, frames, local, Handshake
<1> QED
  BY <1>1, <1>2, <1>3, <1>4, <1>5, <1>6, <1>7, <1>8, <1>9, <1>10, <1>11, <1>12, <1>13, <1>14, <1>15, <1>16
  DEF Next, Callback, LifecycleStep, CyclicStep, ControlCall, ControlStep, Destroyed

(* Callbacks and calls that exclude each other never leave a request       *)
(* behind without a running cyclic task.                                   *)
LEMMA ExclusionStep == TypeOK /\ Threads /\ Handshake /\ Exclusion /\ [Next]_vars => Exclusion'
<1> SUFFICES ASSUME TypeOK, Threads, Handshake, Exclusion, [Next]_vars PROVE Exclusion'
  OBVIOUS
<1>1. CASE InitMaster \/ StartBus \/ ReachSafeOp \/ MissSafeOp
  BY <1>1 DEF InitMaster, StartBus, ReachSafeOp, MissSafeOp, TypeOK, Threads, Handshake, Exclusion, InLoop, flags, CallbackAllowed, CyclicUnchanged, ControlUnchanged
<1>2. CASE ReachOp \/ MissOp
  BY <1>2 DEF ReachOp, MissOp, BusUpExchange, TypeOK, Threads, Handshake, Exclusion, InLoop, flags, CallbackAllowed, CyclicUnchanged, ControlUnchanged
<1>3. CASE Spawn
  BY <1>3 DEF Spawn, TypeOK, Threads, Handshake, Exclusion, InLoop, flags, CallbackAllowed, CyclicUnchanged, ControlUnchanged
<1>4. CASE Deactivate \/ Shutdown \/ Destroy
  BY <1>4 DEF Deactivate, Shutdown, Destroy, Stop, TypeOK, Threads, Handshake, Exclusion, InLoop, flags, CallbackAllowed, CyclicUnchanged, ControlUnchanged
<1>5. CASE Join \/ ClearRunning \/ ClearTerminate
  BY <1>5 DEF Join, ClearRunning, ClearTerminate, TypeOK, Threads, Handshake, Exclusion, InLoop, flags, CallbackAllowed, CyclicUnchanged, ControlUnchanged
<1>6. CASE BusDown \/ Deinit \/ Cleanup
  BY <1>6 DEF BusDown, Deinit, Cleanup, TypeOK, Threads, Handshake, Exclusion, InLoop, flags, CallbackAllowed, CyclicUnchanged, ControlUnchanged
<1>7. CASE Start \/ SetRunning \/ CheckTerminate
  BY <1>7 DEF Start, SetRunning, CheckTerminate, TypeOK, Threads, Handshake, Exclusion, InLoop, flags, CallbackAllowed, CyclicUnchanged, ControlUnchanged
<1>8. CASE TestRx \/ TestTx
  BY <1>8 DEF TestRx, TestTx, TestFlag, TypeOK, Threads, Handshake, Exclusion, InLoop, flags, CallbackAllowed, CyclicUnchanged, ControlUnchanged
<1>9. CASE CopyRx \/ CopyTx \/ ReleaseRx \/ ReleaseTx
  BY <1>9 DEF CopyRx, CopyTx, ReleaseRx, ReleaseTx, TypeOK, Threads, Handshake, Exclusion, InLoop, flags, CallbackAllowed, CyclicUnchanged, ControlUnchanged
<1>10. CASE ExchangeProcessData \/ Commit \/ PushStatus
  BY <1>10 DEF ExchangeProcessData, Commit, PushStatus, TypeOK, Threads, Handshake, Exclusion, InLoop, flags, CallbackAllowed, CyclicUnchanged, ControlUnchanged
<1>11. CASE Exit \/ ExitPush
  BY <1>11 DEF Exit, ExitPush, TypeOK, Threads, Handshake, Exclusion, InLoop, flags, CallbackAllowed, CyclicUnchanged, ControlUnchanged
<1>12. CASE Read \/ Write
  BY <1>12 DEF Read, Write, CallAllowed, TypeOK, Threads, Handshake, Exclusion, InLoop, flags, CallbackAllowed, CyclicUnchanged, ControlUnchanged
<1>13. CASE LoadRunning \/ LoadTerminate \/ Request \/ Resume \/ ReadReturn \/ WriteDone
  BY <1>13 DEF LoadRunning, LoadTerminate, Request, Resume, ReadReturn, WriteDone, Goto, TypeOK, Threads, Handshake, Exclusion, InLoop, flags, CallbackAllowed, CyclicUnchanged, ControlUnchanged
<1>14. CASE ReadByte \/ WriteByte
  BY <1>14 DEF ReadByte, WriteByte, TypeOK, Threads, Handshake, Exclusion, InLoop, flags, CallbackAllowed, CyclicUnchanged, ControlUnchanged
<1>15. CASE ConsumeStatus
  BY <1>15 DEF ConsumeStatus, TypeOK, Threads, Handshake, Exclusion, InLoop, flags, CallbackAllowed, CyclicUnchanged, ControlUnchanged
<1>16. CASE UNCHANGED vars
  BY <1>16 DEF vars, flags, frames, local, TypeOK, Threads, Handshake, Exclusion, InLoop
<1> QED
  BY <1>1, <1>2, <1>3, <1>4, <1>5, <1>6, <1>7, <1>8, <1>9, <1>10, <1>11, <1>12, <1>13, <1>14, <1>15, <1>16
  DEF Next, Callback, LifecycleStep, CyclicStep, ControlCall, ControlStep, Destroyed

(* The working sets are never copied while a slave module accesses them,   *)
(* whether or not callbacks and calls exclude each other.                  *)
THEOREM Exclusive == Spec => []TransferExclusive
<1>1. Init => Handshake BY DEF Init, Handshake
<1>2. Handshake => TransferExclusive BY DEF Handshake, TransferExclusive
<1> QED BY <1>1, <1>2, HandshakeStep, PTL DEF Spec

(* status and status_queue have one writer at any time: stop() joins the   *)
(* cyclic task before it reports, run() reports before it starts it.       *)
THEOREM SingleWriter == Spec => []SingleStatusWriter
<1>1. Init => Threads BY DEF Init, Threads, InLoop
<1>2. Threads => SingleStatusWriter
  BY DEF Threads, SingleStatusWriter, Alive, InLoop
<1> QED BY <1>1, <1>2, ThreadsStep, PTL DEF Spec

(* All the above hold together in every reachable state. *)
LEMMA Invariants == Spec => [](TypeOK /\ Threads /\ Handshake /\ Exclusion)
<1>1. Init => TypeOK /\ Threads /\ Handshake /\ Exclusion
  BY InitType DEF Init, Threads, InLoop, Handshake, Exclusion
<1>2. TypeOK /\ Threads /\ Handshake /\ Exclusion /\ [Next]_vars
        => (TypeOK /\ Threads /\ Handshake /\ Exclusion)'
  BY TypeStep, ThreadsStep, HandshakeStep, ExclusionStep
<1> QED BY <1>1, <1>2, PTL DEF Spec

(* A transfer waits only for a cyclic task that is in its loop and not     *)
(* asked to terminate, provided callbacks exclude read() and write().      *)
THEOREM NoOrphan == Spec => []NoOrphanWait
<1>1. TypeOK /\ Threads /\ Handshake /\ Exclusion => NoOrphanWait
  BY DEF TypeOK, Threads, Handshake, Exclusion, NoOrphanWait, InLoop
<1> QED BY <1>1, Invariants, PTL

(* Between callbacks a master that is not active has no thread, no flag    *)
(* and no request left over for the next activation.                       *)
THEOREM Stopped == Spec => []StoppedIsClean
<1>1. TypeOK /\ Threads /\ Handshake /\ Exclusion => StoppedIsClean
  BY DEF TypeOK, Threads, Handshake, Exclusion, StoppedIsClean, Alive, InLoop, Cyclic
<1> QED BY <1>1, Invariants, PTL

(* The partly done copies of cyclic_task and of the slave modules agree    *)
(* with their source: nobody changes a frame while it is being copied.     *)
LEMMA CopiesStep ==
  ASSUME Serialised, TypeOK, Threads, Handshake, Exclusion, Copies, [Next]_vars
  PROVE  Copies'
<1>1. CASE StartBus
  <2>1. control = "idle" /\ cyclic = "none" BY <1>1 DEF StartBus, Exclusion, Threads
  <2> QED BY <1>1, <2>1 DEF StartBus, Copies, Copying
<1>2. CASE Callback
  <2>1. CASE Deactivate \/ Shutdown \/ Destroy
    BY <2>1 DEF Deactivate, Shutdown, Destroy, Stop, Copies, Copying, frames, local
  <2>2. CASE InitMaster \/ Cleanup
    BY <2>2 DEF InitMaster, Cleanup, Copies, Copying, frames, local
  <2>3. CASE ReachOp \/ MissOp
    <3>1. cyclic = "none"
      BY <2>3 DEF ReachOp, MissOp, BusUpExchange, CallbackAllowed, Threads
    <3> QED BY <2>3, <3>1 DEF ReachOp, MissOp, BusUpExchange, Copies, Copying, local
  <2> QED BY <1>2, <2>1, <2>2, <2>3 DEF Callback
<1>3. CASE LifecycleStep /\ ~StartBus
  <2>1. CASE Spawn \/ Join
    BY <2>1 DEF Spawn, Join, Threads, Copies, Copying, frames, local
  <2>2. CASE ReachSafeOp \/ MissSafeOp \/ ClearRunning \/ ClearTerminate \/ BusDown \/ Deinit
    BY <2>2 DEF ReachSafeOp, MissSafeOp, ClearRunning, ClearTerminate, BusDown,
                Deinit, Copies, Copying, frames, local
  <2> QED BY <1>3, <2>1, <2>2 DEF LifecycleStep
<1>4. CASE Start \/ SetRunning \/ CheckTerminate \/ Commit \/ PushStatus \/ Exit \/ ExitPush
  BY <1>4 DEF Start, SetRunning, CheckTerminate, Commit, PushStatus, Exit, ExitPush,
              CyclicUnchanged, Copies, Copying, frames
<1>5. CASE TestRx \/ TestTx
  BY <1>5 DEF TestRx, TestTx, TestFlag, CyclicUnchanged, Copies, Copying, frames
<1>6. CASE ExchangeProcessData
  BY <1>6 DEF ExchangeProcessData, CyclicUnchanged, Copies, Copying
<1>7. CASE CopyRx
  <2>1. control = "rx_wait" BY <1>7 DEF CopyRx, Handshake
  <2>2. PICK b \in Byte \ copied :
          /\ RxPDO_IOmap' = [RxPDO_IOmap EXCEPT ![b] = RxPDO_working[b]]
          /\ copied' = copied \cup {b}
    BY <1>7 DEF CopyRx
  <2>3. \A c \in copied' : RxPDO_IOmap'[c] = RxPDO_working'[c]
    BY <1>7, <2>2 DEF CopyRx, Copies, Copying, TypeOK, Frame
  <2> QED BY <1>7, <2>1, <2>3 DEF CopyRx, CyclicUnchanged, Copies, Copying
<1>8. CASE CopyTx
  <2>1. control = "tx_wait" BY <1>8 DEF CopyTx, Handshake
  <2>2. PICK b \in Byte \ copied :
          /\ TxPDO_working' = [TxPDO_working EXCEPT ![b] = TxPDO_IOmap[b]]
          /\ copied' = copied \cup {b}
    BY <1>8 DEF CopyTx
  <2>3. \A c \in copied' : TxPDO_working'[c] = TxPDO_IOmap'[c]
    BY <1>8, <2>2 DEF CopyTx, Copies, Copying, TypeOK, Frame
  <2> QED BY <1>8, <2>1, <2>3 DEF CopyTx, CyclicUnchanged, Copies, Copying
<1>9. CASE ReleaseRx \/ ReleaseTx
  BY <1>9 DEF ReleaseRx, ReleaseTx, CyclicUnchanged, Copies, Copying, frames
<1>10. CASE Read \/ Write
  BY <1>10 DEF Read, Write, CallAllowed, ControlUnchanged, Copies, Copying
<1>11. CASE LoadRunning \/ LoadTerminate \/ Request \/ Resume
  BY <1>11 DEF LoadRunning, LoadTerminate, Request, Resume, Goto, ControlUnchanged, Copies, Copying
<1>12. CASE ReadByte
  <2>1. PICK b \in Byte \ touched :
          /\ sample' = [sample EXCEPT ![b] = TxPDO_working[b]]
          /\ touched' = touched \cup {b}
    BY <1>12 DEF ReadByte
  <2>2. \A c \in touched' : sample'[c] = TxPDO_working'[c]
    BY <1>12, <2>1 DEF ReadByte, ControlUnchanged, Copies, Copying, TypeOK, Frame
  <2> QED BY <1>12, <2>2 DEF ReadByte, ControlUnchanged, Copies, Copying
<1>13. CASE WriteByte
  <2>1. PICK b \in Byte \ touched :
          /\ RxPDO_working' = [RxPDO_working EXCEPT ![b] = command[b]]
          /\ touched' = touched \cup {b}
    BY <1>13 DEF WriteByte
  <2>2. \A c \in touched' : RxPDO_working'[c] = command'[c]
    BY <1>13, <2>1 DEF WriteByte, ControlUnchanged, Copies, Copying, TypeOK, Frame
  <2>3. cyclic # "rx_copy" BY <1>13 DEF WriteByte, Handshake
  <2> QED BY <1>13, <2>2, <2>3 DEF WriteByte, ControlUnchanged, Copies, Copying
<1>14. CASE ReadReturn
  BY <1>14 DEF ReadReturn, Goto, ControlUnchanged, Copies, Copying
<1>15. CASE WriteDone
  <2>1. RxPDO_working = command
    BY <1>15 DEF WriteDone, Goto, Copies, Copying, TypeOK, Frame
  <2> QED BY <1>15, <2>1 DEF WriteDone, Goto, ControlUnchanged, Copies, Copying
<1>16. CASE ConsumeStatus \/ UNCHANGED vars
  BY <1>16 DEF ConsumeStatus, vars, Copies, Copying, frames, local
<1> QED
  BY <1>1, <1>2, <1>3, <1>4, <1>5, <1>6, <1>7, <1>8, <1>9, <1>10, <1>11, <1>12,
     <1>13, <1>14, <1>15, <1>16
  DEF Next, CyclicStep, ControlCall, ControlStep, Destroyed

(* Every step of the master is a step of ProcessImage or leaves its image  *)
(* unchanged.                                                              *)
LEMMA StepSimulation ==
  ASSUME Serialised, TypeOK, Threads, Handshake, Exclusion, Copies, [Next]_vars
  PROVE  [Image!Next]_(Image!vars)
<1>1. CASE StartBus
  <2>1. control = "idle" /\ cyclic = "none" BY <1>1 DEF StartBus, Exclusion, Threads
  <2>2. Image!Attach BY <1>1, <2>1 DEF StartBus, Image!Attach
  <2> QED BY <2>2 DEF Image!Next
<1>2. CASE ReachOp \/ MissOp
  <2>1. cyclic = "none"
    BY <1>2 DEF ReachOp, MissOp, BusUpExchange, CallbackAllowed, Threads
  <2>2. Image!Exchange
    BY <1>2, <2>1 DEF ReachOp, MissOp, BusUpExchange, Image!Exchange, local
  <2> QED BY <2>2 DEF Image!Next
<1>3. CASE Callback /\ ~ReachOp /\ ~MissOp
  <2>1. UNCHANGED <<control, cyclic, frames, local, wire>>
    BY <1>3 DEF Callback, InitMaster, Deactivate, Shutdown, Destroy, Stop, Cleanup
  <2> QED BY <2>1 DEF frames, local, Image!vars
<1>4. CASE LifecycleStep /\ ~StartBus
  <2>1. UNCHANGED <<control, frames, local, wire>>
    BY <1>4 DEF LifecycleStep, ReachSafeOp, MissSafeOp, Spawn, Join, ClearRunning,
                ClearTerminate, BusDown, Deinit
  <2>2. cyclic \notin {"rx_copy", "tx_copy"} /\ cyclic' \notin {"rx_copy", "tx_copy"}
    BY <1>4 DEF LifecycleStep, ReachSafeOp, MissSafeOp, Spawn, Join, ClearRunning,
                ClearTerminate, BusDown, Deinit, Threads
  <2> QED BY <2>1, <2>2 DEF frames, local, Image!vars
<1>5. CASE Start \/ SetRunning \/ CheckTerminate \/ Commit \/ PushStatus \/ Exit \/ ExitPush
  BY <1>5 DEF Start, SetRunning, CheckTerminate, Commit, PushStatus, Exit, ExitPush,
              CyclicUnchanged, frames, Image!vars
<1>6. CASE TestRx
  <2>1. CASE RxPDO_transfer
    <3>1. RxPDO_working = command BY <2>1 DEF Handshake, Copies, Copying
    <3>2. Image!Publish
      BY <1>6, <2>1, <3>1 DEF TestRx, TestFlag, CyclicUnchanged, frames, Image!Publish
    <3> QED BY <3>2 DEF Image!Next
  <2>2. CASE ~RxPDO_transfer
    BY <1>6, <2>2 DEF TestRx, TestFlag, CyclicUnchanged, frames, Image!vars
  <2> QED BY <2>1, <2>2
<1>7. CASE TestTx
  <2>1. CASE TxPDO_transfer
    <3>1. control = "tx_wait" BY <2>1 DEF Handshake
    <3>2. Image!Latch
      BY <1>7, <2>1, <3>1 DEF TestTx, TestFlag, CyclicUnchanged, frames, Image!Latch
    <3> QED BY <3>2 DEF Image!Next
  <2>2. CASE ~TxPDO_transfer
    BY <1>7, <2>2 DEF TestTx, TestFlag, CyclicUnchanged, frames, Image!vars
  <2> QED BY <2>1, <2>2
<1>8. CASE CopyRx \/ CopyTx
  <2>1. cyclic = "tx_copy" => control = "tx_wait" BY DEF Handshake
  <2> QED BY <1>8, <2>1 DEF CopyRx, CopyTx, CyclicUnchanged, Image!vars
<1>9. CASE ReleaseRx
  <2>1. RxPDO_IOmap = RxPDO_working BY <1>9 DEF ReleaseRx, Copies, Copying, TypeOK, Frame
  <2> QED BY <1>9, <2>1 DEF ReleaseRx, CyclicUnchanged, frames, Image!vars
<1>10. CASE ReleaseTx
  <2>1. TxPDO_working = TxPDO_IOmap BY <1>10 DEF ReleaseTx, Copies, Copying, TypeOK, Frame
  <2> QED BY <1>10, <2>1 DEF ReleaseTx, CyclicUnchanged, frames, Image!vars
<1>11. CASE ExchangeProcessData
  <2>1. Image!Exchange
    BY <1>11 DEF ExchangeProcessData, CyclicUnchanged, Image!Exchange
  <2> QED BY <2>1 DEF Image!Next
<1>12. CASE Read
  BY <1>12 DEF Read, CallAllowed, ControlUnchanged, Image!vars
<1>13. CASE Write
  <2>1. Image!Compose BY <1>13 DEF Write, CallAllowed, ControlUnchanged, Image!Compose
  <2> QED BY <2>1 DEF Image!Next
<1>14. CASE LoadRunning \/ LoadTerminate \/ Request \/ Resume
  <2>1. cyclic = "tx_copy" => control = "tx_wait" /\ TxPDO_transfer BY DEF Handshake
  <2>2. CASE control' = "sample"
    <3>1. control # "sample" /\ cyclic # "tx_copy"
      BY <1>14, <2>1, <2>2 DEF LoadRunning, LoadTerminate, Request, Resume, Goto
    <3>2. Image!Sample
      BY <1>14, <2>2, <3>1 DEF LoadRunning, LoadTerminate, Request, Resume, Goto,
                               ControlUnchanged, Image!Sample
    <3> QED BY <3>2 DEF Image!Next
  <2>3. CASE control' # "sample"
    BY <1>14, <2>3 DEF LoadRunning, LoadTerminate, Request, Resume, Goto,
                       ControlUnchanged, Image!vars
  <2> QED BY <2>2, <2>3
<1>15. CASE ReadByte
  BY <1>15 DEF ReadByte, ControlUnchanged, Image!vars
<1>16. CASE ReadReturn
  <2>1. sample = TxPDO_working
    BY <1>16 DEF ReadReturn, Goto, Copies, Copying, TypeOK, Frame
  <2> QED BY <1>16, <2>1 DEF ReadReturn, Goto, ControlUnchanged, Image!vars
<1>17. CASE WriteByte
  <2>1. cyclic # "rx_copy" BY <1>17 DEF WriteByte, Handshake
  <2> QED BY <1>17, <2>1 DEF WriteByte, ControlUnchanged, Image!vars
<1>18. CASE WriteDone
  BY <1>18 DEF WriteDone, Goto, ControlUnchanged, Image!vars
<1>19. CASE ConsumeStatus \/ UNCHANGED vars
  BY <1>19 DEF ConsumeStatus, vars, frames, local, Image!vars
<1> QED
  BY <1>1, <1>2, <1>3, <1>4, <1>5, <1>6, <1>7, <1>8, <1>9, <1>10, <1>11, <1>12,
     <1>13, <1>14, <1>15, <1>16, <1>17, <1>18, <1>19
  DEF Next, CyclicStep, ControlCall, ControlStep, Destroyed

(* The master implements ProcessImage when callbacks exclude read() and    *)
(* write(): no frame is ever torn, mixed or delivered late.                *)
THEOREM Refinement == Serialised => (Spec => ImplementsProcessImage)
<1> SUFFICES ASSUME Serialised PROVE Spec => ImplementsProcessImage
  OBVIOUS
<1>1. Init => Image!Init BY DEF Init, Image!Init
<1>2. Init => Copies BY DEF Init, Copies, Copying
<1>3. TypeOK /\ Threads /\ Handshake /\ Exclusion /\ Copies /\ [Next]_vars => Copies'
  BY CopiesStep
<1>4. TypeOK /\ Threads /\ Handshake /\ Exclusion /\ Copies /\ [Next]_vars
        => [Image!Next]_(Image!vars)
  BY StepSimulation
<1> QED
  BY <1>1, <1>2, <1>3, <1>4, Invariants, PTL DEF Spec, ImplementsProcessImage, Image!Spec

(* The same agreement for the copies of cyclic_task alone needs no          *)
(* exclusion of callbacks and calls.                                        *)
LEMMA CopyingStep ==
  ASSUME TypeOK, Threads, Handshake, Copying, [Next]_vars
  PROVE  Copying'
<1>1. CASE StartBus
  BY <1>1 DEF StartBus, Threads, Copying
<1>2. CASE Callback
  <2>1. CASE Deactivate \/ Shutdown \/ Destroy
    BY <2>1 DEF Deactivate, Shutdown, Destroy, Stop, Copying, frames, local
  <2>2. CASE InitMaster \/ Cleanup
    BY <2>2 DEF InitMaster, Cleanup, Copying, frames, local
  <2>3. CASE ReachOp \/ MissOp
    <3>1. cyclic = "none"
      BY <2>3 DEF ReachOp, MissOp, BusUpExchange, CallbackAllowed, Threads
    <3> QED BY <2>3, <3>1 DEF ReachOp, MissOp, BusUpExchange, Copying, local
  <2> QED BY <1>2, <2>1, <2>2, <2>3 DEF Callback
<1>3. CASE LifecycleStep /\ ~StartBus
  <2>1. CASE Spawn \/ Join
    BY <2>1 DEF Spawn, Join, Threads, Copying, frames, local
  <2>2. CASE ReachSafeOp \/ MissSafeOp \/ ClearRunning \/ ClearTerminate \/ BusDown \/ Deinit
    BY <2>2 DEF ReachSafeOp, MissSafeOp, ClearRunning, ClearTerminate, BusDown,
                Deinit, Copying, frames, local
  <2> QED BY <1>3, <2>1, <2>2 DEF LifecycleStep
<1>4. CASE Start \/ SetRunning \/ CheckTerminate \/ Commit \/ PushStatus \/ Exit \/ ExitPush
  BY <1>4 DEF Start, SetRunning, CheckTerminate, Commit, PushStatus, Exit, ExitPush,
              CyclicUnchanged, Copying, frames
<1>5. CASE TestRx \/ TestTx
  BY <1>5 DEF TestRx, TestTx, TestFlag, CyclicUnchanged, Copying, frames
<1>6. CASE ExchangeProcessData \/ ReleaseRx \/ ReleaseTx
  BY <1>6 DEF ExchangeProcessData, ReleaseRx, ReleaseTx, CyclicUnchanged, Copying, frames
<1>7. CASE CopyRx
  <2>1. PICK b \in Byte \ copied :
          /\ RxPDO_IOmap' = [RxPDO_IOmap EXCEPT ![b] = RxPDO_working[b]]
          /\ copied' = copied \cup {b}
    BY <1>7 DEF CopyRx
  <2>2. \A c \in copied' : RxPDO_IOmap'[c] = RxPDO_working'[c]
    BY <1>7, <2>1 DEF CopyRx, Copying, TypeOK, Frame
  <2> QED BY <1>7, <2>2 DEF CopyRx, CyclicUnchanged, Copying
<1>8. CASE CopyTx
  <2>1. PICK b \in Byte \ copied :
          /\ TxPDO_working' = [TxPDO_working EXCEPT ![b] = TxPDO_IOmap[b]]
          /\ copied' = copied \cup {b}
    BY <1>8 DEF CopyTx
  <2>2. \A c \in copied' : TxPDO_working'[c] = TxPDO_IOmap'[c]
    BY <1>8, <2>1 DEF CopyTx, Copying, TypeOK, Frame
  <2> QED BY <1>8, <2>2 DEF CopyTx, CyclicUnchanged, Copying
<1>9. CASE Read \/ Write \/ ReadByte \/ ReadReturn \/ WriteDone
  BY <1>9 DEF Read, Write, ReadByte, ReadReturn, WriteDone, Goto, ControlUnchanged, Copying
<1>10. CASE LoadRunning \/ LoadTerminate \/ Request \/ Resume
  BY <1>10 DEF LoadRunning, LoadTerminate, Request, Resume, Goto, ControlUnchanged, Copying
<1>11. CASE WriteByte
  <2>1. cyclic # "rx_copy" BY <1>11 DEF WriteByte, Handshake
  <2> QED BY <1>11, <2>1 DEF WriteByte, ControlUnchanged, Copying
<1>12. CASE ConsumeStatus \/ UNCHANGED vars
  BY <1>12 DEF ConsumeStatus, vars, Copying, frames, local
<1> QED
  BY <1>1, <1>2, <1>3, <1>4, <1>5, <1>6, <1>7, <1>8, <1>9, <1>10, <1>11, <1>12
  DEF Next, CyclicStep, ControlCall, ControlStep, Destroyed

(* A step that takes a transfer request back leaves both copies of the     *)
(* frame equal.                                                            *)
LEMMA ReleaseStep ==
  ASSUME TypeOK, Handshake, Copying, [Next]_vars
  PROVE  /\ RxPDO_transfer /\ ~RxPDO_transfer' => RxPDO_IOmap' = RxPDO_working'
         /\ TxPDO_transfer /\ ~TxPDO_transfer' => TxPDO_working' = TxPDO_IOmap'
<1>1. CASE ReleaseRx
  <2>1. RxPDO_IOmap = RxPDO_working
    BY <1>1 DEF ReleaseRx, Copying, TypeOK, Frame
  <2> QED BY <1>1, <2>1 DEF ReleaseRx, frames
<1>2. CASE ReleaseTx
  <2>1. TxPDO_working = TxPDO_IOmap
    BY <1>2 DEF ReleaseTx, Copying, TypeOK, Frame
  <2> QED BY <1>2, <2>1 DEF ReleaseTx, frames
<1>3. CASE Callback \/ LifecycleStep
  <2>1. UNCHANGED flags
    BY <1>3 DEF Callback, LifecycleStep, Deactivate, Shutdown, Destroy, Stop, InitMaster,
                Cleanup, ReachOp, MissOp, BusUpExchange, Spawn, Join, StartBus, ReachSafeOp,
                MissSafeOp, ClearRunning, ClearTerminate, BusDown, Deinit
  <2> QED BY <2>1 DEF flags
<1>4. CASE CyclicStep /\ ~ReleaseRx /\ ~ReleaseTx
  <2>1. UNCHANGED flags
    BY <1>4 DEF CyclicStep, Start, SetRunning, CheckTerminate, Commit, PushStatus, Exit,
                ExitPush, TestRx, TestTx, TestFlag, ExchangeProcessData, CopyRx, CopyTx
  <2> QED BY <2>1 DEF flags
<1>5. CASE ControlCall \/ ControlStep
  <2>1. UNCHANGED flags \/ Request
    BY <1>5 DEF ControlCall, ControlStep, Read, Write, ReadByte, ReadReturn, WriteByte,
                WriteDone, LoadRunning, LoadTerminate, Resume
  <2>2. CASE Request
    BY <2>2 DEF Request
  <2> QED BY <2>1, <2>2 DEF flags
<1>6. CASE ConsumeStatus \/ UNCHANGED vars
  BY <1>6 DEF ConsumeStatus, vars, flags
<1> QED
  BY <1>1, <1>2, <1>3, <1>4, <1>5, <1>6 DEF Next, Destroyed

(* A transfer request is taken back only once the whole frame has arrived, *)
(* whether or not callbacks and calls exclude each other.                  *)
THEOREM WholeFrames == Spec => WholeFrameReleased
<1>1. Init => Copying BY DEF Init, Copying
<1>2. TypeOK /\ Threads /\ Handshake /\ Copying /\ [Next]_vars => Copying'
  BY CopyingStep
<1>3. TypeOK /\ Handshake /\ Copying /\ [Next]_vars =>
        [ /\ RxPDO_transfer /\ ~RxPDO_transfer' => RxPDO_IOmap' = RxPDO_working'
          /\ TxPDO_transfer /\ ~TxPDO_transfer' => TxPDO_working' = TxPDO_IOmap' ]_vars
  BY ReleaseStep
<1> QED BY <1>1, <1>2, <1>3, Invariants, PTL DEF Spec, WholeFrameReleased

(* A status that is healthy keeps the queue healthy when it is pushed.      *)
LEMMA PushHealthy ==
  ASSUME NEW s, s.state = "RUNNING" => s.failing = {},
         RunningIsHealthy, statusQueue \in StatusQueue, statusQueue' = Push(statusQueue, s)
  PROVE  RunningIsHealthy'
<1>1. CASE statusQueue = <<>>
  <2>1. statusQueue' = <<s>> BY <1>1 DEF Push
  <2> QED BY <2>1 DEF RunningIsHealthy
<1>2. CASE statusQueue # <<>>
  <2>1. statusQueue' = statusQueue BY <1>2 DEF Push
  <2> QED BY <2>1 DEF RunningIsHealthy
<1> QED BY <1>1, <1>2

(* The lifecycle thread never reports RUNNING.                              *)
LEMMA ReportHealthy ==
  ASSUME NEW s \in MasterState, s # "RUNNING", TypeOK, RunningIsHealthy, Report(s)
  PROVE  RunningIsHealthy'
<1>1. CASE running
  BY <1>1 DEF Report, report, RunningIsHealthy
<1>2. CASE ~running
  <2>1. status'.state = s
    BY <1>2 DEF Report, TypeOK, Status
  <2>2. statusQueue' = Push(statusQueue, status') BY <1>2 DEF Report
  <2> QED BY <2>1, <2>2, PushHealthy DEF TypeOK
<1> QED BY <1>1, <1>2

(* Errors of a cycle are counted before its state is committed and pushed.  *)
LEMMA CountedStep ==
  ASSUME TypeOK, Threads, Counted, RunningIsHealthy, [Next]_vars
  PROVE  Counted' /\ RunningIsHealthy'
<1>1. CASE Callback \/ LifecycleStep
  <2>1. cyclic' \notin {"tx", "tx_copy", "commit", "push"} \/
        UNCHANGED <<cyclic, stateFlag, report>>
    BY <1>1 DEF Callback, LifecycleStep, Deactivate, Shutdown, Destroy, Stop, InitMaster,
                Cleanup, ReachOp, MissOp, BusUpExchange, Spawn, Join, StartBus, ReachSafeOp,
                MissSafeOp, ClearRunning, ClearTerminate, BusDown, Deinit, Threads,
                CallbackAllowed
  <2>2. Counted' BY <2>1 DEF Counted, report
  <2>3. RunningIsHealthy'
    <3>1. CASE UNCHANGED report BY <3>1 DEF report, RunningIsHealthy
    <3>2. CASE Report("INITIALIZED") \/ Report("STARTING") \/ Report("ERROR")
                 \/ Report("IDLE") \/ Report("UNINITIALIZED")
      BY <3>2, ReportHealthy DEF MasterState
    <3>3. CASE InitMaster \/ StartBus \/ MissSafeOp \/ ReachOp \/ MissOp
      BY <3>2, <3>3 DEF InitMaster, StartBus, MissSafeOp, ReachOp, MissOp
    <3>4. CASE BusDown
      BY <3>1, <3>2, <3>4 DEF BusDown
    <3>5. CASE Deinit
      <4> DEFINE stopped == [status EXCEPT !.state = "INITIALIZED"]
      <4>1. stopped.state # "RUNNING" BY DEF TypeOK, Status
      <4>2. \/ statusQueue' = Push(statusQueue, stopped) \/ statusQueue' = statusQueue
        BY <3>5 DEF Deinit
      <4> HIDE DEF stopped
      <4> QED BY <4>1, <4>2, PushHealthy DEF TypeOK, RunningIsHealthy
    <3>6. CASE Deactivate \/ Shutdown \/ Destroy \/ Cleanup \/ ReachSafeOp \/ Spawn
                 \/ Join \/ ClearRunning \/ ClearTerminate
      BY <3>1, <3>6 DEF Deactivate, Shutdown, Destroy, Stop, Cleanup, ReachSafeOp, Spawn,
                        Join, ClearRunning, ClearTerminate
    <3> QED BY <1>1, <3>3, <3>4, <3>5, <3>6 DEF Callback, LifecycleStep
  <2> QED BY <2>2, <2>3
<1>2. CASE Start \/ SetRunning \/ Exit \/ CopyRx \/ CopyTx \/ ReleaseRx \/ ReleaseTx
  BY <1>2 DEF Start, SetRunning, Exit, CopyRx, CopyTx, ReleaseRx, ReleaseTx, Push,
              CyclicUnchanged, report, Counted, RunningIsHealthy
<1>3. CASE CheckTerminate \/ TestRx \/ TestTx
  BY <1>3 DEF CheckTerminate, TestRx, TestTx, TestFlag, report, Counted, RunningIsHealthy
<1>4. CASE ExchangeProcessData
  <2>1. PICK failed \in SUBSET (Fault \cap {"tx", "rx"}) :
          /\ status' = [status EXCEPT !.failing = (@ \cap {"other"}) \cup failed]
          /\ stateFlag' = IF failed = {} THEN stateFlag ELSE "ERROR"
    BY <1>4 DEF ExchangeProcessData
  <2>2. stateFlag' = "RUNNING" => status'.failing \subseteq {"other"}
    BY <2>1 DEF TypeOK, Status
  <2> QED BY <1>4, <2>2 DEF ExchangeProcessData, Counted, RunningIsHealthy
<1>5. CASE Commit
  <2>1. PICK failed \in SUBSET (Fault \cap {"other"}) :
          /\ stateFlag' = IF failed = {} THEN stateFlag ELSE "ERROR"
          /\ status' = [state |-> stateFlag',
                        failing |-> (status.failing \ {"other"}) \cup failed]
    BY <1>5 DEF Commit
  <2>2. status'.state = "RUNNING" => status'.failing = {}
    BY <1>5, <2>1 DEF Commit, Counted
  <2> QED BY <1>5, <2>2 DEF Commit, Counted, RunningIsHealthy
<1>6. CASE PushStatus
  <2>1. status.state = "RUNNING" => status.failing = {}
    BY <1>6 DEF PushStatus, Counted
  <2>2. RunningIsHealthy' BY <1>6, <2>1, PushHealthy DEF PushStatus, TypeOK
  <2> QED BY <1>6, <2>2 DEF PushStatus, Counted
<1>7. CASE ExitPush
  <2>1. status'.state = "IDLE" BY <1>7 DEF ExitPush, TypeOK, Status
  <2>2. RunningIsHealthy' BY <1>7, <2>1, PushHealthy DEF ExitPush, TypeOK
  <2> QED BY <1>7, <2>2 DEF ExitPush, Counted
<1>8. CASE ControlCall \/ ControlStep
  <2>1. UNCHANGED <<cyclic, stateFlag, report>>
    BY <1>8 DEF ControlCall, ControlStep, Read, Write, ReadByte, ReadReturn, WriteByte,
                WriteDone, LoadRunning, LoadTerminate, Request, Resume, Goto, ControlUnchanged
  <2> QED BY <2>1 DEF report, Counted, RunningIsHealthy
<1>9. CASE ConsumeStatus
  BY <1>9 DEF ConsumeStatus, Counted, RunningIsHealthy
<1>10. CASE UNCHANGED vars
  BY <1>10 DEF vars, report, Counted, RunningIsHealthy
<1> QED
  BY <1>1, <1>2, <1>3, <1>4, <1>5, <1>6, <1>7, <1>8, <1>9, <1>10
  DEF Next, CyclicStep, Destroyed

(* A queued status says RUNNING only if no consecutive error is being      *)
(* counted, for every set of faults.                                       *)
THEOREM Healthy == Spec => []RunningIsHealthy
<1>1. Init => Counted /\ RunningIsHealthy
  BY DEF Init, Counted, RunningIsHealthy
<1>2. TypeOK /\ Threads /\ Counted /\ RunningIsHealthy /\ [Next]_vars
        => (Counted /\ RunningIsHealthy)'
  BY CountedStep
<1> QED BY <1>1, <1>2, Invariants, PTL DEF Spec
=============================================================================
