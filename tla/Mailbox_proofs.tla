--------------------------- MODULE Mailbox_proofs ---------------------------
(***************************************************************************)
(* For any kinds and number of requests, any capacity of the queues and    *)
(* any faults of the slave: types, exclusive buffers, the order of         *)
(* requests, and what becomes of messages and errors.                      *)
(***************************************************************************)
EXTENDS Mailbox, SequenceTheorems, TLAPS

\* TypeOK, variable by variable.
Typed ==
  /\ control \in Control /\ cyclic \in Cyclic /\ issued \in 0..MaxRequests
  /\ mbx_send_queue \in Seq(Request) /\ Len(mbx_send_queue) <= QueueCapacity
  /\ mbx_receive_queue \in Seq(Message) /\ Len(mbx_receive_queue) <= QueueCapacity
  /\ SMbx \in Message /\ RMbx \in Message /\ EC_SMbx \in Message
  /\ EC_RMbx \in Message /\ inbox \in Message
  /\ send_mbx_request \in BOOLEAN /\ receive_mbx \in BOOLEAN
  /\ receive_mbx_raw \in BOOLEAN /\ receive_mbx_has_unread \in BOOLEAN
  /\ mbx_raw \in BOOLEAN
  /\ errorList \in Seq({"mailbox", "other"}) /\ outbox \in Seq(Request)
  /\ arrived \in 0..MaxRequests /\ confirmed \in 0..MaxRequests /\ lost \in 0..MaxLost
  /\ consumed \in Seq(Message)

\* Typed says the same as TypeOK.
LEMMA TypedIsTypeOK == TypeOK <=> Typed
BY DEF TypeOK, Typed

\* A cleared buffer is the only message that is no request.
LEMMA MessageFacts ==
  /\ Request \subseteq Message /\ Cleared \in Message
  /\ \A r \in Request : r.id \in 1..MaxRequests /\ r # Cleared
  /\ \A m \in Message : m.id \in 0..MaxRequests /\ (m # Cleared => m \in Request)
BY BoundsAssumption DEF Message, Cleared, Request

\* The initial values have their types.
LEMMA InitTyped == Init => Typed
<1> SUFFICES ASSUME Init PROVE Typed
  OBVIOUS
<1>1. control \in Control /\ cyclic \in Cyclic BY DEF Init, Control, Cyclic
<1>2. /\ issued \in 0..MaxRequests /\ arrived \in 0..MaxRequests
      /\ confirmed \in 0..MaxRequests /\ lost \in 0..MaxLost
  BY BoundsAssumption DEF Init
<1>3. QueueCapacity >= 0 BY BoundsAssumption
<1>4. \A T : <<>> \in Seq(T)
  OBVIOUS
<1>5. Len(<<>>) = 0
  OBVIOUS
<1>6. /\ mbx_send_queue \in Seq(Request) /\ Len(mbx_send_queue) <= QueueCapacity
      /\ mbx_receive_queue \in Seq(Message) /\ Len(mbx_receive_queue) <= QueueCapacity
      /\ errorList \in Seq({"mailbox", "other"}) /\ outbox \in Seq(Request)
      /\ consumed \in Seq(Message)
  BY <1>3, <1>4, <1>5 DEF Init
<1> QED BY <1>1, <1>2, <1>6, MessageFacts DEF Init, Typed

\* SOEM may list an error of other origin.
LEMMA ListedTyped ==
  ASSUME NEW e \in Seq({"mailbox", "other"}), NEW f \in Listed(e)
  PROVE  f \in Seq({"mailbox", "other"})
BY DEF Listed

\* Each step keeps the types.
LEMMA StepTyped == Typed /\ [Next]_vars => Typed'
<1> SUFFICES ASSUME Typed, [Next]_vars PROVE Typed'
  OBVIOUS
<1> USE BoundsAssumption
<1>1. CASE Read BY <1>1 DEF Read, ControlUnchanged, QueuesUnchanged, flags, device, Typed, Control
<1>2. CASE Fetch
  <2>1. control' \in Control BY <1>2 DEF Fetch, Control
  <2>2. mbx_receive_queue' \in Seq(Message) /\ Len(mbx_receive_queue') <= QueueCapacity
    <3>1. CASE Len(mbx_receive_queue) < QueueCapacity
      <4>1. mbx_receive_queue' = Append(mbx_receive_queue, RMbx) BY <1>2, <3>1 DEF Fetch
      <4> QED BY <3>1, <4>1 DEF Typed
    <3>2. CASE ~(Len(mbx_receive_queue) < QueueCapacity) BY <1>2, <3>2 DEF Fetch, Typed
    <3> QED BY <3>1, <3>2
  <2> QED BY <1>2, <2>1, <2>2 DEF Fetch, ControlUnchanged, flags, device, Typed
<1>3. CASE Consume
  <2>1. control' \in Control BY <1>3 DEF Consume, Control
  <2> QED BY <1>3, <2>1 DEF Consume, ControlUnchanged, flags, device, Typed
<1>4. CASE Write
  <2>1. control' \in Control BY <1>4 DEF Write, Control
  <2>2. /\ issued' \in 0..MaxRequests
        /\ mbx_send_queue' \in Seq(Request) /\ Len(mbx_send_queue') <= QueueCapacity
    <3>1. CASE UNCHANGED <<issued, mbx_send_queue>> BY <3>1 DEF Typed
    <3>2. CASE /\ issued < MaxRequests /\ Len(mbx_send_queue) < QueueCapacity
               /\ issued' = issued + 1
               /\ \E k \in Kinds :
                    mbx_send_queue' = Append(mbx_send_queue, [id |-> issued', kind |-> k])
      <4>1. PICK k \in Kinds : mbx_send_queue' = Append(mbx_send_queue, [id |-> issued', kind |-> k])
        BY <3>2
      <4>2. issued' \in 1..MaxRequests BY <3>2 DEF Typed
      <4>3. [id |-> issued', kind |-> k] \in Request BY <4>2 DEF Request
      <4> QED BY <3>2, <4>1, <4>2, <4>3 DEF Typed
    <3> QED BY <1>4, <3>1, <3>2 DEF Write
  <2> QED BY <1>4, <2>1, <2>2 DEF Write, ControlUnchanged, flags, device, Typed
<1>5. CASE Load
  <2>1. control' \in Control BY <1>5 DEF Load, Control
  <2>2. /\ SMbx' \in Message
        /\ mbx_send_queue' \in Seq(Request) /\ Len(mbx_send_queue') <= QueueCapacity
    <3>1. CASE mbx_send_queue = <<>> BY <1>5, <3>1 DEF Load, Typed
    <3>2. CASE mbx_send_queue # <<>>
      <4>1. SMbx' = Head(mbx_send_queue) /\ mbx_send_queue' = Tail(mbx_send_queue)
        BY <1>5, <3>2 DEF Load
      <4>2. /\ Head(mbx_send_queue) \in Request /\ Tail(mbx_send_queue) \in Seq(Request)
            /\ Len(Tail(mbx_send_queue)) = Len(mbx_send_queue) - 1
            /\ Len(mbx_send_queue) \in Nat
        BY <3>2 DEF Typed
      <4> QED BY <4>1, <4>2, MessageFacts DEF Typed
    <3> QED BY <3>1, <3>2
  <2> QED BY <1>5, <2>1, <2>2 DEF Load, ControlUnchanged, flags, device, Typed
<1>6. CASE MbxReceive
  <2>1. cyclic' \in Cyclic BY <1>6 DEF MbxReceive, Cyclic
  <2>2. EC_RMbx' \in Message /\ outbox' \in Seq(Request)
    BY <1>6, MessageFacts DEF MbxReceive, Typed
  <2>3. errorList' \in Seq({"mailbox", "other"})
    <3>1. Append(errorList, "mailbox") \in Seq({"mailbox", "other"}) BY DEF Typed
    <3>2. errorList' \in {errorList, Append(errorList, "mailbox")} BY <1>6 DEF MbxReceive
    <3> QED BY <3>1, <3>2 DEF Typed
  <2> QED BY <1>6, <2>1, <2>2, <2>3 DEF MbxReceive, CyclicUnchanged, QueuesUnchanged, flags, Typed
<1>7. CASE PopMailboxError
  <2>1. cyclic' \in Cyclic BY <1>7 DEF PopMailboxError, Cyclic
  <2>2. errorList' \in Seq({"mailbox", "other"}) BY <1>7 DEF PopMailboxError, Typed
  <2> QED BY <1>7, <2>1, <2>2 DEF PopMailboxError, CyclicUnchanged, QueuesUnchanged, flags, device, Typed
<1>8. CASE DeviceAnswer
  <2>1. inbox \in Request BY <1>8, MessageFacts DEF DeviceAnswer, Typed
  <2>2. outbox' \in Seq(Request) BY <1>8, <2>1 DEF DeviceAnswer, Typed
  <2> QED BY <1>8, <2>2, MessageFacts DEF DeviceAnswer, flags, Typed
<1>9. CASE MbxSend
  <2>1. cyclic' \in Cyclic BY <1>9 DEF MbxSend, Cyclic
  <2>2. arrived' \in 0..MaxRequests /\ confirmed' \in 0..MaxRequests
    BY <1>9, MessageFacts DEF MbxSend, Deliver, Typed
  <2> QED BY <1>9, <2>1, <2>2 DEF MbxSend, Deliver, CyclicUnchanged, QueuesUnchanged, flags, Typed
<1>10. CASE MbxReceiveFails
  <2>1. cyclic' \in Cyclic BY <1>10 DEF MbxReceiveFails, Cyclic
  <2>2. errorList' \in Seq({"mailbox", "other"})
    BY <1>10, ListedTyped DEF MbxReceiveFails, Typed
  <2> QED BY <1>10, <2>1, <2>2 DEF MbxReceiveFails, CyclicUnchanged, QueuesUnchanged, flags, device, Typed
<1>11. CASE MbxSendFails
  <2>1. cyclic' \in Cyclic BY <1>11 DEF MbxSendFails, Cyclic
  <2>2. errorList' \in Seq({"mailbox", "other"})
    BY <1>11, ListedTyped DEF MbxSendFails, Typed
  <2>3. /\ inbox' \in Message /\ outbox' = outbox /\ confirmed' = confirmed
        /\ arrived' \in 0..MaxRequests /\ lost' \in 0..MaxLost
    BY <1>11, MessageFacts, SMTT(30) DEF MbxSendFails, Deliver, device, Typed
  <2> QED BY <1>11, <2>1, <2>2, <2>3 DEF MbxSendFails, CyclicUnchanged, QueuesUnchanged, flags, Typed
<1>12. CASE ClearUnread \/ Postpone \/ GateSend \/ GateReceive \/ StoreRaw \/ StoreReceive \/ StoreSend
  <2>1. control' \in Control
    BY <1>12 DEF ClearUnread, Postpone, GateSend, GateReceive, StoreRaw, StoreReceive, StoreSend, Control
  <2>2. /\ send_mbx_request' \in BOOLEAN /\ receive_mbx' \in BOOLEAN
        /\ receive_mbx_raw' \in BOOLEAN /\ receive_mbx_has_unread' \in BOOLEAN
    <3>1. CASE StoreRaw
      <4>1. receive_mbx_raw' \in BOOLEAN BY <3>1 DEF StoreRaw
      <4> QED BY <3>1, <4>1, Zenon DEF StoreRaw, Typed
    <3>2. CASE StoreReceive
      <4>1. ReadsReply(SMbx) = TRUE \/ ReadsReply(SMbx) = FALSE BY SMT DEF ReadsReply
      <4>2. receive_mbx' \in BOOLEAN BY <3>2, <4>1, Zenon DEF StoreReceive
      <4> QED BY <3>2, <4>2, Zenon DEF StoreReceive, Typed
    <3>3. CASE ClearUnread \/ Postpone \/ GateSend \/ GateReceive \/ StoreSend
      BY <3>3 DEF ClearUnread, Postpone, GateSend, GateReceive, StoreSend, flags, Typed
    <3> QED BY <1>12, <3>1, <3>2, <3>3
  <2> QED
    BY <1>12, <2>1, <2>2 DEF ClearUnread, Postpone, GateSend, GateReceive, StoreRaw,
       StoreReceive, StoreSend, ControlUnchanged, QueuesUnchanged, device, Typed
<1>17. CASE TestSend
  <2>1. cyclic' \in Cyclic BY <1>17 DEF TestSend, Cyclic
  <2>2. errorList' \in Seq({"mailbox", "other"}) BY <1>17, ListedTyped DEF TestSend, Typed
  <2> QED BY <1>17, <2>1, <2>2 DEF TestSend, CyclicUnchanged, QueuesUnchanged, flags, device, Typed
<1>13. CASE LoadSend \/ ClearRequest \/ TestReceive \/ TestUnread
  <2>1. cyclic' \in Cyclic
    BY <1>13 DEF LoadSend, ClearRequest, TestReceive, TestUnread, Cyclic
  <2>2. /\ send_mbx_request' \in BOOLEAN /\ receive_mbx' \in BOOLEAN
        /\ receive_mbx_raw' \in BOOLEAN /\ receive_mbx_has_unread' \in BOOLEAN
    BY <1>13 DEF LoadSend, ClearRequest, TestReceive, TestUnread, flags, Typed
  <2>3. EC_SMbx' \in Message /\ EC_RMbx' \in Message
    BY <1>13, MessageFacts DEF LoadSend, ClearRequest, TestReceive, TestUnread, Typed
  <2>4. UNCHANGED <<control, SMbx, issued, mbx_send_queue, mbx_receive_queue, consumed,
                    RMbx, mbx_raw, errorList, inbox, outbox, arrived, confirmed, lost>>
    BY <1>13 DEF LoadSend, ClearRequest, TestReceive, TestUnread,
       CyclicUnchanged, QueuesUnchanged, device
  <2> QED BY <2>1, <2>2, <2>3, <2>4 DEF Typed
<1>14. CASE CopyReceived \/ SetUnread \/ DisableReceive
  <2>1. cyclic' \in Cyclic
    BY <1>14 DEF CopyReceived, SetUnread, DisableReceive, Cyclic
  <2> QED
    BY <1>14, <2>1 DEF CopyReceived, SetUnread, DisableReceive,
       CyclicUnchanged, QueuesUnchanged, flags, device, Typed
<1>16. CASE CountErrors
  <2>1. cyclic' \in Cyclic BY <1>16 DEF CountErrors, Cyclic
  <2>2. errorList' \in Seq({"mailbox", "other"}) BY <1>16 DEF CountErrors
  <2> QED BY <1>16, <2>1, <2>2 DEF CountErrors, CyclicUnchanged, QueuesUnchanged, flags, device, Typed
<1>15. CASE UNCHANGED vars BY <1>15 DEF vars, flags, device, Typed
<1> QED
  BY <1>1, <1>2, <1>3, <1>4, <1>5, <1>6, <1>7, <1>8, <1>9, <1>10, <1>11, <1>12, <1>13, <1>14, <1>15, <1>16, <1>17
  DEF Next, ControlStep, CyclicStep

-----------------------------------------------------------------------------
(* The handshake *)

\* Who has seen a flag relies on it: write() on a request that was sent,
\* cyclic_task on one that was not, read() on a message, cyclic_task on there
\* being none.
Handshake ==
  /\ control \in {"gate_receive", "load", "store_raw", "store_receive", "store_send"}
       => ~send_mbx_request
  /\ cyclic \in {"load", "mbxsend", "sent"} => send_mbx_request
  /\ control \in {"fetch", "unread"} => receive_mbx_has_unread
  /\ cyclic \in {"mbxreceive", "copy", "set_unread"} => ~receive_mbx_has_unread

\* At first no flag is raised.
LEMMA InitHandshake == Init => Handshake
BY DEF Init, Handshake

\* A flag is changed only by the thread that nobody relies on then.
LEMMA StepHandshake == Handshake /\ [Next]_vars => Handshake'
<1> SUFFICES ASSUME Handshake, [Next]_vars PROVE Handshake'
  OBVIOUS
<1>1. CASE ControlStep
  <2>1. CASE Read \/ Fetch \/ ClearUnread \/ Consume \/ Postpone \/ Write
    BY <2>1 DEF Read, Fetch, ClearUnread, Consume, Postpone, Write, ControlUnchanged,
       QueuesUnchanged, flags, Handshake
  <2>2. CASE GateSend \/ GateReceive \/ Load \/ StoreRaw \/ StoreReceive \/ StoreSend
    BY <2>2 DEF GateSend, GateReceive, Load, StoreRaw, StoreReceive, StoreSend,
       ControlUnchanged, QueuesUnchanged, flags, Handshake
  <2> QED BY <1>1, <2>1, <2>2 DEF ControlStep
<1>2. CASE CyclicStep
  <2>1. CASE TestSend \/ LoadSend \/ MbxSend \/ MbxSendFails \/ ClearRequest
    BY <2>1 DEF TestSend, LoadSend, MbxSend, MbxSendFails, ClearRequest, CyclicUnchanged,
       flags, Handshake
  <2>2. CASE TestReceive \/ TestUnread \/ MbxReceive \/ MbxReceiveFails
    BY <2>2 DEF TestReceive, TestUnread, MbxReceive, MbxReceiveFails, CyclicUnchanged,
       flags, Handshake
  <2>3. CASE CopyReceived \/ SetUnread \/ DisableReceive \/ PopMailboxError \/ CountErrors
    BY <2>3 DEF CopyReceived, SetUnread, DisableReceive, PopMailboxError, CountErrors,
       CyclicUnchanged, flags, Handshake
  <2> QED BY <1>2, <2>1, <2>2, <2>3 DEF CyclicStep
<1>3. CASE DeviceAnswer BY <1>3 DEF DeviceAnswer, flags, Handshake
<1>4. CASE UNCHANGED vars BY <1>4 DEF vars, flags, Handshake
<1> QED BY <1>1, <1>2, <1>3, <1>4 DEF Next

-----------------------------------------------------------------------------
(* Requests are sent in order *)

\* The request in SMbx has been taken off the queue and not been sent yet.
Outstanding ==
  \/ control \in {"store_raw", "store_receive", "store_send"}
  \/ send_mbx_request /\ cyclic # "sent"

\* The queue holds the last requests issued, SMbx the one before.  All up to
\* that have been sent with success, but for an outstanding one, which the
\* slave may have got from a send whose answer was lost.
Numbered ==
  /\ \A i \in 1..Len(mbx_send_queue) :
       mbx_send_queue[i].id = issued - Len(mbx_send_queue) + i
  /\ SMbx.id = issued - Len(mbx_send_queue)
  /\ cyclic \in {"mbxsend", "sent"} => EC_SMbx = SMbx
  /\ Outstanding => confirmed = SMbx.id - 1
  /\ ~Outstanding => confirmed = SMbx.id
  /\ arrived \in {confirmed, SMbx.id}

\* At first nothing was issued.
LEMMA InitNumbered == Init => Numbered
<1>1. Len(<<>>) = 0 /\ 1..0 = {} OBVIOUS
<1>2. Cleared.id = 0 BY DEF Cleared
<1> QED BY <1>1, <1>2 DEF Init, Numbered, Outstanding

\* Each step keeps the requests in order.
LEMMA StepNumbered == Typed /\ Handshake /\ Numbered /\ [Next]_vars => Numbered'
<1> SUFFICES ASSUME Typed, Handshake, Numbered, [Next]_vars PROVE Numbered'
  OBVIOUS
<1>1. CASE Read \/ Fetch \/ ClearUnread \/ Consume \/ Postpone
  BY <1>1 DEF Read, Fetch, ClearUnread, Consume, Postpone, ControlUnchanged, QueuesUnchanged,
     flags, device, Numbered, Outstanding
<1>2. CASE Write
  <2>1. /\ UNCHANGED <<cyclic, EC_SMbx, SMbx, arrived, confirmed, send_mbx_request>>
        /\ (Outstanding' <=> Outstanding)
    BY <1>2 DEF Write, ControlUnchanged, flags, device, Outstanding
  <2>2. CASE UNCHANGED <<issued, mbx_send_queue>>
    BY <2>1, <2>2 DEF Numbered
  <2>3. CASE /\ issued' = issued + 1
             /\ \E k \in Kinds :
                  mbx_send_queue' = Append(mbx_send_queue, [id |-> issued', kind |-> k])
    <3>1. PICK k \in Kinds : mbx_send_queue' = Append(mbx_send_queue, [id |-> issued', kind |-> k])
      BY <2>3
    <3> DEFINE n == Len(mbx_send_queue)
    <3>2. n \in Nat /\ issued \in Nat /\ mbx_send_queue \in Seq(Request) BY DEF Typed
    <3>3. /\ Len(mbx_send_queue') = n + 1
          /\ \A i \in 1..n : mbx_send_queue'[i] = mbx_send_queue[i]
          /\ mbx_send_queue'[n + 1] = [id |-> issued', kind |-> k]
      BY <3>1, <3>2
    <3>4. mbx_send_queue'[n + 1].id = issued' BY <3>3
    <3>5. \A i \in 1..n : mbx_send_queue[i].id = issued - n + i BY DEF Numbered
    <3>6. \A i \in 1..(n + 1) : mbx_send_queue'[i].id = issued' - (n + 1) + i
      <4> SUFFICES ASSUME NEW i \in 1..(n + 1)
                   PROVE  mbx_send_queue'[i].id = issued' - (n + 1) + i
        OBVIOUS
      <4>1. CASE i = n + 1 BY <2>3, <3>2, <3>4, <4>1
      <4>2. CASE i \in 1..n BY <2>3, <3>2, <3>3, <3>5, <4>2
      <4> QED BY <3>2, <4>1, <4>2
    <3>7. SMbx'.id = issued' - Len(mbx_send_queue')
      BY <2>1, <2>3, <3>2, <3>3 DEF Numbered
    <3> QED BY <2>1, <3>3, <3>6, <3>7 DEF Numbered
  <2> QED BY <1>2, <2>2, <2>3 DEF Write
<1>3. CASE GateSend \/ GateReceive
  BY <1>3 DEF GateSend, GateReceive, ControlUnchanged, QueuesUnchanged,
     flags, device, Numbered, Outstanding
<1>4. CASE Load
  <2>1. ~send_mbx_request /\ cyclic \notin {"load", "mbxsend", "sent"}
    BY <1>4 DEF Load, Handshake
  <2>2. ~Outstanding /\ arrived = SMbx.id /\ confirmed = SMbx.id BY <1>4, <2>1 DEF Load, Outstanding, Numbered
  <2>3. CASE mbx_send_queue = <<>>
    BY <1>4, <2>1, <2>3 DEF Load, ControlUnchanged, flags, device, Numbered, Outstanding
  <2>4. CASE mbx_send_queue # <<>>
    <3> DEFINE n == Len(mbx_send_queue)
    <3>1. /\ SMbx' = Head(mbx_send_queue) /\ mbx_send_queue' = Tail(mbx_send_queue)
          /\ Outstanding' /\ UNCHANGED <<issued, cyclic, arrived, confirmed>>
      BY <1>4, <2>4 DEF Load, ControlUnchanged, device, Outstanding
    <3>2. /\ n \in Nat /\ n >= 1 /\ issued \in Nat
          /\ Len(mbx_send_queue') = n - 1
          /\ SMbx' = mbx_send_queue[1]
          /\ \A i \in 1..(n - 1) : mbx_send_queue'[i] = mbx_send_queue[i + 1]
      BY <2>4, <3>1 DEF Typed
    <3>3. \A i \in 1..n : mbx_send_queue[i].id = issued - n + i BY DEF Numbered
    <3>4. SMbx'.id = issued' - (n - 1) BY <3>1, <3>2, <3>3
    <3>5. \A i \in 1..(n - 1) : mbx_send_queue'[i].id = issued' - (n - 1) + i
      <4> SUFFICES ASSUME NEW i \in 1..(n - 1)
                   PROVE  mbx_send_queue'[i].id = issued' - (n - 1) + i
        OBVIOUS
      <4>1. i + 1 \in 1..n BY <3>2
      <4>2. mbx_send_queue[i + 1].id = issued - n + (i + 1) BY <3>3, <4>1
      <4> QED BY <3>1, <3>2, <4>2
    <3>6. arrived' = SMbx'.id - 1 /\ confirmed' = SMbx'.id - 1
      BY <2>2, <3>1, <3>2, <3>4 DEF Numbered
    <3> QED BY <2>1, <3>1, <3>2, <3>4, <3>5, <3>6 DEF Numbered
  <2> QED BY <2>3, <2>4
<1>5. CASE StoreRaw \/ StoreReceive
  BY <1>5 DEF StoreRaw, StoreReceive, ControlUnchanged, QueuesUnchanged, device, Numbered, Outstanding
<1>6. CASE StoreSend
  <2>1. cyclic # "sent" BY <1>6 DEF StoreSend, Handshake
  <2> QED BY <1>6, <2>1 DEF StoreSend, ControlUnchanged, QueuesUnchanged, device, Numbered, Outstanding
<1>7. CASE TestSend \/ LoadSend
  BY <1>7 DEF TestSend, LoadSend, CyclicUnchanged, QueuesUnchanged, flags, device,
     Numbered, Outstanding
<1>14. CASE MbxSendFails
  <2>1. Outstanding /\ EC_SMbx = SMbx /\ arrived' \in {arrived, EC_SMbx.id}
    BY <1>14 DEF MbxSendFails, Deliver, device, Handshake, Outstanding, Numbered
  <2>2. Outstanding' /\ UNCHANGED <<SMbx, EC_SMbx, confirmed, issued, mbx_send_queue>>
        /\ cyclic' = "receive"
    BY <1>14, <2>1 DEF MbxSendFails, CyclicUnchanged, QueuesUnchanged, flags, device, Outstanding
  <2> QED BY <2>1, <2>2 DEF Numbered
<1>8. CASE MbxSend
  <2>1. send_mbx_request /\ control \notin {"store_raw", "store_receive", "store_send"}
    BY <1>8 DEF MbxSend, Handshake
  <2>2. ~Outstanding' /\ EC_SMbx = SMbx
    BY <1>8, <2>1 DEF MbxSend, CyclicUnchanged, flags, Outstanding, Numbered
  <2>3. arrived' = SMbx'.id /\ confirmed' = SMbx'.id
    BY <1>8, <2>2 DEF MbxSend, Deliver, CyclicUnchanged
  <2> QED BY <1>8, <2>2, <2>3 DEF MbxSend, CyclicUnchanged, QueuesUnchanged, Numbered
<1>9. CASE ClearRequest
  <2>1. control \notin {"store_raw", "store_receive", "store_send"}
    BY <1>9 DEF ClearRequest, Handshake
  <2> QED BY <1>9, <2>1 DEF ClearRequest, CyclicUnchanged, QueuesUnchanged, device, Numbered, Outstanding
<1>10. CASE TestReceive \/ TestUnread \/ MbxReceive \/ MbxReceiveFails
  BY <1>10 DEF TestReceive, TestUnread, MbxReceive, MbxReceiveFails, CyclicUnchanged,
     QueuesUnchanged, flags, device, Numbered, Outstanding
<1>11. CASE CopyReceived \/ SetUnread \/ DisableReceive \/ PopMailboxError \/ CountErrors
  BY <1>11 DEF CopyReceived, SetUnread, DisableReceive, PopMailboxError, CountErrors,
     CyclicUnchanged, QueuesUnchanged, flags, device, Numbered, Outstanding
<1>12. CASE DeviceAnswer BY <1>12 DEF DeviceAnswer, flags, Numbered, Outstanding
<1>13. CASE UNCHANGED vars BY <1>13 DEF vars, flags, device, Numbered, Outstanding
<1> QED
  BY <1>1, <1>2, <1>3, <1>4, <1>5, <1>6, <1>7, <1>8, <1>9, <1>10, <1>11, <1>12, <1>13, <1>14
  DEF Next, ControlStep, CyclicStep

-----------------------------------------------------------------------------
(* Errors a raw read leaves *)

\* With no errors but those of the mailbox there is none until mail is received
\* in a cycle, then one at most, and after a raw read none.
NoneListed == cyclic \in {"send", "load", "mbxsend", "sent", "receive", "unread", "mbxreceive"}
                => errorList = <<>>
OneListed == cyclic \in {"copy", "set_unread", "disable", "pop_error"}
               => errorList = <<>> \/ errorList = <<"mailbox">>
NoneCounted == cyclic = "count" /\ mbx_raw => errorList = <<>>
MailboxErrorAlone == NoneListed /\ OneListed /\ NoneCounted

\* At first no error is listed.
LEMMA InitErrors == Init => MailboxErrorAlone
BY DEF Init, MailboxErrorAlone, NoneListed, OneListed, NoneCounted

\* Each step keeps the mailbox error alone in the list, until it is popped.
LEMMA StepErrors ==
  ~OtherErrors /\ MailboxErrorAlone /\ [Next]_vars => MailboxErrorAlone'
<1> SUFFICES ASSUME ~OtherErrors, MailboxErrorAlone, [Next]_vars PROVE MailboxErrorAlone'
  OBVIOUS
<1> USE DEF MailboxErrorAlone, NoneListed, OneListed, NoneCounted
<1>1. CASE ControlStep \/ DeviceAnswer \/ UNCHANGED vars
  <2>1. UNCHANGED <<cyclic, mbx_raw, errorList>>
    BY <1>1 DEF ControlStep, Read, Fetch, ClearUnread, Consume, Postpone, Write, GateSend,
       GateReceive, Load, StoreRaw, StoreReceive, StoreSend, ControlUnchanged, DeviceAnswer, vars
  <2> QED BY <2>1
<1>2. CASE TestSend \/ LoadSend \/ MbxSend \/ MbxSendFails \/ ClearRequest \/ TestReceive
           \/ TestUnread
  BY <1>2 DEF TestSend, LoadSend, MbxSend, MbxSendFails, ClearRequest, TestReceive, TestUnread,
     Listed
<1>3. CASE MbxReceive
  <2>1. errorList = <<>> BY <1>3 DEF MbxReceive
  <2>2. errorList' = <<>> \/ errorList' = <<"mailbox">>
    <3>1. Append(<<>>, "mailbox") = <<"mailbox">> OBVIOUS
    <3> QED BY <1>3, <2>1, <3>1 DEF MbxReceive
  <2>3. \/ cyclic' = "copy"
        \/ cyclic' = "count" /\ ~mbx_raw'
    BY <1>3 DEF MbxReceive
  <2> QED BY <2>2, <2>3
<1>4. CASE MbxReceiveFails
  <2>1. errorList' = <<>> BY <1>4 DEF MbxReceiveFails, Listed
  <2>2. cyclic' \in {"count", "copy"} BY <1>4 DEF MbxReceiveFails
  <2> QED BY <2>1, <2>2
<1>5. CASE CopyReceived \/ SetUnread \/ DisableReceive
  BY <1>5 DEF CopyReceived, SetUnread, DisableReceive
<1>6. CASE PopMailboxError
  <2>1. Head(<<"mailbox">>) = "mailbox" /\ Tail(<<"mailbox">>) = <<>> OBVIOUS
  <2>2. (errorList = <<>> \/ errorList = <<"mailbox">>) /\ cyclic' = "count"
        /\ mbx_raw' = mbx_raw
    BY <1>6 DEF PopMailboxError
  <2>3. mbx_raw => errorList' = <<>> BY <1>6, <2>1, <2>2 DEF PopMailboxError
  <2> QED BY <2>2, <2>3
<1>7. CASE CountErrors BY <1>7 DEF CountErrors
<1> QED BY <1>1, <1>2, <1>3, <1>4, <1>5, <1>6, <1>7 DEF Next, CyclicStep

-----------------------------------------------------------------------------
(* Theorems *)

IInv == Typed /\ Handshake /\ Numbered

\* The three together are inductive.
LEMMA Invariant == Spec => []IInv
<1>1. Init => IInv BY InitTyped, InitHandshake, InitNumbered DEF IInv
<1>2. IInv /\ [Next]_vars => IInv'
  BY StepTyped, StepHandshake, StepNumbered DEF IInv
<1> QED BY <1>1, <1>2, PTL DEF Spec

\* Variables keep their types, both queues of the slave their capacity.
THEOREM MailboxTyped == Spec => []TypeOK
<1>1. IInv => TypeOK BY TypedIsTypeOK DEF IInv
<1> QED BY <1>1, Invariant, PTL

\* SMbx and RMbx, which have no lock, are never used by both threads at once.
THEOREM ExclusiveBuffers == Spec => []BuffersExclusive
<1>1. IInv => BuffersExclusive BY DEF IInv, Handshake, BuffersExclusive
<1> QED BY <1>1, Invariant, PTL

\* If SOEM lists no errors but those of the mailbox, a raw read leaves none to
\* be counted: popping the oldest is then popping the one the read raised.
THEOREM RawReadsAreNoErrors == ~OtherErrors => (Spec => []RawReadIsNoError)
<1> SUFFICES ASSUME ~OtherErrors PROVE Spec => []RawReadIsNoError
  OBVIOUS
<1>1. MailboxErrorAlone /\ [Next]_vars => MailboxErrorAlone' BY StepErrors
<1>2. MailboxErrorAlone => RawReadIsNoError
  BY DEF MailboxErrorAlone, NoneCounted, RawReadIsNoError
<1> QED BY <1>1, <1>2, InitErrors, PTL DEF Spec

\* A message stays in RMbx until read() has it, however full the queue is.
THEOREM UnreadIsKept == Spec => UnreadKept
<1>1. IInv /\ [Next]_vars => [receive_mbx_has_unread => RMbx' = RMbx]_vars
  <2> SUFFICES ASSUME IInv, Next, receive_mbx_has_unread PROVE RMbx' = RMbx
    BY DEF vars
  <2>1. CASE ControlStep
    BY <2>1 DEF ControlStep, Read, Fetch, ClearUnread, Consume, Postpone, Write, GateSend,
       GateReceive, Load, StoreRaw, StoreReceive, StoreSend, ControlUnchanged
  <2>2. CASE CyclicStep
    BY <2>2 DEF CyclicStep, TestSend, LoadSend, MbxSend, MbxSendFails, ClearRequest,
       TestReceive, TestUnread, MbxReceive, MbxReceiveFails, CopyReceived, SetUnread,
       DisableReceive, PopMailboxError, CountErrors, IInv, Handshake
  <2>3. CASE DeviceAnswer BY <2>3 DEF DeviceAnswer
  <2> QED BY <2>1, <2>2, <2>3 DEF Next
<1> QED BY <1>1, Invariant, PTL DEF Spec, UnreadKept

\* What the slave gets is the request write() put into SMbx, the next one or,
\* if no send of it has succeeded yet, the one it got last.
THEOREM RequestsInOrder == Spec => SentInOrder
<1> DEFINE Due == inbox'.id \in {arrived, arrived + 1} /\ inbox'.id > confirmed
<1>1. IInv /\ [Next]_vars => [inbox = Cleared /\ inbox' # Cleared => Due]_vars
  <2> SUFFICES ASSUME IInv, Next, inbox = Cleared, inbox' # Cleared
               PROVE  Due
    BY DEF vars
  <2>1. CASE MbxSend \/ MbxSendFails
    <3>1. send_mbx_request /\ cyclic = "mbxsend" /\ inbox' = SMbx
      BY <2>1 DEF MbxSend, MbxSendFails, Deliver, device, IInv, Handshake, Numbered
    <3>2. Outstanding /\ confirmed = SMbx.id - 1 /\ arrived \in {confirmed, SMbx.id}
      BY <3>1 DEF Outstanding, IInv, Numbered
    <3>3. SMbx.id \in Nat BY MessageFacts, BoundsAssumption DEF IInv, Typed
    <3> QED BY <3>1, <3>2, <3>3
  <2>2. CASE ControlStep
    BY <2>2 DEF ControlStep, Read, Fetch, ClearUnread, Consume, Postpone, Write, GateSend,
       GateReceive, Load, StoreRaw, StoreReceive, StoreSend, ControlUnchanged, device
  <2>3. CASE CyclicStep /\ ~MbxSend /\ ~MbxSendFails
    BY <2>3 DEF CyclicStep, TestSend, LoadSend, ClearRequest,
       TestReceive, TestUnread, MbxReceive, MbxReceiveFails, CopyReceived, SetUnread,
       DisableReceive, PopMailboxError, CountErrors, device
  <2>4. CASE DeviceAnswer BY <2>4 DEF DeviceAnswer
  <2> QED BY <2>1, <2>2, <2>3, <2>4 DEF Next
<1> QED BY <1>1, Invariant, PTL DEF Spec, SentInOrder

-----------------------------------------------------------------------------
(* A slave that sends no mail without being asked, never drops out and of   *)
(* whose answers none is lost has a mailbox that is a MailboxChannel.       *)

Patient == ~Dropouts /\ MaxLost = 0 /\ "command" \notin Answered

-----------------------------------------------------------------------------
(* Waiting for a reply *)

\* A query has left write() and cyclic_task has not stopped asking for it.
InTransit ==
  \/ control \in {"store_raw", "store_receive"} /\ ReadsReply(SMbx)
  \/ receive_mbx /\ cyclic # "disable"

\* cyclic_task hands a reply over.
Delivering == cyclic \in {"copy", "set_unread", "disable"}

\* write() takes no request while a reply is awaited, cyclic_task receives
\* only then, and what is awaited is the reply to the query in SMbx.
Waiting ==
  /\ control \in {"load", "store_raw", "store_receive"} => ~receive_mbx
  /\ cyclic \in {"unread", "mbxreceive", "copy", "set_unread", "disable"} => receive_mbx
  /\ receive_mbx => ReadsReply(SMbx)
  /\ Outstanding /\ ReadsReply(SMbx) /\ control \notin {"store_raw", "store_receive"}
       => receive_mbx

\* At first nothing is awaited.
LEMMA InitWaiting == Init => Waiting
BY DEF Init, Waiting, Outstanding

\* The flag is raised by write() when a query leaves it, and taken back by
\* cyclic_task once the reply is there.
LEMMA StepWaiting ==
  Handshake /\ Waiting /\ (Delivering => ~Outstanding) /\ [Next]_vars => Waiting'
<1> SUFFICES ASSUME Handshake, Waiting, Delivering => ~Outstanding, [Next]_vars
             PROVE  Waiting'
  OBVIOUS
<1> USE DEF Waiting, Outstanding
<1>1. CASE Read \/ Fetch \/ ClearUnread \/ Consume \/ Postpone \/ Write
  BY <1>1 DEF Read, Fetch, ClearUnread, Consume, Postpone, Write, ControlUnchanged,
     QueuesUnchanged, flags, Handshake
<1>2. CASE GateSend \/ GateReceive \/ StoreRaw \/ StoreReceive \/ StoreSend
  BY <1>2 DEF GateSend, GateReceive, StoreRaw, StoreReceive, StoreSend, ControlUnchanged,
     QueuesUnchanged, flags, Handshake
<1>3. CASE Load
  BY <1>3 DEF Load, ControlUnchanged, flags, Handshake
<1>4. CASE TestSend \/ LoadSend \/ MbxSend \/ MbxSendFails \/ ClearRequest
  BY <1>4 DEF TestSend, LoadSend, MbxSend, MbxSendFails, ClearRequest, CyclicUnchanged,
     flags, Handshake
<1>5. CASE TestReceive \/ TestUnread \/ MbxReceive \/ MbxReceiveFails
  BY <1>5 DEF TestReceive, TestUnread, MbxReceive, MbxReceiveFails, CyclicUnchanged,
     flags, Handshake
<1>6. CASE DisableReceive
  BY <1>6 DEF DisableReceive, CyclicUnchanged, Delivering, Handshake
<1>7. CASE CopyReceived \/ SetUnread \/ PopMailboxError \/ CountErrors
  BY <1>7 DEF CopyReceived, SetUnread, PopMailboxError, CountErrors, CyclicUnchanged,
     flags, Handshake
<1>8. CASE DeviceAnswer BY <1>8 DEF DeviceAnswer, flags, Handshake
<1>9. CASE UNCHANGED vars BY <1>9 DEF vars, flags, Handshake
<1> QED
  BY <1>1, <1>2, <1>3, <1>4, <1>5, <1>6, <1>7, <1>8, <1>9 DEF Next, ControlStep, CyclicStep

\* The query in transit, once sent, is in one place at a time: in the slave,
\* in its reply, or in the buffer cyclic_task is about to hand over.
OnePlace ==
  /\ ReadsReply(inbox) => /\ inbox = SMbx /\ receive_mbx /\ ~Outstanding
                          /\ outbox = <<>> /\ ~Delivering
  /\ outbox # <<>> => /\ outbox = <<SMbx>> /\ receive_mbx /\ ~Outstanding
                      /\ ~Delivering
  /\ cyclic = "copy" => EC_RMbx = SMbx
  /\ cyclic = "set_unread" => RMbx = SMbx
  /\ Delivering => ~Outstanding

\* At first no query is anywhere.
LEMMA InitOnePlace == Init => OnePlace
BY DEF Init, OnePlace, Outstanding, ReadsReply, Delivering, Cleared

\* A reply moves from place to place and leaves the last as it enters the next.
LEMMA StepOnePlace ==
  Patient /\ IInv /\ Waiting /\ OnePlace /\ [Next]_vars => OnePlace'
<1> SUFFICES ASSUME Patient, IInv, Waiting, OnePlace, [Next]_vars PROVE OnePlace'
  OBVIOUS
<1> USE DEF OnePlace, Outstanding, Delivering
<1>0. Handshake /\ Numbered /\ Typed BY DEF IInv
<1>1. CASE Read \/ Fetch \/ ClearUnread \/ Consume \/ Postpone \/ Write
  BY <1>1 DEF Read, Fetch, ClearUnread, Consume, Postpone, Write, ControlUnchanged,
     QueuesUnchanged, flags, device
<1>2. CASE GateSend \/ GateReceive \/ StoreRaw \/ StoreReceive \/ StoreSend
  BY <1>0, <1>2 DEF GateSend, GateReceive, StoreRaw, StoreReceive, StoreSend, ControlUnchanged,
     QueuesUnchanged, flags, device, Waiting
<1>3. CASE Load
  BY <1>0, <1>3 DEF Load, ControlUnchanged, flags, device, Waiting
<1>4. CASE TestSend \/ LoadSend \/ ClearRequest
  BY <1>0, <1>4 DEF TestSend, LoadSend, ClearRequest, CyclicUnchanged, flags, device, Handshake
<1>11. CASE MbxSendFails
  <2>1. UNCHANGED device BY <1>0, <1>11 DEF MbxSendFails, Typed, Patient
  <2> QED BY <1>0, <1>11, <2>1 DEF MbxSendFails, CyclicUnchanged, flags, device, Handshake
<1>5. CASE MbxSend
  <2>1. /\ inbox' = SMbx /\ cyclic' = "sent" /\ Outstanding /\ send_mbx_request
        /\ control \notin {"store_raw", "store_receive", "store_send"}
    BY <1>0, <1>5 DEF MbxSend, Deliver, Handshake, Numbered
  <2>2. outbox = <<>> /\ UNCHANGED <<outbox, control, send_mbx_request, receive_mbx, SMbx>>
    BY <1>5, <2>1 DEF MbxSend, CyclicUnchanged, flags
  <2>3. ReadsReply(SMbx) => receive_mbx BY <2>1 DEF Waiting
  <2> QED BY <2>1, <2>2, <2>3
<1>6. CASE TestReceive \/ TestUnread \/ MbxReceiveFails
  BY <1>6 DEF TestReceive, TestUnread, MbxReceiveFails, CyclicUnchanged, flags, device, Patient
<1>7. CASE MbxReceive
  <2>1. /\ outbox = <<SMbx>> /\ receive_mbx /\ ~Outstanding /\ ~ReadsReply(inbox)
        /\ cyclic = "mbxreceive"
    BY <1>7 DEF MbxReceive
  <2>2. EC_RMbx' = SMbx /\ outbox' = <<>> BY <1>7, <2>1 DEF MbxReceive
  <2>3. /\ UNCHANGED <<control, SMbx, send_mbx_request, receive_mbx, inbox>>
        /\ cyclic' \in {"copy", "count"}
    BY <1>7 DEF MbxReceive, CyclicUnchanged, flags
  <2> QED BY <2>1, <2>2, <2>3 DEF Waiting
<1>8. CASE CopyReceived \/ SetUnread \/ DisableReceive \/ PopMailboxError \/ CountErrors
  BY <1>8 DEF CopyReceived, SetUnread, DisableReceive, PopMailboxError, CountErrors,
     CyclicUnchanged, flags, device
<1>9. CASE DeviceAnswer
  <2>1. /\ inbox' = Cleared /\ ~ReadsReply(inbox')
        /\ UNCHANGED <<control, cyclic, SMbx, RMbx, EC_RMbx, receive_mbx, send_mbx_request>>
    BY <1>9 DEF DeviceAnswer, flags, ReadsReply, Cleared
  <2>2. CASE inbox.kind \in Answered
    <3>1. ReadsReply(inbox) BY <2>2, KindsAssumption DEF Patient, ReadsReply
    <3>2. outbox' = <<SMbx>> BY <1>9, <2>2, <3>1 DEF DeviceAnswer
    <3> QED BY <2>1, <3>1, <3>2
  <2>3. CASE inbox.kind \notin Answered
    <3>1. outbox' = outbox BY <1>9, <2>3 DEF DeviceAnswer
    <3> QED BY <2>1, <3>1
  <2> QED BY <2>2, <2>3
<1>10. CASE UNCHANGED vars BY <1>10 DEF vars, flags, device
<1> QED
  BY <1>1, <1>2, <1>3, <1>4, <1>5, <1>6, <1>7, <1>8, <1>9, <1>10, <1>11
     DEF Next, ControlStep, CyclicStep

-----------------------------------------------------------------------------
(* Each step is one of the channel or none *)

\* What the module read, will read, and finds unread.
Unread == IF receive_mbx_has_unread /\ control # "unread" THEN <<RMbx>> ELSE <<>>
Replies == consumed \o mbx_receive_queue \o Unread
Transit == IF InTransit THEN SMbx ELSE Cleared

\* The channel's variables and steps in these terms.
LEMMA ChannelSteps ==
  /\ UNCHANGED <<mbx_send_queue, Transit, Replies>> => [Channel!Next]_(Channel!vars)
  /\ (\E r \in Request : /\ Len(mbx_send_queue) < QueueCapacity
                         /\ mbx_send_queue' = Append(mbx_send_queue, r)
                         /\ UNCHANGED <<Transit, Replies>>) => Channel!Next
  /\ (/\ mbx_send_queue # <<>> /\ Transit = Cleared
      /\ mbx_send_queue' = Tail(mbx_send_queue)
      /\ Transit' = IF Head(mbx_send_queue) \in Queries THEN Head(mbx_send_queue) ELSE Cleared
      /\ UNCHANGED Replies) => Channel!Next
  /\ (/\ Transit # Cleared /\ Replies' = Append(Replies, Transit) /\ Transit' = Cleared
      /\ UNCHANGED mbx_send_queue) => Channel!Next
BY DEF Channel!Next, Channel!vars, Channel!Enqueue, Channel!Take, Channel!Reply,
   Transit, InTransit, Replies, Unread

\* Taking a message from RMbx, or from the queue, does not change what is read.
LEMMA RepliesStay ==
  ASSUME NEW c \in Seq(Message), NEW q \in Seq(Message), NEW u \in Seq(Message),
         NEW m \in Message
  PROVE  /\ c \o q \o <<m>> = c \o Append(q, m) \o <<>>
         /\ (c \o q) \o <<>> \o u = c \o q \o u
         /\ c \o q \o <<m>> = Append(c \o q \o <<>>, m)
<1>1. <<m>> \in Seq(Message) /\ <<>> \in Seq(Message) /\ c \o q \in Seq(Message)
      /\ Append(q, m) \in Seq(Message)
  OBVIOUS
<1>2. Append(q, m) = q \o <<m>> /\ Append(c \o q, m) = c \o q \o <<m>>
  BY <1>1, AppendIsConcat
<1>3. c \o Append(q, m) \in Seq(Message) BY <1>1, ConcatProperties
<1>4. (c \o q) \o <<>> = c \o q /\ c \o Append(q, m) \o <<>> = c \o Append(q, m)
  BY <1>1, <1>3, ConcatEmptySeq
<1>5. c \o q \o <<m>> = c \o (q \o <<m>>) BY <1>1, ConcatAssociative, SMTT(30)
<1> QED BY <1>2, <1>4, <1>5

\* A request leaves with Load, its reply arrives with SetUnread; Write
\* enqueues; every other step changes nothing the channel tells apart.
LEMMA StepSimulation ==
  IInv /\ Waiting /\ OnePlace /\ [Next]_vars => [Channel!Next]_(Channel!vars)
<1> SUFFICES ASSUME IInv, Waiting, OnePlace, [Next]_vars
             PROVE  [Channel!Next]_(Channel!vars)
  OBVIOUS
<1>0. Handshake /\ Typed BY DEF IInv
<1>1. CASE Read \/ ClearUnread \/ Postpone \/ GateSend \/ GateReceive
           \/ StoreRaw \/ StoreReceive \/ StoreSend
  <2>1. UNCHANGED <<mbx_send_queue, Transit>>
    BY <1>1 DEF Read, ClearUnread, Postpone, GateSend, GateReceive, StoreRaw, StoreReceive,
       StoreSend, ControlUnchanged, QueuesUnchanged, flags, Transit, InTransit, Waiting
  <2>2. UNCHANGED Replies
    BY <1>1 DEF Read, ClearUnread, Postpone, GateSend, GateReceive, StoreRaw, StoreReceive,
       StoreSend, ControlUnchanged, QueuesUnchanged, flags, Replies, Unread
  <2> QED BY <2>1, <2>2, ChannelSteps
<1>2. CASE Fetch
  <2>1. UNCHANGED <<mbx_send_queue, Transit>>
    BY <1>2 DEF Fetch, ControlUnchanged, flags, Transit, InTransit
  <2>2. UNCHANGED Replies
    <3>1. CASE Len(mbx_receive_queue) < QueueCapacity
      <4>1. Unread = <<RMbx>> /\ Unread' = <<>>
        BY <1>0, <1>2, <3>1 DEF Fetch, Handshake, Unread
      <4>2. consumed' = consumed /\ mbx_receive_queue' = Append(mbx_receive_queue, RMbx)
        BY <1>2, <3>1 DEF Fetch
      <4> QED BY <1>0, <4>1, <4>2, RepliesStay, SMTT(30) DEF Replies, Typed
    <3>2. CASE ~(Len(mbx_receive_queue) < QueueCapacity)
      BY <1>2, <3>2 DEF Fetch, ControlUnchanged, flags, Replies, Unread
    <3> QED BY <3>1, <3>2
  <2> QED BY <2>1, <2>2, ChannelSteps
<1>3. CASE Consume
  <2>1. UNCHANGED <<mbx_send_queue, Transit, Unread>>
    BY <1>3 DEF Consume, ControlUnchanged, flags, Transit, InTransit, Unread
  <2>2. Unread \in Seq(Message) BY <1>0 DEF Unread, Typed
  <2>3. UNCHANGED Replies
    BY <1>0, <1>3, <2>1, <2>2, RepliesStay DEF Consume, Replies, Typed
  <2> QED BY <2>1, <2>3, ChannelSteps
<1>4. CASE Write
  <2>1. UNCHANGED <<Transit, Replies>>
    BY <1>4 DEF Write, ControlUnchanged, flags, Transit, InTransit, Replies, Unread
  <2>2. CASE UNCHANGED mbx_send_queue BY <2>1, <2>2, ChannelSteps
  <2>3. CASE /\ issued < MaxRequests /\ Len(mbx_send_queue) < QueueCapacity
             /\ issued' = issued + 1
             /\ \E k \in Kinds :
                  mbx_send_queue' = Append(mbx_send_queue, [id |-> issued', kind |-> k])
    <3>1. PICK k \in Kinds : mbx_send_queue' = Append(mbx_send_queue, [id |-> issued', kind |-> k])
      BY <2>3
    <3>2. issued' \in 1..MaxRequests BY <1>0, <2>3, BoundsAssumption DEF Typed
    <3>3. [id |-> issued', kind |-> k] \in Request BY <3>2 DEF Request
    <3> QED BY <2>1, <2>3, <3>1, <3>3, ChannelSteps
  <2> QED BY <1>4, <2>2, <2>3 DEF Write
<1>5. CASE Load
  <2>1. CASE mbx_send_queue = <<>>
    <3>1. UNCHANGED <<mbx_send_queue, Transit, Replies>>
      BY <1>5, <2>1 DEF Load, ControlUnchanged, flags, Transit, InTransit, Replies, Unread
    <3> QED BY <3>1, ChannelSteps
  <2>2. CASE mbx_send_queue # <<>>
    <3>1. Transit = Cleared BY <1>5 DEF Load, Waiting, Transit, InTransit
    <3>2. Head(mbx_send_queue) \in Request BY <1>0, <2>2 DEF Typed
    <3>3. Transit' = IF ReadsReply(Head(mbx_send_queue)) THEN Head(mbx_send_queue) ELSE Cleared
      BY <1>5, <2>2 DEF Load, ControlUnchanged, flags, Waiting, Transit, InTransit
    <3>4. Transit' = IF Head(mbx_send_queue) \in Queries THEN Head(mbx_send_queue) ELSE Cleared
      BY <3>2, <3>3 DEF Queries
    <3>5. UNCHANGED Replies /\ mbx_send_queue' = Tail(mbx_send_queue)
      BY <1>5, <2>2 DEF Load, ControlUnchanged, flags, Replies, Unread
    <3> QED BY <2>2, <3>1, <3>4, <3>5, ChannelSteps
  <2> QED BY <2>1, <2>2
<1>6. CASE SetUnread
  <2>1. /\ Unread = <<>> /\ Unread' = <<SMbx>>
    BY <1>0, <1>6 DEF SetUnread, CyclicUnchanged, Handshake, Unread, OnePlace
  <2>2. UNCHANGED <<mbx_send_queue, mbx_receive_queue, consumed>>
    BY <1>6 DEF SetUnread, CyclicUnchanged, QueuesUnchanged
  <2>3. Transit = SMbx /\ SMbx # Cleared
    BY <1>6 DEF SetUnread, Waiting, Transit, InTransit, ReadsReply, Cleared
  <2>4. Transit' = Cleared
    BY <1>6 DEF SetUnread, CyclicUnchanged, Waiting, Transit, InTransit
  <2>5. Replies' = Append(Replies, SMbx)
    BY <1>0, <2>1, <2>2, RepliesStay DEF Replies, Typed
  <2> QED BY <2>2, <2>3, <2>4, <2>5, ChannelSteps
<1>7. CASE CyclicStep /\ ~SetUnread
  <2>1. /\ UNCHANGED <<control, SMbx, mbx_send_queue, mbx_receive_queue, consumed,
                       receive_mbx_has_unread>>
        /\ receive_mbx_has_unread => RMbx' = RMbx
    BY <1>0, <1>7 DEF CyclicStep, TestSend, LoadSend, MbxSend, MbxSendFails, ClearRequest,
       TestReceive, TestUnread, MbxReceive, MbxReceiveFails, CopyReceived, DisableReceive,
       PopMailboxError, CountErrors, CyclicUnchanged, QueuesUnchanged, flags, Handshake
  <2>2. (receive_mbx /\ cyclic # "disable")' <=> receive_mbx /\ cyclic # "disable"
    BY <1>7 DEF CyclicStep, TestSend, LoadSend, MbxSend, MbxSendFails, ClearRequest,
       TestReceive, TestUnread, MbxReceive, MbxReceiveFails, CopyReceived, DisableReceive,
       PopMailboxError, CountErrors, flags
  <2>3. UNCHANGED <<Transit, Replies>> BY <2>1, <2>2 DEF Transit, InTransit, Replies, Unread
  <2> QED BY <2>1, <2>3, ChannelSteps
<1>8. CASE DeviceAnswer \/ UNCHANGED vars
  <2>1. UNCHANGED <<mbx_send_queue, Transit, Replies>>
    BY <1>8 DEF DeviceAnswer, vars, flags, Transit, InTransit, Replies, Unread
  <2> QED BY <2>1, ChannelSteps
<1> QED
  BY <1>1, <1>2, <1>3, <1>4, <1>5, <1>6, <1>7, <1>8 DEF Next, ControlStep

-----------------------------------------------------------------------------
\* The mailbox of a slave that sends only the mail it is asked for is a queue
\* of calls: a module reads the reply to the query it sent and to no other.
THEOREM Refinement == Patient => (Spec => ImplementsChannel)
<1> SUFFICES ASSUME Patient PROVE Spec => ImplementsChannel
  OBVIOUS
<1>1. Init => Channel!Init
  <2>1. <<>> \o <<>> \o <<>> = <<>> OBVIOUS
  <2> QED BY <2>1 DEF Init, Channel!Init
<1>2. Init => Waiting /\ OnePlace BY InitWaiting, InitOnePlace
<1>3. IInv /\ Waiting /\ OnePlace /\ [Next]_vars => (Waiting /\ OnePlace)'
  BY StepWaiting, StepOnePlace DEF IInv, OnePlace
<1>4. IInv /\ Waiting /\ OnePlace /\ [Next]_vars => [Channel!Next]_(Channel!vars)
  BY StepSimulation
<1> QED
  BY <1>1, <1>2, <1>3, <1>4, Invariant, PTL DEF Spec, ImplementsChannel, Channel!Spec
=============================================================================
