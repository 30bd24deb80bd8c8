------------------------------- MODULE Mailbox -------------------------------
(***************************************************************************)
(* The mailbox of one slave: the queues of SOEMDriverSlave, the flags and  *)
(* buffers of SOEMEcSlaveDataAccess, the control loop's share of them in   *)
(* SOEMDriver::read and ::write, and the mailbox part of cyclic_task.      *)
(* Neither thread ever waits for the other; a step is one access to a      *)
(* flag or buffer both can reach.                                          *)
(*                                                                         *)
(* The slave and SOEM's ecx_mbxsend and ecx_mbxreceive are the environment *)
(* as cyclic_task uses it.  A positive result is a success, and what failed *)
(* is repeated in the next cycle, also when the slave took the request and  *)
(* only its answer was lost; requests carry nothing to tell a repetition by *)
(* (tmcm1610.cpp:114).  Mail of a type SOEM does not know is listed as an   *)
(* error and yields 0: a raw read is after such mail and takes 0 for a      *)
(* success.  0 is also what a receive yields when the slave does not answer *)
(* at all (a dropout); waiting in vain yields less than 0.                  *)
(***************************************************************************)
EXTENDS Naturals, Sequences

CONSTANTS Kinds,           \* of requests issued: "query", "raw", "command"
          Answered,        \* the kinds the slave answers
          MaxRequests,     \* bound on the requests issued
          QueueCapacity,   \* of mbx_send_queue and mbx_receive_queue
          MaxLost,         \* bound on the sends whose answer is lost
          Dropouts,        \* the slave may fail to answer a receive
          OtherErrors      \* SOEM may report errors of other origin

ASSUME KindsAssumption == /\ Kinds \subseteq {"query", "raw", "command"}
                          /\ Answered \subseteq {"query", "raw", "command"}
ASSUME BoundsAssumption == /\ MaxRequests \in Nat /\ QueueCapacity \in Nat \ {0}
                           /\ MaxLost \in Nat
ASSUME FaultsAssumption == Dropouts \in BOOLEAN /\ OtherErrors \in BOOLEAN

VARIABLES
  control, cyclic,               \* program counters of the two threads
  issued,                        \* requests issued so far
  mbx_send_queue, mbx_receive_queue,
  SMbx, RMbx,                    \* the slave's buffers
  EC_SMbx, EC_RMbx,              \* the master's buffers
  send_mbx_request, receive_mbx, receive_mbx_raw, receive_mbx_has_unread,
  mbx_raw,                       \* local of cyclic_task
  errorList,                     \* SOEM's error list
  inbox, outbox,                 \* external: the slave's two mailboxes
  arrived,                       \* external: last request the slave was sent
  confirmed,                     \* last request whose send succeeded
  lost,                          \* external: sends whose answer was lost
  consumed                       \* messages the slave module consumed

flags == <<send_mbx_request, receive_mbx, receive_mbx_raw,
           receive_mbx_has_unread>>
device == <<inbox, outbox, arrived, confirmed, lost>>
vars == <<control, cyclic, issued, mbx_send_queue, mbx_receive_queue, SMbx,
          RMbx, EC_SMbx, EC_RMbx, flags, mbx_raw, errorList, device, consumed>>

Request == [id : 1..MaxRequests, kind : Kinds]
Cleared == [id |-> 0, kind |-> "none"]       \* a zeroed buffer: no message
Message == Request \cup {Cleared}

ReadsReply(r) == r.kind \in {"query", "raw"}
UnknownType(m) == m.kind = "raw"

Control == {"read", "fetch", "unread", "consume", "write", "gate_send",
            "gate_receive", "load", "store_raw", "store_receive", "store_send"}
Cyclic == {"send", "load", "mbxsend", "sent", "receive", "unread",
           "mbxreceive", "copy", "set_unread", "disable", "pop_error", "count"}

Init ==
  /\ control = "read" /\ cyclic = "send" /\ issued = 0
  /\ mbx_send_queue = <<>> /\ mbx_receive_queue = <<>>
  /\ SMbx = Cleared /\ RMbx = Cleared
  /\ EC_SMbx = Cleared /\ EC_RMbx = Cleared
  /\ send_mbx_request = FALSE /\ receive_mbx = FALSE
  /\ receive_mbx_raw = FALSE /\ receive_mbx_has_unread = FALSE
  /\ mbx_raw = FALSE /\ errorList = <<>>
  /\ inbox = Cleared /\ outbox = <<>> /\ arrived = 0 /\ confirmed = 0 /\ lost = 0
  /\ consumed = <<>>

-----------------------------------------------------------------------------
(* The control loop: read() and write() of the driver for this slave *)

ControlUnchanged == UNCHANGED <<cyclic, EC_SMbx, EC_RMbx, RMbx, mbx_raw,
                                errorList, device>>
QueuesUnchanged == UNCHANGED <<issued, mbx_send_queue, mbx_receive_queue, consumed>>

\* read(): is there an unread message?
Read ==
  /\ control = "read"
  /\ control' = IF receive_mbx_has_unread THEN "fetch" ELSE "consume"
  /\ ControlUnchanged /\ QueuesUnchanged /\ UNCHANGED <<SMbx, flags>>

\* Variant: a full queue is not respected.
FetchAlways ==
  /\ control = "fetch" /\ control' = "unread"
  /\ mbx_receive_queue' = Append(mbx_receive_queue, RMbx)
  /\ ControlUnchanged
  /\ UNCHANGED <<issued, mbx_send_queue, consumed, SMbx, flags>>

\* Push it to the module's queue; a full queue leaves it unread.
Fetch ==
  /\ control = "fetch"
  /\ IF Len(mbx_receive_queue) < QueueCapacity
     THEN /\ mbx_receive_queue' = Append(mbx_receive_queue, RMbx)
          /\ control' = "unread"
     ELSE UNCHANGED mbx_receive_queue /\ control' = "consume"
  /\ ControlUnchanged
  /\ UNCHANGED <<issued, mbx_send_queue, consumed, SMbx, flags>>

ClearUnread ==
  /\ control = "unread" /\ control' = "consume"
  /\ receive_mbx_has_unread' = FALSE
  /\ ControlUnchanged /\ QueuesUnchanged
  /\ UNCHANGED <<SMbx, send_mbx_request, receive_mbx, receive_mbx_raw>>

\* The module's read() consumes its queue, or leaves it for later.
Consume ==
  /\ control = "consume" /\ control' = "write"
  /\ consumed' = consumed \o mbx_receive_queue
  /\ mbx_receive_queue' = <<>>
  /\ ControlUnchanged /\ UNCHANGED <<issued, mbx_send_queue, SMbx, flags>>
Postpone ==
  /\ control = "consume" /\ control' = "write"
  /\ ControlUnchanged /\ QueuesUnchanged /\ UNCHANGED <<SMbx, flags>>

\* write(): the module may enqueue a request; a full queue refuses it.
Write ==
  /\ control = "write" /\ control' = "gate_send"
  /\ \/ UNCHANGED <<issued, mbx_send_queue>>
     \/ /\ issued < MaxRequests /\ Len(mbx_send_queue) < QueueCapacity
        /\ issued' = issued + 1
        /\ \E k \in Kinds :
             mbx_send_queue' = Append(mbx_send_queue, [id |-> issued', kind |-> k])
  /\ ControlUnchanged /\ UNCHANGED <<mbx_receive_queue, consumed, SMbx, flags>>

\* Variant: a request waiting to be sent does not hold the next one back.
GateSendAny ==
  /\ control = "gate_send" /\ control' = "gate_receive"
  /\ ControlUnchanged /\ QueuesUnchanged /\ UNCHANGED <<SMbx, flags>>

GateSend ==
  /\ control = "gate_send"
  /\ control' = IF send_mbx_request THEN "read" ELSE "gate_receive"
  /\ ControlUnchanged /\ QueuesUnchanged /\ UNCHANGED <<SMbx, flags>>

\* Variant: a query without its reply does not hold the next request back.
GateReceiveAny ==
  /\ control = "gate_receive" /\ control' = "load"
  /\ ControlUnchanged /\ QueuesUnchanged /\ UNCHANGED <<SMbx, flags>>

GateReceive ==
  /\ control = "gate_receive"
  /\ control' = IF receive_mbx THEN "read" ELSE "load"
  /\ ControlUnchanged /\ QueuesUnchanged /\ UNCHANGED <<SMbx, flags>>

\* consume_one: copy the request to SMbx, then store the three flags.
Load ==
  /\ control = "load"
  /\ IF mbx_send_queue = <<>>
     THEN control' = "read" /\ UNCHANGED <<SMbx, mbx_send_queue>>
     ELSE /\ control' = "store_raw"
          /\ SMbx' = Head(mbx_send_queue)
          /\ mbx_send_queue' = Tail(mbx_send_queue)
  /\ ControlUnchanged
  /\ UNCHANGED <<issued, mbx_receive_queue, consumed, flags>>

StoreRaw ==
  /\ control = "store_raw" /\ control' = "store_receive"
  /\ receive_mbx_raw' = (SMbx.kind = "raw")
  /\ ControlUnchanged /\ QueuesUnchanged
  /\ UNCHANGED <<SMbx, send_mbx_request, receive_mbx, receive_mbx_has_unread>>

\* Variant: the reply is not asked for.
StoreNoReceive ==
  /\ control = "store_receive" /\ control' = "store_send"
  /\ ControlUnchanged /\ QueuesUnchanged /\ UNCHANGED <<SMbx, flags>>

StoreReceive ==
  /\ control = "store_receive" /\ control' = "store_send"
  /\ receive_mbx' = ReadsReply(SMbx)
  /\ ControlUnchanged /\ QueuesUnchanged
  /\ UNCHANGED <<SMbx, send_mbx_request, receive_mbx_raw, receive_mbx_has_unread>>

StoreSend ==
  /\ control = "store_send" /\ control' = "read"
  /\ send_mbx_request' = TRUE
  /\ ControlUnchanged /\ QueuesUnchanged
  /\ UNCHANGED <<SMbx, receive_mbx, receive_mbx_raw, receive_mbx_has_unread>>

ControlStep == \/ Read \/ Write \/ Postpone
               \/ Fetch \/ ClearUnread \/ Consume \/ GateSend \/ GateReceive
               \/ Load \/ StoreRaw \/ StoreReceive \/ StoreSend

-----------------------------------------------------------------------------
(* The cyclic task: one pass over the slave's mailboxes per cycle *)

CyclicUnchanged == UNCHANGED <<control, SMbx>> /\ QueuesUnchanged

\* Other errors SOEM may have listed: its list is one for all slaves.
Listed(errors) == {errors} \cup IF OtherErrors /\ Len(errors) < 2
                                THEN {Append(errors, "other")} ELSE {}

\* It is this slave's turn; those before it may have raised errors.
TestSend ==
  /\ cyclic = "send" /\ cyclic' = IF send_mbx_request THEN "load" ELSE "receive"
  /\ errorList' \in Listed(errorList)
  /\ CyclicUnchanged
  /\ UNCHANGED <<RMbx, EC_SMbx, EC_RMbx, flags, mbx_raw, device>>

LoadSend ==
  /\ cyclic = "load" /\ cyclic' = "mbxsend"
  /\ EC_SMbx' = SMbx
  /\ CyclicUnchanged
  /\ UNCHANGED <<RMbx, EC_RMbx, flags, mbx_raw, errorList, device>>

\* The request reaches the slave only if it emptied its mailbox.
Deliver == inbox = Cleared /\ inbox' = EC_SMbx /\ arrived' = EC_SMbx.id

\* ecx_mbxsend succeeds.
MbxSend ==
  /\ cyclic = "mbxsend" /\ cyclic' = "sent"
  /\ Deliver /\ confirmed' = EC_SMbx.id
  /\ CyclicUnchanged
  /\ UNCHANGED <<RMbx, EC_SMbx, EC_RMbx, flags, mbx_raw, errorList, outbox, lost>>

\* It does not: the slave did not take the request, or its answer was lost.
MbxSendFails ==
  /\ cyclic = "mbxsend" /\ cyclic' = "receive"
  /\ \/ UNCHANGED device
     \/ /\ lost < MaxLost /\ lost' = lost + 1
        /\ Deliver /\ UNCHANGED <<outbox, confirmed>>
  /\ errorList' \in Listed(errorList)
  /\ CyclicUnchanged /\ UNCHANGED <<RMbx, EC_SMbx, EC_RMbx, flags, mbx_raw>>

\* Variant: a request that was sent stays requested.
KeepRequest ==
  /\ cyclic = "sent" /\ cyclic' = "receive"
  /\ CyclicUnchanged
  /\ UNCHANGED <<RMbx, EC_SMbx, EC_RMbx, flags, mbx_raw, errorList, device>>

ClearRequest ==
  /\ cyclic = "sent" /\ cyclic' = "receive"
  /\ send_mbx_request' = FALSE
  /\ CyclicUnchanged
  /\ UNCHANGED <<RMbx, EC_SMbx, EC_RMbx, receive_mbx, receive_mbx_raw,
                 receive_mbx_has_unread, mbx_raw, errorList, device>>

TestReceive ==
  /\ cyclic = "receive" /\ cyclic' = IF receive_mbx THEN "unread" ELSE "count"
  /\ CyclicUnchanged
  /\ UNCHANGED <<RMbx, EC_SMbx, EC_RMbx, flags, mbx_raw, errorList, device>>

\* Variant: mail is received although the last one is still unread.
ReceiveAnyway ==
  /\ cyclic = "unread" /\ cyclic' = "mbxreceive" /\ EC_RMbx' = Cleared
  /\ CyclicUnchanged /\ UNCHANGED <<RMbx, EC_SMbx, flags, mbx_raw, errorList, device>>

TestUnread ==
  /\ cyclic = "unread"
  /\ IF receive_mbx_has_unread
     THEN cyclic' = "count" /\ UNCHANGED EC_RMbx
     ELSE cyclic' = "mbxreceive" /\ EC_RMbx' = Cleared
  /\ CyclicUnchanged /\ UNCHANGED <<RMbx, EC_SMbx, flags, mbx_raw, errorList, device>>

\* ecx_mbxreceive.  mbx_raw is loaded first; nobody changes it meanwhile.
MbxReceive ==
  /\ cyclic = "mbxreceive" /\ outbox # <<>>
  /\ mbx_raw' = receive_mbx_raw
  /\ EC_RMbx' = Head(outbox) /\ outbox' = Tail(outbox)
  /\ IF UnknownType(Head(outbox))
     THEN /\ errorList' = Append(errorList, "mailbox")
          /\ cyclic' = IF mbx_raw' THEN "copy" ELSE "count"
     ELSE cyclic' = "copy" /\ UNCHANGED errorList
  /\ CyclicUnchanged /\ UNCHANGED <<RMbx, EC_SMbx, flags, inbox, arrived, confirmed, lost>>

\* No mail in time; a raw read takes a dropout for mail.
MbxReceiveFails ==
  /\ cyclic = "mbxreceive"
  /\ mbx_raw' = receive_mbx_raw
  /\ cyclic' \in {"count"} \cup IF Dropouts /\ mbx_raw' THEN {"copy"} ELSE {}
  /\ errorList' \in Listed(errorList)
  /\ CyclicUnchanged /\ UNCHANGED <<RMbx, EC_SMbx, EC_RMbx, flags, device>>

CopyReceived ==
  /\ cyclic = "copy" /\ cyclic' = "set_unread"
  /\ RMbx' = EC_RMbx
  /\ CyclicUnchanged
  /\ UNCHANGED <<EC_SMbx, EC_RMbx, flags, mbx_raw, errorList, device>>

SetUnread ==
  /\ cyclic = "set_unread" /\ cyclic' = "disable"
  /\ receive_mbx_has_unread' = TRUE
  /\ CyclicUnchanged
  /\ UNCHANGED <<RMbx, EC_SMbx, EC_RMbx, send_mbx_request, receive_mbx,
                 receive_mbx_raw, mbx_raw, errorList, device>>

\* "only one req/rep in transit"
DisableReceive ==
  /\ cyclic = "disable" /\ cyclic' = "pop_error"
  /\ receive_mbx' = FALSE
  /\ CyclicUnchanged
  /\ UNCHANGED <<RMbx, EC_SMbx, EC_RMbx, send_mbx_request, receive_mbx_raw,
                 receive_mbx_has_unread, mbx_raw, errorList, device>>

\* Variant: the error a raw read raises stays listed.
KeepMailboxError ==
  /\ cyclic = "pop_error" /\ cyclic' = "count"
  /\ CyclicUnchanged
  /\ UNCHANGED <<RMbx, EC_SMbx, EC_RMbx, flags, mbx_raw, errorList, device>>

\* After a raw read the oldest error is popped, and put back unless it is
\* a mailbox error of this slave.
PopMailboxError ==
  /\ cyclic = "pop_error" /\ cyclic' = "count"
  /\ errorList' = IF ~mbx_raw \/ errorList = <<>> THEN errorList
                  ELSE IF Head(errorList) = "mailbox" THEN Tail(errorList)
                  ELSE Append(Tail(errorList), Head(errorList))
  /\ CyclicUnchanged
  /\ UNCHANGED <<RMbx, EC_SMbx, EC_RMbx, flags, mbx_raw, device>>

\* The end of the cycle counts the errors left and clears the list.
CountErrors ==
  /\ cyclic = "count" /\ cyclic' = "send"
  /\ errorList' = <<>>
  /\ CyclicUnchanged
  /\ UNCHANGED <<RMbx, EC_SMbx, EC_RMbx, flags, mbx_raw, device>>

CyclicStep == \/ TestSend \/ LoadSend \/ MbxSend \/ MbxSendFails \/ ClearRequest
              \/ TestReceive \/ TestUnread \/ MbxReceive \/ MbxReceiveFails
              \/ CopyReceived \/ SetUnread \/ DisableReceive \/ PopMailboxError \/ CountErrors

-----------------------------------------------------------------------------
\* External: the slave takes a request, a repeated one as well, and may have a
\* reply to it.
DeviceAnswer ==
  /\ inbox # Cleared /\ inbox' = Cleared
  /\ outbox' = IF inbox.kind \in Answered THEN Append(outbox, inbox) ELSE outbox
  /\ UNCHANGED <<control, cyclic, issued, mbx_send_queue, mbx_receive_queue,
                 SMbx, RMbx, EC_SMbx, EC_RMbx, flags, mbx_raw, errorList,
                 arrived, confirmed, lost, consumed>>

Next == ControlStep \/ CyclicStep \/ DeviceAnswer

Spec == Init /\ [][Next]_vars

\* Both loops keep running and the slave keeps answering; an exchange with
\* the slave that is tried again and again succeeds, a module that keeps
\* being called consumes its messages.
Fairness == /\ WF_vars(ControlStep) /\ SF_vars(Consume)
            /\ WF_vars(CyclicStep) /\ SF_vars(MbxSend) /\ SF_vars(MbxReceive)
            /\ WF_vars(DeviceAnswer)
FairSpec == Spec /\ Fairness

-----------------------------------------------------------------------------
(* Properties *)

\* Type invariant: queues stay within their capacity, buffers hold messages.
TypeOK ==
  /\ control \in Control /\ cyclic \in Cyclic /\ issued \in 0..MaxRequests
  /\ mbx_send_queue \in Seq(Request) /\ Len(mbx_send_queue) <= QueueCapacity
  /\ mbx_receive_queue \in Seq(Message)
  /\ Len(mbx_receive_queue) <= QueueCapacity
  /\ {SMbx, RMbx, EC_SMbx, EC_RMbx, inbox} \subseteq Message
  /\ {send_mbx_request, receive_mbx, receive_mbx_raw, receive_mbx_has_unread,
      mbx_raw} \subseteq BOOLEAN
  /\ errorList \in Seq({"mailbox", "other"}) /\ outbox \in Seq(Request)
  /\ {arrived, confirmed} \subseteq 0..MaxRequests /\ lost \in 0..MaxLost
  /\ consumed \in Seq(Message)

\* The slave's buffers have no lock: SMbx is never loaded while cyclic_task
\* may be sending it, RMbx never written while read() may be copying it.
BuffersExclusive ==
  /\ control = "load" => cyclic \notin {"load", "mbxsend", "sent"}
  /\ control = "fetch" => cyclic # "copy"

\* A message that was received is not overwritten before read() has it.
UnreadKept == [][receive_mbx_has_unread => RMbx' = RMbx]_vars

\* The slave gets the requests in the order of mbx_enqueue_send, none left out,
\* and one again only while no send of it succeeded.
SentInOrder == [][inbox = Cleared /\ inbox' # Cleared
                    => inbox'.id \in {arrived, arrived + 1} /\ inbox'.id > confirmed]_vars

\* "reset error raised by reading raw mailboxes", "pop last error"
\* (soem_master.cpp:456, :459): after a raw read of this slave none of its
\* errors is left to be counted.
RawReadIsNoError ==
  cyclic = "count" /\ mbx_raw => \A i \in DOMAIN errorList : errorList[i] # "mailbox"

\* "indicates unread mailbox message in buffer" (soem_master.hpp:79).
UnreadIsMessage == receive_mbx_has_unread => RMbx # Cleared

Queries == {r \in Request : ReadsReply(r)}

\* A query is in transit from the moment write() takes it off the queue until
\* cyclic_task stops asking for its reply.
Channel == INSTANCE MailboxChannel WITH
  Query   <- Queries,
  Nothing <- Cleared,
  pending <- mbx_send_queue,
  transit <- IF \/ control \in {"store_raw", "store_receive"} /\ ReadsReply(SMbx)
                \/ receive_mbx /\ cyclic # "disable"
             THEN SMbx ELSE Cleared,
  replies <- consumed \o mbx_receive_queue \o
               (IF receive_mbx_has_unread /\ control # "unread"
                THEN <<RMbx>> ELSE <<>>)

\* The mailbox is a queue of calls: requests leave in order, one query is in
\* transit at a time, and a module reads the reply to the query it sent.
ImplementsChannel == Channel!Spec

\* Every query is answered in the end: SMbx is not blocked forever.
EveryQueryAnswered ==
  \A n \in 1..MaxRequests :
    (\E i \in DOMAIN mbx_send_queue :
       mbx_send_queue[i].id = n /\ ReadsReply(mbx_send_queue[i]))
      ~> (\E i \in DOMAIN consumed : consumed[i].id = n)
=============================================================================
