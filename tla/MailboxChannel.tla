--------------------------- MODULE MailboxChannel ---------------------------
(***************************************************************************)
(* What a slave module may expect of its mailbox: requests leave in the    *)
(* order they were enqueued, one query is in transit at a time, and every  *)
(* reply handed to the module answers the query in transit.                *)
(***************************************************************************)
EXTENDS Naturals, Sequences

CONSTANTS Request,       \* the requests a module can enqueue
          Query,         \* the requests whose reply is to be read
          Nothing,       \* no request
          QueueCapacity

VARIABLES pending,       \* requests enqueued and not yet taken
          transit,       \* query on its way or being answered
          replies        \* requests answered so far, in order

vars == <<pending, transit, replies>>

Init == pending = <<>> /\ transit = Nothing /\ replies = <<>>

Enqueue(r) == /\ Len(pending) < QueueCapacity
              /\ pending' = Append(pending, r)
              /\ UNCHANGED <<transit, replies>>

\* A request may leave only when no query is in transit.
Take == /\ pending # <<>> /\ transit = Nothing
        /\ pending' = Tail(pending)
        /\ transit' = IF Head(pending) \in Query THEN Head(pending) ELSE Nothing
        /\ UNCHANGED replies

Reply == /\ transit # Nothing
         /\ replies' = Append(replies, transit)
         /\ transit' = Nothing
         /\ UNCHANGED pending

Next == Take \/ Reply \/ \E r \in Request : Enqueue(r)

Spec == Init /\ [][Next]_vars
=============================================================================
