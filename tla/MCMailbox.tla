------------------------------ MODULE MCMailbox ------------------------------
(* Queues of two and three requests let both queues fill up and wrap. *)
EXTENDS Mailbox
=============================================================================
