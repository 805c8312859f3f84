----------------------------- MODULE StorageQueue -----------------------------
(***************************************************************************)
(* The Azure Storage queue as the backend uses it through                  *)
(* CloudVerificationQueue: at-least-once delivery with a visibility        *)
(* timeout and rotating pop receipts.                                      *)
(*                                                                         *)
(* A queue is a function from a finite set of slots to deliveries.  A      *)
(* delivery carries only the job it names.  Receiving it hides it and      *)
(* hands the current pop receipt to the receiver; the receipt stays good   *)
(* after the visibility timeout until somebody else receives the delivery, *)
(* so "the current receipt" is the field `holder`.  A receipt the service  *)
(* has replaced no longer renews or deletes anything.                      *)
(***************************************************************************)
CONSTANTS Slots,     \* places for deliveries: the bound on queued messages
          Messages,  \* SMS messages; a job is named by the message it verifies
          Workers,   \* queue consumers
          None       \* neither a message nor a worker

ASSUME QueueAssumption == None \notin Messages \cup Workers

Delivery == [msg : Messages \cup {None}, visible : BOOLEAN,
             holder : Workers \cup {None}]

FreeSlot == [msg |-> None, visible |-> FALSE, holder |-> None]

\* The slots that hold a delivery.
Queued(q) == {s \in Slots : q[s].msg # None}

Sent(q, s, m) ==
    [q EXCEPT ![s] = [msg |-> m, visible |-> TRUE, holder |-> None]]

Received(q, s, w) == [q EXCEPT ![s].visible = FALSE, ![s].holder = w]

\* w still has the current pop receipt of the delivery in s.
HasReceipt(q, s, w) == q[s].holder = w

Hidden(q, s) == [q EXCEPT ![s].visible = FALSE]

Deleted(q, s) == [q EXCEPT ![s] = FreeSlot]

===============================================================================
