------------------------------ MODULE Delivery ------------------------------
(***************************************************************************)
(* What the ingest path promises a device, with no request, transaction or *)
(* fault in sight: a batch leaves the queue once its events are in the     *)
(* events table (at least one copy) or once the API has refused it for     *)
(* good, and a refused batch is never stored.  ARCHITECTURE.md:130-142.    *)
(***************************************************************************)
CONSTANTS
  Batches,    \* the batch files of the devices
  Copies,     \* identities of stored copies of a batch
  Storable,   \* batches with rows to store
  Empty,      \* batches the API accepts although no event of theirs is storable
  Refusable   \* batches the API refuses for good

VARIABLES
  place,      \* where a batch is: in the queue, deleted after a 200, dropped
  copies      \* the copies of a batch in the table

vars == <<place, copies>>

Init ==
  /\ place = [b \in Batches |-> "queued"]
  /\ copies = [b \in Batches |-> {}]

(* A copy may also appear after the batch has left the queue: the attempt  *)
(* a device gave up on can still commit.                                   *)
Store(b) ==
  /\ b \in Storable
  /\ \E c \in Copies \ UNION {copies[a] : a \in Batches} :
       copies' = [copies EXCEPT ![b] = @ \cup {c}]
  /\ UNCHANGED place

Delete(b) ==
  /\ place[b] = "queued"
  /\ b \in Empty \/ copies[b] # {}
  /\ place' = [place EXCEPT ![b] = "deleted"]
  /\ UNCHANGED copies

Drop(b) ==
  /\ place[b] = "queued" /\ b \in Refusable
  /\ place' = [place EXCEPT ![b] = "dropped"]
  /\ UNCHANGED copies

Next == \E b \in Batches : Store(b) \/ Delete(b) \/ Drop(b)

SafeSpec == Init /\ [][Next]_vars

Settles(b) == Delete(b) \/ Drop(b)

Spec ==
  /\ SafeSpec
  /\ \A b \in Batches : WF_vars(copies[b] = {} /\ Store(b)) /\ WF_vars(Settles(b))
=============================================================================
