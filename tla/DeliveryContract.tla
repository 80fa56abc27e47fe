-------------------------- MODULE DeliveryContract --------------------------
(***************************************************************************)
(* What the pipeline's work queue promises the upload handler and the      *)
(* workers, whatever happens inside it: at-least-once delivery with a dead *)
(* letter queue.  RetryQueue is shown to implement this module.            *)
(***************************************************************************)
CONSTANT Msgs

VARIABLES
  accepted,   \* messages published
  queued,     \* messages the queue will still deliver, or is delivering
  dead,       \* messages in the dead letter queue
  processed   \* messages some consumer has finished processing

vars == <<accepted, queued, dead, processed>>

Init ==
  /\ accepted = {}
  /\ queued = {}
  /\ dead = {}
  /\ processed = {}

\* A producer publishes m.
Accept(m) ==
  /\ m \notin accepted
  /\ accepted' = accepted \cup {m}
  /\ queued' = queued \cup {m}
  /\ UNCHANGED <<dead, processed>>

\* A consumer finishes m.  It may do so again, or late: deliveries repeat.
Process(m) ==
  /\ m \in accepted
  /\ processed' = processed \cup {m}
  /\ UNCHANGED <<accepted, queued, dead>>

\* The queue is done with m: only when m is processed or dead-lettered.
Forget(m) ==
  /\ m \in processed \cup dead
  /\ queued' = queued \ {m}
  /\ UNCHANGED <<accepted, dead, processed>>

\* m is given up: it enters the dead letter queue, and leaves the queue
\* unless another delivery of it is still under way.
GiveUp(m) ==
  /\ m \in queued
  /\ dead' = dead \cup {m}
  /\ queued' \in {queued, queued \ {m}}
  /\ UNCHANGED <<accepted, processed>>

\* A late retry brings back a message the queue was already done with.
Revive(m) ==
  /\ m \in processed \cup dead
  /\ queued' = queued \cup {m}
  /\ UNCHANGED <<accepted, dead, processed>>

Next ==
  \E m \in Msgs :
    Accept(m) \/ Process(m) \/ Forget(m) \/ GiveUp(m) \/ Revive(m)

Spec == Init /\ [][Next]_vars

=============================================================================
