----------------------------- MODULE RetryQueue -----------------------------
(***************************************************************************)
(* One RabbitMQ work queue of the pipeline and the process that consumes   *)
(* it: src/queue/rabbitmq.py, RabbitMQQueue.publish and .consume.          *)
(*                                                                         *)
(* The queue holds COPIES of messages: a retry is a new copy of the same   *)
(* body whose x-retry-count header is one higher.  Every copy delivered    *)
(* starts a handler (the coroutine on_message); no prefetch limit is set,  *)
(* so the handlers of all delivered copies interleave.  The connection has *)
(* an epoch: when it is lost the broker puts the unacknowledged copies     *)
(* back in the queue and delivers them again in the next epoch, while the  *)
(* handlers of the old epoch keep running inside the process with          *)
(* deliveries they can no longer acknowledge.                              *)
(***************************************************************************)
EXTENDS Naturals, FiniteSets

CONSTANTS
  Msgs,        \* message bodies producers publish (each at most once)
  NoMsg,       \* the body of a copy not in use
  Copies,      \* identities for the copies the broker stores
  MaxRetries,  \* max_retries of consume (3 in the code)
  MaxFaults    \* bound: connection losses, crashes and failed publishes

ASSUME NoMsgAssumption   == NoMsg \notin Msgs
ASSUME RetriesAssumption == MaxRetries \in Nat
ASSUME FaultsAssumption  == MaxFaults \in Nat

VARIABLES
  broker,     \* broker[c]: where copy c is
  body,       \* body[c]: the message c is a copy of
  retry,      \* retry[c]: the x-retry-count header of c
  handler,    \* handler[c][e]: the stage of on_message for c's delivery in epoch e
  epoch,      \* number of the current connection
  faults,     \* faults injected so far
  accepted,   \* messages a producer has published
  processed,  \* messages for which some callback returned normally
  failures    \* failures[m]: how often an attempt on m entered the except branch

vars == <<broker, body, retry, handler, epoch, faults,
          accepted, processed, failures>>

Epochs == 0..MaxFaults

\* "running": inside callback; "succeeded": callback returned, ack is next;
\* "backoff": sleeping before the retry; "republished": the retry copy is
\* stored, the ack of the original is next; "ended": on_message is over.
Stages == {"idle", "running", "succeeded", "backoff", "republished", "ended"}

Places == {"unused", "ready", "unacked", "acked", "dead"}

\* The broker still answers for copy c: in the queue, delivered and not
\* acknowledged, or in the dead letter queue.
Held(c) == broker[c] \in {"ready", "unacked", "dead"}

TypeOK ==
  /\ broker \in [Copies -> Places]
  /\ body \in [Copies -> Msgs \cup {NoMsg}]
  /\ retry \in [Copies -> 0..MaxRetries]
  /\ handler \in [Copies -> [Epochs -> Stages]]
  /\ epoch \in Epochs
  /\ faults \in Epochs
  /\ epoch <= faults
  /\ accepted \in SUBSET Msgs
  /\ processed \in SUBSET Msgs
  /\ failures \in [Msgs -> Nat]

Init ==
  /\ broker = [c \in Copies |-> "unused"]
  /\ body = [c \in Copies |-> NoMsg]
  /\ retry = [c \in Copies |-> 0]
  /\ handler = [c \in Copies |-> [e \in Epochs |-> "idle"]]
  /\ epoch = 0
  /\ faults = 0
  /\ accepted = {}
  /\ processed = {}
  /\ failures = [m \in Msgs |-> 0]

-----------------------------------------------------------------------------
(* Helpers                                                                 *)

\* Handler of c's delivery in epoch e moves from one stage to another.
Moves(c, e, from, to) ==
  /\ handler[c][e] = from
  /\ handler' = [handler EXCEPT ![c][e] = to]

\* The broker stores a new copy of m with retry count r.
Store(n, m, r) ==
  /\ broker[n] = "unused"
  /\ broker' = [broker EXCEPT ![n] = "ready"]
  /\ body' = [body EXCEPT ![n] = m]
  /\ retry' = [retry EXCEPT ![n] = r]

\* ack or reject of a delivery reaches the broker only over the connection
\* the delivery came from; on an older one it raises and settles nothing.
Settle(c, e, place) ==
  broker' = IF e = epoch THEN [broker EXCEPT ![c] = place] ELSE broker

-----------------------------------------------------------------------------
(* Producers and delivery                                                  *)

\* publish() called by the upload handler or by another worker.
Publish(m, n) ==
  /\ m \notin accepted
  /\ Store(n, m, 0)
  /\ accepted' = accepted \cup {m}
  /\ UNCHANGED <<handler, epoch, faults, processed, failures>>

\* The broker delivers a ready copy and the client starts on_message.
Deliver(c) ==
  /\ broker[c] = "ready"
  /\ broker' = [broker EXCEPT ![c] = "unacked"]
  /\ Moves(c, epoch, "idle", "running")
  /\ UNCHANGED <<body, retry, epoch, faults, accepted, processed, failures>>

-----------------------------------------------------------------------------
(* on_message                                                              *)

\* await callback(message.body) returns.
CallbackReturns(c, e) ==
  /\ Moves(c, e, "running", "succeeded")
  /\ processed' = processed \cup {body[c]}
  /\ UNCHANGED <<broker, body, retry, epoch, faults, accepted, failures>>

\* Mutant: the retry limit is off by one, so the last retry is not made.
RetryBranchTooEarly(c, e, from) ==
  /\ \/ /\ retry[c] + 1 < MaxRetries
        /\ Moves(c, e, from, "backoff")
        /\ UNCHANGED broker
     \/ /\ retry[c] + 1 >= MaxRetries
        /\ Moves(c, e, from, "ended")
        /\ Settle(c, e, "dead")
  /\ failures' = [failures EXCEPT ![body[c]] = @ + 1]
  /\ UNCHANGED <<body, retry, epoch, faults, accepted, processed>>

\* Mutant: besides republishing, the failed delivery is requeued.
RetryBranchRequeues(c, e, from) ==
  /\ \/ /\ retry[c] < MaxRetries
        /\ Moves(c, e, from, "backoff")
        /\ Settle(c, e, "ready")
     \/ /\ retry[c] >= MaxRetries
        /\ Moves(c, e, from, "ended")
        /\ Settle(c, e, "dead")
  /\ failures' = [failures EXCEPT ![body[c]] = @ + 1]
  /\ UNCHANGED <<body, retry, epoch, faults, accepted, processed>>

\* The except branch: back off if retries are left, otherwise reject the
\* delivery without requeueing, which dead-letters it.
RetryBranch(c, e, from) ==
  /\ \/ /\ retry[c] < MaxRetries
        /\ Moves(c, e, from, "backoff")
        /\ UNCHANGED broker
     \/ /\ retry[c] >= MaxRetries
        /\ Moves(c, e, from, "ended")
        /\ Settle(c, e, "dead")
  /\ failures' = [failures EXCEPT ![body[c]] = @ + 1]
  /\ UNCHANGED <<body, retry, epoch, faults, accepted, processed>>

\* await callback(message.body) raises.
CallbackRaises(c, e) == RetryBranch(c, e, "running")

\* await message.ack() after the callback.
Ack(c, e) ==
  /\ e = epoch
  /\ Moves(c, e, "succeeded", "ended")
  /\ Settle(c, e, "acked")
  /\ UNCHANGED <<body, retry, epoch, faults, accepted, processed, failures>>

\* The same ack raises because its connection is gone: it stands in the same
\* try as the callback, so a message already processed takes the retry branch.
AckRaises(c, e) ==
  /\ e # epoch
  /\ RetryBranch(c, e, "succeeded")

\* Mutant: the original is acknowledged before its copy is published.
RepublishAfterAck(c, e, n) ==
  /\ Moves(c, e, "backoff", "republished")
  /\ Settle(c, e, "acked")
  /\ broker[n] = "unused"
  /\ UNCHANGED <<body, retry, epoch, faults, accepted, processed, failures>>

\* Mutant: the copy carries the retry count of the original.
RepublishSameCount(c, e, n) ==
  /\ Moves(c, e, "backoff", "republished")
  /\ Store(n, body[c], retry[c])
  /\ UNCHANGED <<epoch, faults, accepted, processed, failures>>

\* After the backoff the copy with the next retry count is published.
Republish(c, e, n) ==
  /\ Moves(c, e, "backoff", "republished")
  /\ Store(n, body[c], retry[c] + 1)
  /\ UNCHANGED <<epoch, faults, accepted, processed, failures>>

\* Mutant: a failed publish still acknowledges the original, as an ack in a
\* finally clause would.
RepublishRaisesAndAcks(c, e) ==
  /\ faults < MaxFaults
  /\ faults' = faults + 1
  /\ Moves(c, e, "backoff", "ended")
  /\ Settle(c, e, "acked")
  /\ UNCHANGED <<body, retry, epoch, accepted, processed, failures>>

\* That publish raises.  Nothing catches it: on_message ends with the delivery
\* neither acknowledged nor rejected.  The copy may have been stored all the
\* same (only its confirmation was lost).
RepublishRaises(c, e) ==
  /\ faults < MaxFaults
  /\ faults' = faults + 1
  /\ Moves(c, e, "backoff", "ended")
  /\ \/ UNCHANGED <<broker, body, retry>>
     \/ \E n \in Copies : Store(n, body[c], retry[c] + 1)
  /\ UNCHANGED <<epoch, accepted, processed, failures>>

\* await message.ack() of the original after the copy is published; on an old
\* connection it raises out of on_message.
AckOriginal(c, e) ==
  /\ Moves(c, e, "republished", "ended")
  /\ Settle(c, e, "acked")
  /\ UNCHANGED <<body, retry, epoch, faults, accepted, processed, failures>>

-----------------------------------------------------------------------------
(* Faults                                                                  *)

\* What is unacknowledged goes back to the queue when its connection ends.
Requeue ==
  [c \in Copies |-> IF broker[c] = "unacked" THEN "ready" ELSE broker[c]]

\* The connection drops; the robust connection opens the next one and
\* consumes again.  Handlers of the old connection go on.
ConnectionLost ==
  /\ faults < MaxFaults
  /\ faults' = faults + 1
  /\ epoch' = epoch + 1
  /\ broker' = Requeue
  /\ UNCHANGED <<body, retry, handler, accepted, processed, failures>>

\* The consumer process dies and is started again.
Crash ==
  /\ faults < MaxFaults
  /\ faults' = faults + 1
  /\ epoch' = epoch + 1
  /\ broker' = Requeue
  /\ handler' = [c \in Copies |-> [e \in Epochs |-> "idle"]]
  /\ UNCHANGED <<body, retry, accepted, processed, failures>>

-----------------------------------------------------------------------------
\* The steps of on_message that need no help from outside.
Proceed(c, e) ==
  \/ CallbackReturns(c, e)
  \/ CallbackRaises(c, e)
  \/ Ack(c, e)
  \/ AckRaises(c, e)
  \/ \E n \in Copies : Republish(c, e, n)
  \/ AckOriginal(c, e)

Next ==
  \/ \E m \in Msgs, n \in Copies : Publish(m, n)
  \/ \E c \in Copies : Deliver(c)
  \/ \E c \in Copies, e \in Epochs : Proceed(c, e) \/ RepublishRaises(c, e)
  \/ ConnectionLost
  \/ Crash

Spec == Init /\ [][Next]_vars

\* The broker delivers what is ready while a consumer is connected, callbacks
\* end one way or the other, and the event loop resumes every coroutine whose
\* await is over.  Producers and faults owe nothing.
Fairness ==
  /\ \A c \in Copies : WF_vars(Deliver(c))
  /\ \A c \in Copies, e \in Epochs : WF_vars(Proceed(c, e))

FairSpec == Spec /\ Fairness

-----------------------------------------------------------------------------
(* Safety                                                                  *)

\* Whatever interleaving of retries, connection losses and crashes, a message
\* once published has been processed or some copy of it is still queued,
\* delivered or dead-lettered: publishing the copy before acknowledging the
\* original leaves no moment at which neither exists.
NoMessageLost ==
  \A m \in accepted :
    m \in processed \/ \E c \in Copies : Held(c) /\ body[c] = m

\* A copy reaches the dead letter queue only after its message has failed
\* max_retries + 1 times.  The count travels in the header of the copies,
\* through crashes and duplicated deliveries; no failure may be counted twice.
DeadLetteredAfterEveryRetry ==
  \A c \in Copies :
    broker[c] = "dead" => failures[body[c]] >= MaxRetries + 1

\* An attempt on m is going on: its callback runs, has just returned, or its
\* retry is being prepared.
Attempts(m) ==
  {a \in Copies \X Epochs :
     /\ body[a[1]] = m
     /\ handler[a[1]][a[2]] \in {"running", "succeeded", "backoff"}}

\* While the first connection lasts, a message is never handled by two
\* callbacks at a time, and a message processed is not attempted again: the
\* duplicates the workers must tolerate come from lost connections and
\* crashes only.
OneAttemptOnFirstConnection ==
  epoch = 0 =>
    \A m \in Msgs :
      /\ Cardinality(Attempts(m)) <= 1
      /\ m \in processed =>
           /\ \A c \in Copies : body[c] = m => broker[c] \notin {"ready", "dead"}
           /\ \A a \in Attempts(m) : handler[a[1]][a[2]] = "succeeded"

\* A copy delivered on the current connection whose handler has ended without
\* settling it: nothing moves it until that connection ends.
Abandoned(c) == broker[c] = "unacked" /\ handler[c][epoch] = "ended"

(* The contract the queue offers its producers and consumers               *)

BodiesIn(places) ==
  {m \in Msgs : \E c \in Copies : broker[c] \in places /\ body[c] = m}

Contract == INSTANCE DeliveryContract
              WITH queued <- BodiesIn({"ready", "unacked"}),
                   dead   <- BodiesIn({"dead"})

\* The retry queue implements at-least-once delivery: a message leaves the
\* queue only when it has been processed or dead-lettered, and what has not
\* been processed is never forgotten.
AtLeastOnce == Contract!Spec

(* Liveness                                                                *)

\* Retries end: the queue drains for good, every copy acknowledged or
\* dead-lettered, except copies abandoned by a failed publish.  As no message is
\* lost, each is then processed, dead-lettered or abandoned.
QueueDrains ==
  <>[](\A c \in Copies :
         broker[c] \in {"unused", "acked", "dead"} \/ Abandoned(c))

=============================================================================
