-------------------------- MODULE RetryQueue_proofs --------------------------
(***************************************************************************)
(* Proofs about RetryQueue for every set of messages and copies, every     *)
(* retry limit and every bound on the faults.                              *)
(*                                                                         *)
(* NoMessageLost is not inductive: when a retried original is acknowledged *)
(* it must be known that its copy is still held, although that copy may    *)
(* itself have been handled, retried and acknowledged meanwhile.  Custody  *)
(* follows the chain of copies along their growing retry counts.           *)
(***************************************************************************)
EXTENDS RetryQueue, FiniteSetTheorems, TLAPS

USE NoMsgAssumption, RetriesAssumption, FaultsAssumption

\* What is known of a copy from where it is and what its handlers do.
UnusedIsIdle ==
  \A c \in Copies, e \in Epochs : broker[c] = "unused" => handler[c][e] = "idle"

UsedIsAccepted == \A c \in Copies : broker[c] # "unused" => body[c] \in accepted

SucceededIsProcessed ==
  \A c \in Copies, e \in Epochs :
    handler[c][e] = "succeeded" => body[c] \in processed

\* The retry count of a copy never exceeds the failures of its message, and a
\* handler that backs off has counted one more.
RetryCounted ==
  \A c \in Copies : broker[c] # "unused" => failures[body[c]] >= retry[c]

BackoffCounted ==
  \A c \in Copies, e \in Epochs :
    handler[c][e] = "backoff" => failures[body[c]] >= retry[c] + 1

Counting == RetryCounted /\ BackoffCounted /\ DeadLetteredAfterEveryRetry

\* A message is taken care of beyond retry count r.
CarriedOn(m, r) ==
  \/ m \in processed
  \/ \E u \in Copies : Held(u) /\ body[u] = m /\ retry[u] > r

\* When a handler has republished, its copy or a later one is still held.
Custody ==
  /\ \A c \in Copies, e \in Epochs :
       handler[c][e] = "republished" => CarriedOn(body[c], retry[c])
  /\ NoMessageLost

-----------------------------------------------------------------------------
(* Type correctness.  A copy backing off has retries left, so its retry     *)
(* count stays in range: the part of Counting this needs is carried along.  *)

BackoffBelowLimit ==
  \A c \in Copies, e \in Epochs :
    handler[c][e] = "backoff" => retry[c] < MaxRetries

TypeInv ==
  /\ TypeOK
  /\ UnusedIsIdle
  /\ UsedIsAccepted
  /\ SucceededIsProcessed
  /\ BackoffBelowLimit

LEMMA TypeInvInit == Init => TypeInv
BY DEF Init, TypeInv, TypeOK, UnusedIsIdle, UsedIsAccepted, SucceededIsProcessed,
       BackoffBelowLimit, Epochs, Stages, Places

\* What Store and Moves do, pointwise.
Stored(n, m, r) ==
  /\ broker' \in [Copies -> Places]
  /\ body' \in [Copies -> Msgs \cup {NoMsg}]
  /\ retry' \in [Copies -> 0..MaxRetries]
  /\ \A c \in Copies : c # n =>
       broker'[c] = broker[c] /\ body'[c] = body[c] /\ retry'[c] = retry[c]
  /\ broker[n] = "unused" /\ \A e \in Epochs : handler[n][e] = "idle"
  /\ broker'[n] = "ready" /\ body'[n] = m /\ retry'[n] = r

Moved(c, e, from, to) ==
  /\ handler' \in [Copies -> [Epochs -> Stages]]
  /\ handler[c][e] = from
  /\ handler'[c][e] = to
  /\ \A d \in Copies, f \in Epochs :
       d # c \/ f # e => handler'[d][f] = handler[d][f]

Settled(c, place) ==
  /\ broker' \in [Copies -> Places]
  /\ \A d \in Copies : d # c => broker'[d] = broker[d]
  /\ broker'[c] \in {broker[c], place}

LEMMA StorePointwise ==
  ASSUME TypeInv, NEW n \in Copies, NEW m \in Msgs, NEW r \in 0..MaxRetries,
         Store(n, m, r)
  PROVE  Stored(n, m, r)
BY DEF TypeInv, TypeOK, UnusedIsIdle, UsedIsAccepted, SucceededIsProcessed,
       Store, Stored, Places

LEMMA MovesPointwise ==
  ASSUME TypeInv, NEW c \in Copies, NEW e \in Epochs,
         NEW from \in Stages, NEW to \in Stages, Moves(c, e, from, to)
  PROVE  Moved(c, e, from, to)
BY DEF TypeInv, TypeOK, Moves, Moved

LEMMA SettlePointwise ==
  ASSUME TypeInv, NEW c \in Copies, NEW e \in Epochs, NEW place \in Places,
         Settle(c, e, place)
  PROVE  Settled(c, place)
BY DEF TypeInv, TypeOK, Settle, Settled

LEMMA TypeInvNext == TypeInv /\ [Next]_vars => TypeInv'
<1> SUFFICES ASSUME TypeInv, [Next]_vars PROVE TypeInv'
  OBVIOUS
<1>0. /\ {"idle", "running", "succeeded", "backoff", "republished", "ended"}
           \subseteq Stages
      /\ {"unused", "ready", "unacked", "acked", "dead"} \subseteq Places
      /\ epoch \in Epochs
  BY DEF Stages, Places, TypeInv, TypeOK
<1>1. ASSUME NEW m \in Msgs, NEW n \in Copies, Publish(m, n) PROVE TypeInv'
  <2>1. Stored(n, m, 0)
    BY <1>1, StorePointwise DEF Publish
  <2>2. TypeOK'
    BY <1>1, <2>1 DEF Publish, Stored, TypeInv, TypeOK
  <2>3. UnusedIsIdle' /\ UsedIsAccepted' /\ SucceededIsProcessed'
    <3>1. UnusedIsIdle'
      BY <1>1, <2>1 DEF Publish, Stored, TypeInv, TypeOK, UnusedIsIdle
    <3>2. UsedIsAccepted'
      BY <1>1, <2>1 DEF Publish, Stored, TypeInv, TypeOK, UsedIsAccepted
    <3>3. SucceededIsProcessed'
      BY <1>1, <2>1 DEF Publish, Stored, TypeInv, TypeOK, SucceededIsProcessed
    <3> QED BY <3>1, <3>2, <3>3
  <2>4. BackoffBelowLimit'
    BY <1>1, <2>1 DEF Publish, Stored, TypeInv, BackoffBelowLimit
  <2> QED BY <2>2, <2>3, <2>4 DEF TypeInv
<1>2. ASSUME NEW c \in Copies, Deliver(c) PROVE TypeInv'
  <2>1. Moved(c, epoch, "idle", "running")
    BY <1>0, <1>2, MovesPointwise DEF Deliver
  <2>2. TypeOK'
    BY <1>0, <1>2, <2>1 DEF Deliver, Moved, TypeInv, TypeOK
  <2>3. UnusedIsIdle' /\ UsedIsAccepted' /\ SucceededIsProcessed'
    <3>1. UnusedIsIdle'
      BY <1>2, <2>1 DEF Deliver, Moved, TypeInv, TypeOK, UnusedIsIdle
    <3>2. UsedIsAccepted'
      BY <1>2, <2>1 DEF Deliver, Moved, TypeInv, TypeOK, UsedIsAccepted
    <3>3. SucceededIsProcessed'
      BY <1>2, <2>1 DEF Deliver, Moved, TypeInv, TypeOK, SucceededIsProcessed
    <3> QED BY <3>1, <3>2, <3>3
  <2>4. BackoffBelowLimit'
    BY <1>2, <2>1 DEF Deliver, Moved, TypeInv, BackoffBelowLimit
  <2> QED BY <2>2, <2>3, <2>4 DEF TypeInv
<1>3. ASSUME NEW c \in Copies, NEW e \in Epochs, CallbackReturns(c, e)
      PROVE  TypeInv'
  <2>1. Moved(c, e, "running", "succeeded")
    BY <1>0, <1>3, MovesPointwise DEF CallbackReturns
  <2>2. broker[c] # "unused" /\ body[c] \in Msgs
    BY <2>1
       DEF Moved, TypeInv, TypeOK, UnusedIsIdle, UsedIsAccepted,
           SucceededIsProcessed
  <2>3. TypeOK'
    BY <1>3, <2>1, <2>2 DEF CallbackReturns, Moved, TypeInv, TypeOK
  <2>4. UnusedIsIdle' /\ UsedIsAccepted' /\ SucceededIsProcessed'
    <3>1. UnusedIsIdle'
      BY <1>3, <2>1, <2>2 DEF CallbackReturns, Moved, TypeInv, TypeOK, UnusedIsIdle
    <3>2. UsedIsAccepted'
      BY <1>3, <2>1, <2>2
         DEF CallbackReturns, Moved, TypeInv, TypeOK, UsedIsAccepted
    <3>3. SucceededIsProcessed'
      BY <1>3, <2>1, <2>2
         DEF CallbackReturns, Moved, TypeInv, TypeOK, SucceededIsProcessed
    <3> QED BY <3>1, <3>2, <3>3
  <2>5. BackoffBelowLimit'
    BY <1>3, <2>1 DEF CallbackReturns, Moved, TypeInv, BackoffBelowLimit
  <2> QED BY <2>3, <2>4, <2>5 DEF TypeInv
<1>4. ASSUME NEW c \in Copies, NEW e \in Epochs,
             NEW from \in {"running", "succeeded"}, RetryBranch(c, e, from)
      PROVE  TypeInv'
  <2>1. PICK to \in {"backoff", "ended"} :
          /\ Moved(c, e, from, to)
          /\ to = "backoff" => retry[c] < MaxRetries
    BY <1>0, <1>4, MovesPointwise DEF RetryBranch
  <2>2. Settled(c, "dead")
    <3>1. CASE UNCHANGED broker
      BY <3>1 DEF Settled, TypeInv, TypeOK
    <3>2. CASE Settle(c, e, "dead")
      BY <1>0, <3>2, SettlePointwise
    <3> QED BY <1>4, <3>1, <3>2 DEF RetryBranch
  <2>3. broker[c] # "unused" /\ body[c] \in Msgs
    BY <2>1
       DEF Moved, TypeInv, TypeOK, UnusedIsIdle, UsedIsAccepted,
           SucceededIsProcessed
  <2>4. failures' \in [Msgs -> Nat]
    BY <1>4, <2>3 DEF RetryBranch, TypeInv, TypeOK
  <2>5. TypeOK'
    BY <1>4, <2>1, <2>2, <2>4 DEF RetryBranch, Moved, Settled, TypeInv, TypeOK
  <2>6. UnusedIsIdle' /\ UsedIsAccepted' /\ SucceededIsProcessed'
    <3>1. UnusedIsIdle'
      BY <1>4, <2>1, <2>2, <2>3
         DEF RetryBranch, Moved, Settled, TypeInv, TypeOK, UnusedIsIdle
    <3>2. UsedIsAccepted'
      BY <1>4, <2>1, <2>2, <2>3
         DEF RetryBranch, Moved, Settled, TypeInv, TypeOK, UsedIsAccepted
    <3>3. SucceededIsProcessed'
      BY <1>4, <2>1, <2>2, <2>3
         DEF RetryBranch, Moved, Settled, TypeInv, TypeOK, SucceededIsProcessed
    <3> QED BY <3>1, <3>2, <3>3
  <2>7. BackoffBelowLimit'
    BY <1>4, <2>1 DEF RetryBranch, Moved, TypeInv, BackoffBelowLimit
  <2> QED BY <2>5, <2>6, <2>7 DEF TypeInv
<1>5. ASSUME NEW c \in Copies, NEW e \in Epochs,
             NEW from \in {"succeeded", "republished"},
             Moves(c, e, from, "ended"), Settle(c, e, "acked"),
             UNCHANGED <<body, retry, epoch, faults, accepted, processed,
                         failures>>
      PROVE  TypeInv'
  <2>1. Moved(c, e, from, "ended") /\ Settled(c, "acked")
    BY <1>0, <1>5, MovesPointwise, SettlePointwise
  <2>2. broker[c] # "unused"
    BY <2>1 DEF Moved, TypeInv, UnusedIsIdle, UsedIsAccepted, SucceededIsProcessed
  <2>3. TypeOK'
    BY <1>5, <2>1 DEF Moved, Settled, TypeInv, TypeOK
  <2>4. UnusedIsIdle' /\ UsedIsAccepted' /\ SucceededIsProcessed'
    <3>1. UnusedIsIdle'
      BY <1>5, <2>1, <2>2 DEF Moved, Settled, TypeInv, TypeOK, UnusedIsIdle
    <3>2. UsedIsAccepted'
      BY <1>5, <2>1, <2>2 DEF Moved, Settled, TypeInv, TypeOK, UsedIsAccepted
    <3>3. SucceededIsProcessed'
      BY <1>5, <2>1, <2>2 DEF Moved, Settled, TypeInv, TypeOK, SucceededIsProcessed
    <3> QED BY <3>1, <3>2, <3>3
  <2>5. BackoffBelowLimit'
    BY <1>5, <2>1 DEF Moved, TypeInv, BackoffBelowLimit
  <2> QED BY <2>3, <2>4, <2>5 DEF TypeInv
<1>6. ASSUME NEW c \in Copies, NEW e \in Epochs, NEW n \in Copies,
             NEW to \in {"republished", "ended"},
             Moves(c, e, "backoff", to), Store(n, body[c], retry[c] + 1),
             UNCHANGED <<epoch, accepted, processed, failures>>,
             faults' \in Epochs, epoch <= faults'
      PROVE  TypeInv'
  <2>1. Moved(c, e, "backoff", to)
    BY <1>0, <1>6, MovesPointwise
  <2>2. /\ broker[c] # "unused"
        /\ body[c] \in accepted
        /\ body[c] \in Msgs
        /\ retry[c] + 1 \in 0..MaxRetries
    BY <2>1
       DEF Moved, TypeInv, TypeOK, UnusedIsIdle, UsedIsAccepted,
           SucceededIsProcessed, BackoffBelowLimit
  <2>3. Stored(n, body[c], retry[c] + 1)
    BY <1>6, <2>2, StorePointwise
  <2>4. TypeOK'
    BY <1>6, <2>1, <2>3 DEF Moved, Stored, TypeInv, TypeOK
  <2>5. UnusedIsIdle' /\ UsedIsAccepted' /\ SucceededIsProcessed'
    <3>1. UnusedIsIdle'
      <4> SUFFICES ASSUME NEW d \in Copies, NEW f \in Epochs,
                          broker'[d] = "unused"
                   PROVE  handler'[d][f] = "idle"
        BY DEF UnusedIsIdle
      <4>1. d # n /\ broker[d] = "unused"
        BY <2>3 DEF Stored
      <4> QED BY <2>1, <2>2, <4>1 DEF Moved, TypeInv, UnusedIsIdle
    <3>2. UsedIsAccepted'
      BY <1>6, <2>1, <2>2, <2>3 DEF Moved, Stored, TypeInv, TypeOK, UsedIsAccepted
    <3>3. SucceededIsProcessed'
      <4> SUFFICES ASSUME NEW d \in Copies, NEW f \in Epochs,
                          handler'[d][f] = "succeeded"
                   PROVE  body'[d] \in processed'
        BY DEF SucceededIsProcessed
      <4>1. n # c
        BY <2>2, <2>3 DEF Stored
      <4>2. handler[d][f] = "succeeded"
        BY <2>1 DEF Moved
      <4>3. d # n
        BY <2>3, <4>2 DEF Stored
      <4> QED BY <1>6, <2>3, <4>2, <4>3 DEF Stored, TypeInv, SucceededIsProcessed
    <3> QED BY <3>1, <3>2, <3>3
  <2>6. BackoffBelowLimit'
    BY <1>6, <2>1, <2>3 DEF Moved, Stored, TypeInv, BackoffBelowLimit
  <2> QED BY <2>4, <2>5, <2>6 DEF TypeInv
<1>7. ASSUME NEW c \in Copies, NEW e \in Epochs, Moves(c, e, "backoff", "ended"),
             UNCHANGED <<broker, body, retry, epoch, accepted, processed,
                         failures>>,
             faults' \in Epochs, epoch <= faults'
      PROVE  TypeInv'
  <2>1. Moved(c, e, "backoff", "ended")
    BY <1>0, <1>7, MovesPointwise
  <2>2. TypeOK'
    BY <1>7, <2>1 DEF Moved, TypeInv, TypeOK
  <2>3. UnusedIsIdle'
    BY <1>7, <2>1 DEF Moved, TypeInv, UnusedIsIdle
  <2>4. UsedIsAccepted'
    BY <1>7 DEF TypeInv, UsedIsAccepted
  <2>5. SucceededIsProcessed' /\ BackoffBelowLimit'
    BY <1>7, <2>1 DEF Moved, TypeInv, SucceededIsProcessed, BackoffBelowLimit
  <2> QED BY <2>2, <2>3, <2>4, <2>5 DEF TypeInv
<1>8. ASSUME NEW c \in Copies, NEW e \in Epochs, RepublishRaises(c, e)
      PROVE  TypeInv'
  <2>1. faults' \in Epochs /\ epoch <= faults'
    BY <1>8 DEF RepublishRaises, TypeInv, TypeOK, Epochs
  <2> QED BY <1>6, <1>7, <1>8, <2>1 DEF RepublishRaises
<1>9. ASSUME NEW c \in Copies, NEW e \in Epochs, Proceed(c, e) PROVE TypeInv'
  <2>1. CASE Ack(c, e) \/ AckOriginal(c, e)
    BY <1>5, <2>1 DEF Ack, AckOriginal
  <2>2. ASSUME NEW n \in Copies, Republish(c, e, n) PROVE TypeInv'
    <3>1. faults' \in Epochs /\ epoch <= faults'
      BY <2>2 DEF Republish, TypeInv, TypeOK
    <3> QED BY <1>6, <2>2, <3>1 DEF Republish
  <2> QED BY <1>3, <1>4, <1>9, <2>1, <2>2 DEF Proceed, CallbackRaises, AckRaises
<1>10. CASE ConnectionLost
  <2>1. TypeOK'
    BY <1>10 DEF ConnectionLost, Requeue, Places, Epochs, TypeInv, TypeOK
  <2>2. \A c \in Copies : broker'[c] = "unused" <=> broker[c] = "unused"
    BY <1>10 DEF ConnectionLost, Requeue
  <2>3. UnusedIsIdle' /\ UsedIsAccepted'
    BY <1>10, <2>2 DEF ConnectionLost, TypeInv, UnusedIsIdle, UsedIsAccepted
  <2>4. SucceededIsProcessed' /\ BackoffBelowLimit'
    BY <1>10 DEF ConnectionLost, TypeInv, SucceededIsProcessed, BackoffBelowLimit
  <2> QED BY <2>1, <2>3, <2>4 DEF TypeInv
<1>11. CASE Crash
  <2>1. TypeOK'
    BY <1>0, <1>11 DEF Crash, Requeue, Places, Epochs, TypeInv, TypeOK
  <2>2. UnusedIsIdle' /\ UsedIsAccepted' /\ SucceededIsProcessed' /\ BackoffBelowLimit'
    BY <1>11
       DEF Crash, Requeue, TypeInv, TypeOK, UnusedIsIdle, UsedIsAccepted,
           SucceededIsProcessed, BackoffBelowLimit
  <2> QED BY <2>1, <2>2 DEF TypeInv
<1>12. CASE UNCHANGED vars
  BY <1>12
     DEF vars, TypeInv, TypeOK, UnusedIsIdle, UsedIsAccepted,
         SucceededIsProcessed, BackoffBelowLimit
<1> QED
  BY <1>1, <1>2, <1>8, <1>9, <1>10, <1>11, <1>12 DEF Next

\* The state variables keep their types: in particular no copy is ever stored
\* with a retry count above max_retries, in whatever order the handlers of old
\* and new connections run.
THEOREM TypeCorrect == Spec => []TypeOK
<1>1. TypeInv => TypeOK
  BY DEF TypeInv
<1> QED BY <1>1, TypeInvInit, TypeInvNext, PTL DEF Spec

-----------------------------------------------------------------------------
(* The steps, by what they do to copies and handlers.                       *)

\* on_message moves on from one stage to the next for one delivery.
AttemptEnds(c, e, from, to) ==
  /\ from \in {"running", "succeeded"} /\ to \in {"backoff", "ended"}
  /\ Moved(c, e, from, to)
  /\ to = "backoff" => broker' = broker
  /\ Settled(c, "dead")
  /\ broker' # broker => retry[c] >= MaxRetries /\ e = epoch
  /\ from = "succeeded" => e # epoch
  /\ failures' = [failures EXCEPT ![body[c]] = @ + 1]
  /\ UNCHANGED <<body, retry, epoch, accepted, processed>>

Acked(c, e, from) ==
  /\ from \in {"succeeded", "republished"}
  /\ Moved(c, e, from, "ended")
  /\ Settled(c, "acked")
  /\ broker' # broker => e = epoch
  /\ UNCHANGED <<body, retry, epoch, accepted, processed, failures>>

Copied(c, e, n, to) ==
  /\ to \in {"republished", "ended"}
  /\ Moved(c, e, "backoff", to)
  /\ Stored(n, body[c], retry[c] + 1)
  /\ UNCHANGED <<epoch, accepted, processed, failures>>

Requeued ==
  /\ broker' = Requeue
  /\ epoch' = epoch + 1
  /\ \/ UNCHANGED handler
     \/ \A c \in Copies, e \in Epochs : handler'[c][e] = "idle"
  /\ UNCHANGED <<body, retry, accepted, processed, failures>>

\* Nothing but a handler's stage changes.
Moving(c, e, from, to) ==
  /\ <<from, to>> \in {<<"running", "succeeded">>, <<"backoff", "ended">>}
  /\ Moved(c, e, from, to)
  /\ processed' = IF to = "succeeded" THEN processed \cup {body[c]} ELSE processed
  /\ UNCHANGED <<broker, body, retry, epoch, accepted, failures>>

Delivered(c) ==
  /\ broker[c] = "ready"
  /\ broker' = [broker EXCEPT ![c] = "unacked"]
  /\ Moved(c, epoch, "idle", "running")
  /\ UNCHANGED <<body, retry, epoch, accepted, processed, failures>>

Published(m, n) ==
  /\ m \notin accepted
  /\ Stored(n, m, 0)
  /\ accepted' = accepted \cup {m}
  /\ UNCHANGED <<handler, epoch, processed, failures>>

\* Every step is one of these.
Steps ==
  \/ \E m \in Msgs, n \in Copies : Published(m, n)
  \/ \E c \in Copies : Delivered(c)
  \/ \E c \in Copies, e \in Epochs, from, to \in Stages : Moving(c, e, from, to)
  \/ \E c \in Copies, e \in Epochs, from, to \in Stages :
       AttemptEnds(c, e, from, to)
  \/ \E c \in Copies, e \in Epochs, from \in Stages : Acked(c, e, from)
  \/ \E c, n \in Copies, e \in Epochs, to \in Stages : Copied(c, e, n, to)
  \/ Requeued
  \/ UNCHANGED vars

LEMMA StepShapes ==
  ASSUME TypeInv, [Next]_vars
  PROVE  Steps
<1>0. /\ {"idle", "running", "succeeded", "backoff", "republished", "ended"}
           \subseteq Stages
      /\ {"unused", "ready", "unacked", "acked", "dead"} \subseteq Places
      /\ epoch \in Epochs
      /\ 0 \in 0..MaxRetries
  BY DEF Stages, Places, TypeInv, TypeOK
<1>1. ASSUME NEW m \in Msgs, NEW n \in Copies, Publish(m, n) PROVE Steps
  <2>1. Published(m, n)
    BY <1>0, <1>1, StorePointwise DEF Publish, Published
  <2> QED BY <2>1 DEF Steps
<1>2. ASSUME NEW c \in Copies, Deliver(c) PROVE Steps
  <2>1. Delivered(c)
    BY <1>0, <1>2, MovesPointwise DEF Deliver, Delivered
  <2> QED BY <2>1 DEF Steps
<1>3. ASSUME NEW c \in Copies, NEW e \in Epochs, CallbackReturns(c, e)
      PROVE  Steps
  <2>1. Moving(c, e, "running", "succeeded")
    BY <1>0, <1>3, MovesPointwise DEF CallbackReturns, Moving
  <2> QED BY <1>0, <2>1 DEF Steps
<1>4. ASSUME NEW c \in Copies, NEW e \in Epochs,
             NEW from \in {"running", "succeeded"}, RetryBranch(c, e, from),
             from = "succeeded" => e # epoch
      PROVE  Steps
  <2>1. CASE Moves(c, e, from, "backoff") /\ UNCHANGED broker
    <3>1. Moved(c, e, from, "backoff")
      BY <1>0, <2>1, MovesPointwise
    <3>2. Settled(c, "dead")
      BY <2>1 DEF Settled, TypeInv, TypeOK
    <3>3. AttemptEnds(c, e, from, "backoff")
      BY <1>4, <2>1, <3>1, <3>2 DEF RetryBranch, AttemptEnds
    <3> QED BY <1>0, <3>3 DEF Steps
  <2>2. CASE /\ retry[c] >= MaxRetries
             /\ Moves(c, e, from, "ended")
             /\ Settle(c, e, "dead")
    <3>1. Moved(c, e, from, "ended") /\ Settled(c, "dead")
      BY <1>0, <2>2, MovesPointwise, SettlePointwise
    <3>2. AttemptEnds(c, e, from, "ended")
      BY <1>4, <2>2, <3>1 DEF RetryBranch, Settle, AttemptEnds
    <3> QED BY <1>0, <3>2 DEF Steps
  <2> QED BY <1>4, <2>1, <2>2 DEF RetryBranch
<1>5. ASSUME NEW c \in Copies, NEW e \in Epochs, Ack(c, e) \/ AckOriginal(c, e)
      PROVE  Steps
  <2>1. Settled(c, "acked")
    BY <1>0, <1>5, SettlePointwise DEF Ack, AckOriginal
  <2>2. PICK from \in {"succeeded", "republished"} : Moved(c, e, from, "ended")
    BY <1>0, <1>5, MovesPointwise DEF Ack, AckOriginal
  <2>3. Acked(c, e, from)
    BY <1>5, <2>1, <2>2 DEF Ack, AckOriginal, Settle, Acked
  <2> QED BY <1>0, <2>3 DEF Steps
<1>6. ASSUME NEW c \in Copies, NEW e \in Epochs, NEW n \in Copies,
             NEW to \in {"republished", "ended"}, Moves(c, e, "backoff", to),
             Store(n, body[c], retry[c] + 1),
             UNCHANGED <<epoch, accepted, processed, failures>>
      PROVE  Steps
  <2>1. Moved(c, e, "backoff", to)
    BY <1>0, <1>6, MovesPointwise
  <2>2. /\ broker[c] # "unused"
        /\ retry[c] + 1 \in 0..MaxRetries
    BY <2>1 DEF Moved, TypeInv, TypeOK, UnusedIsIdle, BackoffBelowLimit
  <2>3. body[c] \in Msgs
    BY <2>2 DEF TypeInv, TypeOK, UsedIsAccepted
  <2>4. Copied(c, e, n, to)
    BY <1>6, <2>1, <2>2, <2>3, StorePointwise DEF Copied
  <2> QED BY <1>0, <2>4 DEF Steps
<1>7. ASSUME NEW c \in Copies, NEW e \in Epochs, RepublishRaises(c, e)
      PROVE  Steps
  <2>1. CASE UNCHANGED <<broker, body, retry>>
    <3>1. Moving(c, e, "backoff", "ended")
      BY <1>0, <1>7, <2>1, MovesPointwise DEF RepublishRaises, Moving
    <3> QED BY <1>0, <3>1 DEF Steps
  <2>2. CASE \E n \in Copies : Store(n, body[c], retry[c] + 1)
    BY <1>6, <1>7, <2>2 DEF RepublishRaises
  <2> QED BY <1>7, <2>1, <2>2 DEF RepublishRaises
<1>8. ASSUME NEW c \in Copies, NEW e \in Epochs, Proceed(c, e) PROVE Steps
  <2>1. ASSUME NEW n \in Copies, Republish(c, e, n) PROVE Steps
    BY <1>6, <2>1 DEF Republish
  <2> QED BY <1>3, <1>4, <1>5, <1>8, <2>1 DEF Proceed, CallbackRaises, AckRaises
<1>9. CASE ConnectionLost \/ Crash
  <2>1. Requeued
    BY <1>9 DEF ConnectionLost, Crash, Requeued
  <2> QED BY <2>1 DEF Steps
<1> QED
  BY <1>1, <1>2, <1>7, <1>8, <1>9 DEF Next, Steps

-----------------------------------------------------------------------------
(* No failure is counted twice on the way to the dead letter queue.         *)

LEMMA CountingInit == Init => Counting
BY DEF Init, Counting, RetryCounted, BackoffCounted, DeadLetteredAfterEveryRetry,
       Epochs

\* Failures only grow, and a copy in use keeps its body and its count.
Grows(m) == failures'[m] \in Nat /\ failures'[m] >= failures[m]

LEMMA CountingNext == TypeInv /\ Counting /\ [Next]_vars => Counting'
<1> SUFFICES ASSUME TypeInv, Counting, [Next]_vars PROVE Counting'
  OBVIOUS
<1>0. Steps
  BY StepShapes
<1>a. \A c \in Copies : broker[c] # "unused" => body[c] \in Msgs
  BY DEF TypeInv, TypeOK, UsedIsAccepted
<1>1. ASSUME NEW m \in Msgs, NEW n \in Copies, Published(m, n) PROVE Counting'
  <2>1. RetryCounted'
    BY <1>1, <1>a DEF Published, Stored, TypeInv, TypeOK, Counting, RetryCounted
  <2>2. BackoffCounted'
    BY <1>1 DEF Published, Stored, Counting, BackoffCounted
  <2>3. DeadLetteredAfterEveryRetry'
    BY <1>1 DEF Published, Stored, Counting, DeadLetteredAfterEveryRetry
  <2> QED BY <2>1, <2>2, <2>3 DEF Counting
<1>2. ASSUME NEW c \in Copies, Delivered(c) PROVE Counting'
  <2>1. RetryCounted'
    BY <1>2 DEF Delivered, TypeInv, TypeOK, Counting, RetryCounted
  <2>2. BackoffCounted'
    BY <1>2 DEF Delivered, Moved, Counting, BackoffCounted
  <2>3. DeadLetteredAfterEveryRetry'
    BY <1>2 DEF Delivered, TypeInv, TypeOK, Counting,
               DeadLetteredAfterEveryRetry
  <2> QED BY <2>1, <2>2, <2>3 DEF Counting
<1>3. ASSUME NEW c \in Copies, NEW e \in Epochs, NEW from \in Stages,
             NEW to \in Stages, Moving(c, e, from, to)
      PROVE  Counting'
  <2>1. RetryCounted' /\ DeadLetteredAfterEveryRetry'
    BY <1>3 DEF Moving, Counting, RetryCounted, DeadLetteredAfterEveryRetry
  <2>2. BackoffCounted'
    BY <1>3 DEF Moving, Moved, Counting, BackoffCounted
  <2> QED BY <2>1, <2>2 DEF Counting
<1>4. ASSUME NEW c \in Copies, NEW e \in Epochs, NEW from \in Stages,
             NEW to \in Stages, AttemptEnds(c, e, from, to)
      PROVE  Counting'
  <2>1. broker[c] # "unused" /\ body[c] \in Msgs
    BY <1>4, <1>a DEF AttemptEnds, Moved, TypeInv, UnusedIsIdle
  <2>2. \A m \in Msgs : Grows(m)
    BY <1>4, <2>1 DEF AttemptEnds, Grows, TypeInv, TypeOK
  <2>3. failures'[body[c]] >= retry[c] + 1
    BY <1>4, <2>1 DEF AttemptEnds, TypeInv, TypeOK, Counting, RetryCounted
  <2>4. RetryCounted'
    <3> SUFFICES ASSUME NEW d \in Copies, broker'[d] # "unused"
                 PROVE  failures'[body'[d]] >= retry'[d]
      BY DEF RetryCounted
    <3>1. broker[d] # "unused" /\ body'[d] = body[d] /\ retry'[d] = retry[d]
      BY <1>4, <2>1 DEF AttemptEnds, Settled
    <3>2. Grows(body[d]) /\ failures[body[d]] >= retry[d]
      BY <1>a, <2>2, <3>1 DEF Counting, RetryCounted
    <3>3. failures[body[d]] \in Nat /\ retry[d] \in Nat
      BY <1>a, <3>1 DEF TypeInv, TypeOK
    <3> QED BY <3>1, <3>2, <3>3 DEF Grows
  <2>5. BackoffCounted'
    <3> SUFFICES ASSUME NEW d \in Copies, NEW f \in Epochs,
                        handler'[d][f] = "backoff"
                 PROVE  failures'[body'[d]] >= retry'[d] + 1
      BY DEF BackoffCounted
    <3>1. body'[d] = body[d] /\ retry'[d] = retry[d]
      BY <1>4 DEF AttemptEnds
    <3>2. CASE d = c /\ f = e
      BY <2>3, <3>1, <3>2
    <3>3. CASE d # c \/ f # e
      <4>1. handler[d][f] = "backoff"
        BY <1>4, <3>3 DEF AttemptEnds, Moved
      <4>2. body[d] \in Msgs /\ failures[body[d]] >= retry[d] + 1
        BY <4>1, <1>a DEF Counting, BackoffCounted, TypeInv, UnusedIsIdle
      <4>3. failures[body[d]] \in Nat /\ retry[d] \in Nat
        BY <4>2 DEF TypeInv, TypeOK
      <4> QED BY <2>2, <3>1, <4>2, <4>3 DEF Grows
    <3> QED BY <3>2, <3>3
  <2>6. DeadLetteredAfterEveryRetry'
    <3> SUFFICES ASSUME NEW d \in Copies, broker'[d] = "dead"
                 PROVE  failures'[body'[d]] >= MaxRetries + 1
      BY DEF DeadLetteredAfterEveryRetry
    <3>1. body'[d] = body[d]
      BY <1>4 DEF AttemptEnds
    <3>2. CASE broker[d] = "dead"
      <4>1. body[d] \in Msgs /\ failures[body[d]] >= MaxRetries + 1
        BY <3>2, <1>a DEF Counting, DeadLetteredAfterEveryRetry
      <4>2. failures[body[d]] \in Nat
        BY <4>1 DEF TypeInv, TypeOK
      <4> QED BY <2>2, <3>1, <4>1, <4>2 DEF Grows
    <3>3. CASE broker[d] # "dead"
      <4>1. d = c /\ retry[c] >= MaxRetries
        BY <1>4, <3>3 DEF AttemptEnds, Settled
      <4>2. failures'[body[c]] \in Nat /\ retry[c] \in Nat
        BY <2>1, <2>2 DEF Grows, TypeInv, TypeOK
      <4> QED BY <2>3, <3>1, <4>1, <4>2
    <3> QED BY <3>2, <3>3
  <2> QED BY <2>4, <2>5, <2>6 DEF Counting
<1>5. ASSUME NEW c \in Copies, NEW e \in Epochs, NEW from \in Stages,
             Acked(c, e, from)
      PROVE  Counting'
  <2>1. broker[c] # "unused"
    BY <1>5 DEF Acked, Moved, TypeInv, UnusedIsIdle
  <2>2. RetryCounted'
    BY <1>5, <2>1 DEF Acked, Settled, Counting, RetryCounted
  <2>3. BackoffCounted'
    BY <1>5 DEF Acked, Moved, Counting, BackoffCounted
  <2>4. DeadLetteredAfterEveryRetry'
    BY <1>5 DEF Acked, Settled, Counting, DeadLetteredAfterEveryRetry
  <2> QED BY <2>2, <2>3, <2>4 DEF Counting
<1>6. ASSUME NEW c \in Copies, NEW n \in Copies, NEW e \in Epochs,
             NEW to \in Stages, Copied(c, e, n, to)
      PROVE  Counting'
  <2>1. failures[body[c]] >= retry[c] + 1
    BY <1>6 DEF Copied, Moved, Counting, BackoffCounted
  <2>2. RetryCounted'
    BY <1>6, <2>1 DEF Copied, Stored, Counting, RetryCounted
  <2>3. BackoffCounted'
    <3> SUFFICES ASSUME NEW d \in Copies, NEW f \in Epochs,
                        handler'[d][f] = "backoff"
                 PROVE  failures'[body'[d]] >= retry'[d] + 1
      BY DEF BackoffCounted
    <3>1. handler[d][f] = "backoff"
      BY <1>6 DEF Copied, Moved
    <3>2. d # n
      BY <1>6, <3>1 DEF Copied, Stored
    <3> QED BY <1>6, <3>1, <3>2 DEF Copied, Stored, Counting, BackoffCounted
  <2>4. DeadLetteredAfterEveryRetry'
    BY <1>6 DEF Copied, Stored, Counting, DeadLetteredAfterEveryRetry
  <2> QED BY <2>2, <2>3, <2>4 DEF Counting
<1>7. CASE Requeued
  <2>1. ASSUME NEW c \in Copies
        PROVE  /\ broker'[c] = "unused" <=> broker[c] = "unused"
               /\ broker'[c] = "dead" => broker[c] = "dead"
    BY <1>7 DEF Requeued, Requeue
  <2>2. UNCHANGED <<body, retry, failures>>
    BY <1>7 DEF Requeued
  <2>3. RetryCounted'
    BY <2>1, <2>2 DEF Counting, RetryCounted
  <2>4. DeadLetteredAfterEveryRetry'
    BY <2>1, <2>2 DEF Counting, DeadLetteredAfterEveryRetry
  <2>5. BackoffCounted'
    BY <1>7 DEF Requeued, Counting, BackoffCounted
  <2> QED BY <2>3, <2>4, <2>5 DEF Counting
<1>8. CASE UNCHANGED vars
  BY <1>8 DEF vars, Counting, RetryCounted, BackoffCounted,
             DeadLetteredAfterEveryRetry
<1> QED
  BY <1>0, <1>1, <1>2, <1>3, <1>4, <1>5, <1>6, <1>7, <1>8 DEF Steps

\* The dead letter queue holds only copies whose message failed max_retries + 1
\* times: the count in the headers of the copies never runs ahead of the
\* failures, whatever connections are lost and deliveries repeated.
THEOREM DeadLettersHadEveryRetry == Spec => []DeadLetteredAfterEveryRetry
<1>1. Init => TypeInv /\ Counting
  BY TypeInvInit, CountingInit
<1>2. TypeInv /\ Counting /\ [Next]_vars => (TypeInv /\ Counting)'
  BY TypeInvNext, CountingNext
<1>3. TypeInv /\ Counting => DeadLetteredAfterEveryRetry
  BY DEF Counting
<1> QED BY <1>1, <1>2, <1>3, PTL DEF Spec

-----------------------------------------------------------------------------
(* No message is lost.                                                      *)

LEMMA CustodyInit == Init => Custody
BY DEF Init, Custody, NoMessageLost, CarriedOn, Epochs

\* A step that drops no held copy and forgets nothing processed.
Kept ==
  /\ processed \subseteq processed'
  /\ \A u \in Copies :
       Held(u) => Held(u)' /\ body'[u] = body[u] /\ retry'[u] = retry[u]

LEMMA KeptCarriesOn ==
  ASSUME Kept, NEW m, NEW r, CarriedOn(m, r)
  PROVE  CarriedOn(m, r)'
BY DEF Kept, CarriedOn

LEMMA KeptLosesNothing ==
  ASSUME Kept, NoMessageLost, accepted' = accepted
  PROVE  NoMessageLost'
BY DEF Kept, NoMessageLost

\* Unless a handler becomes "republished", keeping the copies keeps Custody.
LEMMA KeptCustody ==
  ASSUME TypeInv, Custody, Kept, accepted' = accepted,
         \A d \in Copies, f \in Epochs :
           handler'[d][f] = "republished" =>
             /\ handler[d][f] = "republished"
             /\ body'[d] = body[d] /\ retry'[d] = retry[d]
  PROVE  Custody'
<1>1. ASSUME NEW d \in Copies, NEW f \in Epochs, handler'[d][f] = "republished"
      PROVE  CarriedOn(body[d], retry[d])'
  <2>1. CarriedOn(body[d], retry[d])
    BY <1>1 DEF Custody
  <2>2. body'[d] = body[d] /\ retry'[d] = retry[d]
    BY <1>1
  <2> QED BY <2>1, <2>2 DEF Kept, CarriedOn
<1>2. NoMessageLost'
  BY KeptLosesNothing DEF Custody
<1> QED BY <1>1, <1>2 DEF Custody

LEMMA CustodyNext == TypeInv /\ Custody /\ [Next]_vars => Custody'
<1> SUFFICES ASSUME TypeInv, Custody, [Next]_vars PROVE Custody'
  OBVIOUS
<1>0. Steps
  BY StepShapes
<1>1. ASSUME NEW m \in Msgs, NEW n \in Copies, Published(m, n) PROVE Custody'
  <2>1. Kept
    BY <1>1 DEF Published, Stored, Kept, Held
  <2>2. NoMessageLost'
    <3> SUFFICES ASSUME NEW k \in accepted'
                 PROVE  \/ k \in processed'
                        \/ \E u \in Copies : Held(u)' /\ body'[u] = k
      BY DEF NoMessageLost
    <3>1. CASE k = m
      BY <1>1, <3>1 DEF Published, Stored, Held
    <3>2. CASE k \in accepted
      BY <2>1, <3>2 DEF Kept, Custody, NoMessageLost
    <3> QED BY <1>1, <3>1, <3>2 DEF Published
  <2>3. ASSUME NEW d \in Copies, NEW f \in Epochs, handler'[d][f] = "republished"
        PROVE  CarriedOn(body[d], retry[d])'
    <3>1. handler[d][f] = "republished" /\ d # n
      BY <1>1, <2>3 DEF Published, Stored
    <3>2. body'[d] = body[d] /\ retry'[d] = retry[d]
      BY <1>1, <3>1 DEF Published, Stored
    <3>3. CarriedOn(body[d], retry[d])
      BY <3>1 DEF Custody
    <3> QED BY <2>1, <3>2, <3>3 DEF Kept, CarriedOn
  <2> QED BY <2>2, <2>3 DEF Custody
<1>2. ASSUME NEW c \in Copies, Delivered(c) PROVE Custody'
  <2>1. Kept
    BY <1>2 DEF Delivered, Kept, Held, TypeInv, TypeOK
  <2>2. \A d \in Copies, f \in Epochs :
          handler'[d][f] = "republished" => handler[d][f] = "republished"
    BY <1>2 DEF Delivered, Moved
  <2> QED BY <1>2, <2>1, <2>2, KeptCustody DEF Delivered
<1>3. ASSUME NEW c \in Copies, NEW e \in Epochs, NEW from \in Stages,
             NEW to \in Stages, Moving(c, e, from, to)
      PROVE  Custody'
  <2>1. Kept
    BY <1>3 DEF Moving, Kept, Held
  <2>2. \A d \in Copies, f \in Epochs :
          handler'[d][f] = "republished" => handler[d][f] = "republished"
    BY <1>3 DEF Moving, Moved
  <2> QED BY <1>3, <2>1, <2>2, KeptCustody DEF Moving
<1>4. ASSUME NEW c \in Copies, NEW e \in Epochs, NEW from \in Stages,
             NEW to \in Stages, AttemptEnds(c, e, from, to)
      PROVE  Custody'
  <2>1. Kept
    BY <1>4 DEF AttemptEnds, Settled, Kept, Held
  <2>2. \A d \in Copies, f \in Epochs :
          handler'[d][f] = "republished" => handler[d][f] = "republished"
    BY <1>4 DEF AttemptEnds, Moved
  <2> QED BY <1>4, <2>1, <2>2, KeptCustody DEF AttemptEnds
<1>5. ASSUME NEW c \in Copies, NEW e \in Epochs, NEW from \in Stages,
             Acked(c, e, from)
      PROVE  Custody'
  <2>1. CarriedOn(body[c], retry[c])
    BY <1>5 DEF Acked, Moved, CarriedOn, Custody, TypeInv, SucceededIsProcessed
  <2>2. \A u \in Copies : u # c => (Held(u) => Held(u)')
    BY <1>5 DEF Acked, Settled, Held
  <2>3. retry \in [Copies -> Nat]
    BY DEF TypeInv, TypeOK
  <2>4. ASSUME NEW m, NEW r \in Nat, CarriedOn(m, r)
        PROVE  \/ m \in processed
               \/ \E u \in Copies : Held(u)' /\ body[u] = m /\ retry[u] > r
    <3>0. CASE m \in processed
      BY <3>0
    <3>1. CASE m \notin processed
      <4>1. PICK u \in Copies : Held(u) /\ body[u] = m /\ retry[u] > r
        BY <2>4, <3>1 DEF CarriedOn
      <4>2. CASE u = c
        <5>1. PICK w \in Copies : Held(w) /\ body[w] = m /\ retry[w] > retry[c]
          BY <2>1, <3>1, <4>1, <4>2 DEF CarriedOn
        <5>2. w # c /\ retry[w] > r
          BY <2>3, <4>1, <4>2, <5>1
        <5> QED BY <2>2, <5>1, <5>2
      <4>3. CASE u # c
        BY <2>2, <4>1, <4>3
      <4> QED BY <4>2, <4>3
    <3> QED BY <3>0, <3>1
  <2>5. ASSUME NEW d \in Copies, NEW f \in Epochs, handler'[d][f] = "republished"
        PROVE  CarriedOn(body[d], retry[d])'
    <3>1. handler[d][f] = "republished"
      BY <1>5, <2>5 DEF Acked, Moved
    <3>2. CarriedOn(body[d], retry[d])
      BY <3>1 DEF Custody
    <3> QED BY <1>5, <2>3, <2>4, <3>2 DEF Acked, CarriedOn
  <2>6. NoMessageLost'
    <3> SUFFICES ASSUME NEW m \in accepted
                 PROVE  \/ m \in processed
                        \/ \E u \in Copies : Held(u)' /\ body[u] = m
      BY <1>5 DEF Acked, NoMessageLost
    <3>1. CASE m = body[c]
      BY <2>1, <2>3, <2>4, <3>1
    <3>2. CASE m # body[c]
      BY <2>2, <3>2 DEF Custody, NoMessageLost
    <3> QED BY <3>1, <3>2
  <2> QED BY <2>5, <2>6 DEF Custody
<1>6. ASSUME NEW c \in Copies, NEW n \in Copies, NEW e \in Epochs,
             NEW to \in Stages, Copied(c, e, n, to)
      PROVE  Custody'
  <2>1. Kept
    BY <1>6 DEF Copied, Stored, Kept, Held
  <2>2. n # c
    BY <1>6 DEF Copied, Stored, Moved
  <2>3. ASSUME NEW d \in Copies, NEW f \in Epochs, handler'[d][f] = "republished"
        PROVE  CarriedOn(body[d], retry[d])'
    <3>1. CASE d = c /\ f = e
      <4>1. retry[c] \in Nat
        BY DEF TypeInv, TypeOK
      <4>2. /\ Held(n)' /\ body'[n] = body'[c] /\ retry'[n] = retry[c] + 1
            /\ retry'[c] = retry[c]
        BY <1>6, <2>2 DEF Copied, Stored, Held
      <4> QED BY <3>1, <4>1, <4>2 DEF CarriedOn
    <3>2. CASE d # c \/ f # e
      <4>1. handler[d][f] = "republished"
        BY <1>6, <2>3, <3>2 DEF Copied, Moved
      <4>2. d # n
        BY <1>6, <4>1 DEF Copied, Stored
      <4>3. body'[d] = body[d] /\ retry'[d] = retry[d]
        BY <1>6, <4>2 DEF Copied, Stored
      <4>4. CarriedOn(body[d], retry[d])
        BY <4>1 DEF Custody
      <4> QED BY <2>1, <4>3, <4>4 DEF Kept, CarriedOn
    <3> QED BY <3>1, <3>2
  <2>4. NoMessageLost'
    BY <1>6, <2>1, KeptLosesNothing DEF Copied, Custody
  <2> QED BY <2>3, <2>4 DEF Custody
<1>7. CASE Requeued
  <2>1. Kept
    BY <1>7 DEF Requeued, Requeue, Kept, Held
  <2>2. \A d \in Copies, f \in Epochs :
          handler'[d][f] = "republished" => handler[d][f] = "republished"
    BY <1>7 DEF Requeued
  <2> QED BY <1>7, <2>1, <2>2, KeptCustody DEF Requeued
<1>8. CASE UNCHANGED vars
  BY <1>8 DEF vars, Custody, CarriedOn, Held, NoMessageLost
<1> QED
  BY <1>0, <1>1, <1>2, <1>3, <1>4, <1>5, <1>6, <1>7, <1>8 DEF Steps

\* A message published is processed or still held by the broker, for any number
\* of retries, copies, lost connections, crashes and failed publishes: each
\* original is acknowledged only when its message was processed or a copy with
\* a higher retry count exists.
THEOREM NothingLost == Spec => []NoMessageLost
<1>1. Init => TypeInv /\ Custody
  BY TypeInvInit, CustodyInit
<1>2. TypeInv /\ Custody /\ [Next]_vars => (TypeInv /\ Custody)'
  BY TypeInvNext, CustodyNext
<1>3. TypeInv /\ Custody => NoMessageLost
  BY DEF Custody
<1> QED BY <1>1, <1>2, <1>3, PTL DEF Spec

-----------------------------------------------------------------------------
(* A delivery that settles its copy finds it unacknowledged, so nothing      *)
(* already settled changes place.                                            *)

Active == {"running", "succeeded", "backoff", "republished"}

\* Handlers of connections to come are idle, and a handler at work on the
\* current connection holds its copy unacknowledged.
Tracking ==
  /\ \A c \in Copies, e \in Epochs : e > epoch => handler[c][e] = "idle"
  /\ \A c \in Copies : handler[c][epoch] \in Active => broker[c] = "unacked"

LEMMA TrackingInit == Init => Tracking
BY DEF Init, Tracking, Active, Epochs

LEMMA TrackingNext == TypeInv /\ Tracking /\ [Next]_vars => Tracking'
<1> SUFFICES ASSUME TypeInv, Tracking, [Next]_vars PROVE Tracking'
  OBVIOUS
<1>0. Steps /\ epoch \in Epochs /\ TypeInv'
  BY StepShapes, TypeInvNext DEF TypeInv, TypeOK
<1>1. ASSUME NEW m \in Msgs, NEW n \in Copies, Published(m, n) PROVE Tracking'
  BY <1>0, <1>1 DEF Published, Stored, Tracking, Active
<1>2. ASSUME NEW c \in Copies, Delivered(c) PROVE Tracking'
  BY <1>0, <1>2 DEF Delivered, Moved, Tracking, Active, TypeInv, TypeOK, Epochs
<1>3. ASSUME NEW c \in Copies, NEW e \in Epochs, NEW from \in Stages,
             NEW to \in Stages, Moving(c, e, from, to)
      PROVE  Tracking'
  BY <1>0, <1>3 DEF Moving, Moved, Tracking, Active
<1>4. ASSUME NEW c \in Copies, NEW e \in Epochs, NEW from \in Stages,
             NEW to \in Stages, AttemptEnds(c, e, from, to)
      PROVE  Tracking'
  BY <1>0, <1>4 DEF AttemptEnds, Settled, Moved, Tracking, Active
<1>5. ASSUME NEW c \in Copies, NEW e \in Epochs, NEW from \in Stages,
             Acked(c, e, from)
      PROVE  Tracking'
  BY <1>0, <1>5 DEF Acked, Settled, Moved, Tracking, Active
<1>6. ASSUME NEW c \in Copies, NEW n \in Copies, NEW e \in Epochs,
             NEW to \in Stages, Copied(c, e, n, to)
      PROVE  Tracking'
  <2>1. \A d \in Copies, f \in Epochs : f > epoch => handler'[d][f] = "idle"
    BY <1>6 DEF Copied, Moved, Tracking
  <2>2. ASSUME NEW d \in Copies, handler'[d][epoch] \in Active
        PROVE  broker'[d] = "unacked"
    <3>1. handler[d][epoch] \in Active
      BY <1>0, <1>6, <2>2 DEF Copied, Moved, Active
    <3>2. d # n
      BY <1>0, <1>6, <3>1 DEF Copied, Stored, Active
    <3> QED BY <1>6, <3>1, <3>2 DEF Copied, Stored, Tracking
  <2> QED BY <1>6, <2>1, <2>2 DEF Copied, Tracking
<1>7. CASE Requeued
  <2>1. epoch' \in Epochs /\ epoch' = epoch + 1 /\ epoch \in Nat
    BY <1>0, <1>7 DEF Requeued, TypeInv, TypeOK, Epochs
  <2>2. \A c \in Copies, e \in Epochs : e > epoch => handler'[c][e] = "idle"
    BY <1>7 DEF Requeued, Tracking
  <2>3. \A e \in Epochs : e > epoch' \/ e = epoch' => e > epoch
    BY <2>1 DEF Epochs
  <2>4. \A c \in Copies, e \in Epochs : e > epoch' => handler'[c][e] = "idle"
    BY <2>2, <2>3
  <2>5. \A c \in Copies : handler'[c][epoch'] = "idle"
    BY <2>1, <2>2, <2>3
  <2> QED BY <2>4, <2>5 DEF Tracking, Active, Epochs
<1>8. CASE UNCHANGED vars
  BY <1>8 DEF vars, Tracking
<1> QED
  BY <1>0, <1>1, <1>2, <1>3, <1>4, <1>5, <1>6, <1>7, <1>8 DEF Steps

-----------------------------------------------------------------------------
(* One attempt at a time, while the first connection lasts.  A message then  *)
(* has at most one copy that is, was to be or failed to be handled: the rest *)
(* of its copies have handed it on.                                          *)

Trying == {"running", "succeeded", "backoff"}

\* Copy c carries its message on the first connection.
Carrier(c) == broker[c] \in {"ready", "dead"} \/ handler[c][0] \in Trying

OneCarrier ==
  epoch = 0 =>
    /\ processed \subseteq accepted
    /\ \A c, d \in Copies : Carrier(c) /\ Carrier(d) /\ body[c] = body[d] => c = d
    /\ \A c \in Copies :
         Carrier(c) /\ body[c] \in processed =>
           broker[c] \notin {"ready", "dead"} /\ handler[c][0] = "succeeded"

LEMMA OneCarrierInit == Init => OneCarrier
BY DEF Init, OneCarrier, Carrier, Trying, Epochs

LEMMA OneCarrierNext == TypeInv /\ Tracking /\ OneCarrier /\ [Next]_vars => OneCarrier'
<1> SUFFICES ASSUME TypeInv, Tracking, OneCarrier, [Next]_vars, epoch' = 0
             PROVE  OneCarrier'
  BY DEF OneCarrier
<1>0. Steps /\ epoch \in Nat /\ 0 \in Epochs
  BY StepShapes DEF TypeInv, TypeOK, Epochs
<1>a. ~Requeued
  BY <1>0 DEF Requeued
<1>b. epoch = 0
  BY <1>0, <1>a
     DEF Steps, Published, Delivered, Moving, AttemptEnds, Acked, Copied, vars
<1>c. /\ \A c \in Copies : broker[c] # "unused" => body[c] \in accepted
      /\ \A c \in Copies, e \in Epochs : handler[c][e] # "idle" => e = 0
      /\ \A c \in Copies : handler[c][0] \in Active => broker[c] = "unacked"
  BY <1>b DEF TypeInv, UsedIsAccepted, Tracking, Epochs
<1>1. ASSUME NEW m \in Msgs, NEW n \in Copies, Published(m, n) PROVE OneCarrier'
  <2>1. \A c \in Copies : Carrier(c)' <=> c = n \/ Carrier(c)
    BY <1>0, <1>1 DEF Published, Stored, Carrier, Trying
  <2>2. \A c \in Copies : c # n /\ Carrier(c) => body'[c] = body[c] /\ body[c] # m
    BY <1>c, <1>0, <1>1 DEF Published, Stored, Carrier, Trying, Active
  <2>3. m \notin processed
    BY <1>b, <1>1 DEF Published, OneCarrier
  <2> QED
    BY <1>b, <1>1, <2>1, <2>2, <2>3 DEF Published, Stored, OneCarrier
<1>2. ASSUME NEW c \in Copies, Delivered(c) PROVE OneCarrier'
  <2>1. \A d \in Copies : Carrier(d)' <=> Carrier(d)
    BY <1>0, <1>b, <1>2 DEF Delivered, Moved, Carrier, Trying, TypeInv, TypeOK
  <2>2. Carrier(c) /\ body[c] \notin processed
    BY <1>b, <1>2 DEF Delivered, Carrier, OneCarrier
  <2> QED
    BY <1>0, <1>b, <1>2, <2>1, <2>2
       DEF Delivered, Moved, OneCarrier, TypeInv, TypeOK
<1>3. ASSUME NEW c \in Copies, NEW e \in Epochs, NEW from \in Stages,
             NEW to \in Stages, Moving(c, e, from, to)
      PROVE  OneCarrier'
  <2>0. e = 0
    BY <1>c, <1>3 DEF Moving, Moved
  <2>1. Carrier(c) /\ \A d \in Copies : Carrier(d)' => Carrier(d)
    BY <1>0, <2>0, <1>3 DEF Moving, Moved, Carrier, Trying
  <2>2. CASE to = "succeeded"
    <3>0. body[c] \in accepted
      BY <1>c, <1>3, <2>0 DEF Moving, Moved, TypeInv, UnusedIsIdle
    <3>1. broker[c] = "unacked" /\ handler'[c][0] = "succeeded"
      BY <1>c, <2>0, <2>2, <1>3 DEF Moving, Moved, Active
    <3>2. \A d \in Copies : Carrier(d) /\ d # c => body[d] # body[c]
      BY <1>b, <2>1 DEF OneCarrier
    <3> QED
      BY <1>0, <1>b, <1>3, <2>0, <2>1, <2>2, <3>0, <3>1, <3>2
         DEF Moving, Moved, OneCarrier
  <2>3. CASE to # "succeeded"
    <3>1. \A d \in Copies : Carrier(d)' => d # c
      BY <1>c, <1>3, <2>0, <2>3 DEF Moving, Moved, Carrier, Trying, Active
    <3> QED
      BY <1>0, <1>b, <1>3, <2>1, <2>3, <3>1 DEF Moving, Moved, OneCarrier
  <2> QED BY <2>2, <2>3
<1>4. ASSUME NEW c \in Copies, NEW e \in Epochs, NEW from \in Stages,
             NEW to \in Stages, AttemptEnds(c, e, from, to)
      PROVE  OneCarrier'
  <2>0. e = 0 /\ handler[c][0] = "running"
    BY <1>b, <1>c, <1>4 DEF AttemptEnds, Moved
  <2>1. Carrier(c) /\ \A d \in Copies : Carrier(d)' => Carrier(d)
    BY <1>0, <2>0, <1>4 DEF AttemptEnds, Moved, Settled, Carrier, Trying
  <2>2. body[c] \notin processed
    BY <1>b, <2>0, <2>1 DEF OneCarrier
  <2>3. \A d \in Copies : d # c => /\ broker'[d] = broker[d]
                                   /\ handler'[d][0] = handler[d][0]
    BY <1>0, <1>4 DEF AttemptEnds, Moved, Settled
  <2> QED
    BY <1>b, <1>4, <2>1, <2>2, <2>3 DEF AttemptEnds, OneCarrier
<1>5. ASSUME NEW c \in Copies, NEW e \in Epochs, NEW from \in Stages,
             Acked(c, e, from)
      PROVE  OneCarrier'
  <2>0. e = 0 /\ broker[c] = "unacked"
    BY <1>c, <1>5 DEF Acked, Moved, Active
  <2>1. \A d \in Copies : Carrier(d)' => d # c /\ Carrier(d)
    BY <1>0, <1>5, <2>0 DEF Acked, Moved, Settled, Carrier, Trying
  <2>2. \A d \in Copies : d # c => /\ broker'[d] = broker[d]
                                   /\ handler'[d][0] = handler[d][0]
    BY <1>0, <1>5 DEF Acked, Moved, Settled
  <2> QED
    BY <1>b, <1>5, <2>1, <2>2 DEF Acked, OneCarrier
<1>6. ASSUME NEW c \in Copies, NEW n \in Copies, NEW e \in Epochs,
             NEW to \in Stages, Copied(c, e, n, to)
      PROVE  OneCarrier'
  <2>0. e = 0 /\ handler[c][0] = "backoff" /\ broker[c] = "unacked"
    BY <1>c, <1>6 DEF Copied, Moved, Active
  <2>1. Carrier(c) /\ n # c
    BY <1>6, <2>0 DEF Copied, Stored, Carrier, Trying
  <2>2. body[c] \notin processed
    BY <1>b, <2>0, <2>1 DEF OneCarrier
  <2>3. \A d \in Copies : Carrier(d)' => d = n \/ (d # c /\ Carrier(d))
    BY <1>0, <1>6, <2>0, <2>1 DEF Copied, Moved, Stored, Carrier, Trying
  <2>4. \A d \in Copies : d # c /\ Carrier(d) => body[d] # body[c]
    BY <1>b, <2>1 DEF OneCarrier
  <2>5. \A d \in Copies : d # c /\ d # n => /\ broker'[d] = broker[d]
                                            /\ handler'[d][0] = handler[d][0]
                                            /\ body'[d] = body[d]
    BY <1>0, <1>6 DEF Copied, Moved, Stored
  <2>6. body'[n] = body[c] /\ processed' = processed
    BY <1>6 DEF Copied, Stored
  <2> QED
    BY <1>b, <1>6, <2>2, <2>3, <2>4, <2>5, <2>6 DEF Copied, OneCarrier
<1>7. CASE UNCHANGED vars
  BY <1>b, <1>7 DEF vars, OneCarrier, Carrier
<1> QED
  BY <1>0, <1>a, <1>1, <1>2, <1>3, <1>4, <1>5, <1>6, <1>7 DEF Steps

LEMMA OneCarrierSuffices ==
  ASSUME TypeInv, Tracking, OneCarrier
  PROVE  OneAttemptOnFirstConnection
<1> SUFFICES ASSUME epoch = 0, NEW m \in Msgs
             PROVE  /\ Cardinality(Attempts(m)) <= 1
                    /\ m \in processed =>
                         /\ \A c \in Copies :
                              body[c] = m => broker[c] \notin {"ready", "dead"}
                         /\ \A a \in Attempts(m) : handler[a[1]][a[2]] = "succeeded"
  BY DEF OneAttemptOnFirstConnection
<1>1. ASSUME NEW a \in Attempts(m)
      PROVE  /\ a[1] \in Copies /\ a = <<a[1], 0>> /\ Carrier(a[1])
             /\ body[a[1]] = m
  BY <1>1 DEF Attempts, Tracking, Carrier, Trying, Epochs
<1>2. Cardinality(Attempts(m)) <= 1
  <2>1. CASE Attempts(m) = {}
    BY <2>1, FS_EmptySet
  <2>2. CASE Attempts(m) # {}
    <3>1. PICK a \in Attempts(m) : TRUE
      BY <2>2
    <3>2. \A b \in Attempts(m) : b = a
      BY <1>1, <3>1 DEF OneCarrier
    <3>3. Attempts(m) = {a}
      BY <3>1, <3>2
    <3>4. Cardinality({a}) = 1
      BY FS_Singleton
    <3> QED BY <3>3, <3>4
  <2> QED BY <2>1, <2>2
<1>3. ASSUME m \in processed, NEW c \in Copies, body[c] = m
      PROVE  broker[c] \notin {"ready", "dead"}
  BY <1>3 DEF OneCarrier, Carrier
<1>4. ASSUME m \in processed, NEW a \in Attempts(m)
      PROVE  handler[a[1]][a[2]] = "succeeded"
  <2>1. handler[a[1]][0] = "succeeded" /\ a[2] = 0
    BY <1>1, <1>4 DEF OneCarrier
  <2> QED BY <2>1
<1> QED BY <1>2, <1>3, <1>4

\* Duplicates come from lost connections and crashes only: on the first
\* connection, however its handlers interleave and whatever publishes fail, no
\* message is handled twice at a time, nor again once it is processed.
THEOREM NoDuplicateAttempts == Spec => []OneAttemptOnFirstConnection
<1>1. Init => TypeInv /\ Tracking /\ OneCarrier
  BY TypeInvInit, TrackingInit, OneCarrierInit
<1>2. TypeInv /\ Tracking /\ OneCarrier /\ [Next]_vars
        => (TypeInv /\ Tracking /\ OneCarrier)'
  BY TypeInvNext, TrackingNext, OneCarrierNext
<1>3. TypeInv /\ Tracking /\ OneCarrier => OneAttemptOnFirstConnection
  BY OneCarrierSuffices
<1> QED BY <1>1, <1>2, <1>3, PTL DEF Spec

-----------------------------------------------------------------------------
(* The queue implements DeliveryContract.  When an original is acknowledged  *)
(* its message is processed or a later copy is held (Custody), so the queue  *)
(* forgets only what the contract lets it forget.                            *)

Queued == BodiesIn({"ready", "unacked"})
Dead == BodiesIn({"dead"})

\* A held copy of m puts m in the queue or in the dead letter queue.
LEMMA HeldIsQueuedOrDead ==
  ASSUME NEW u \in Copies, NEW m \in Msgs, Held(u), body[u] = m
  PROVE  m \in Queued \/ m \in Dead
BY DEF Held, Queued, Dead, BodiesIn

LEMMA RefinedInit == Init => Contract!Init
BY DEF Init, Contract!Init, BodiesIn

\* Where neither the copies nor the messages change, the contract stutters.
LEMMA Stutters ==
  ASSUME Queued' = Queued, Dead' = Dead, UNCHANGED <<accepted, processed>>
  PROVE  UNCHANGED Contract!vars
BY DEF Contract!vars, Queued, Dead

LEMMA RefinedNext ==
  ASSUME TypeInv, Tracking, Custody, [Next]_vars
  PROVE  [Contract!Next]_(Contract!vars)
<1>0. Steps
  BY StepShapes
<1>a. /\ \A c \in Copies : broker[c] # "unused" => body[c] \in accepted
      /\ accepted \subseteq Msgs
  BY DEF TypeInv, TypeOK, UsedIsAccepted
<1>1. ASSUME NEW m \in Msgs, NEW n \in Copies, Published(m, n)
      PROVE  Contract!Accept(m)
  <2>1. Queued' = Queued \cup {m} /\ Dead' = Dead
    BY <1>1 DEF Published, Stored, Queued, Dead, BodiesIn
  <2> QED BY <1>1, <2>1 DEF Published, Contract!Accept, Queued, Dead
<1>2. ASSUME NEW c \in Copies, Delivered(c) PROVE UNCHANGED Contract!vars
  <2>1. Queued' = Queued /\ Dead' = Dead
    BY <1>2 DEF Delivered, Queued, Dead, BodiesIn, TypeInv, TypeOK
  <2> QED BY <1>2, <2>1, Stutters DEF Delivered
<1>3. ASSUME NEW c \in Copies, NEW e \in Epochs, NEW from \in Stages,
             NEW to \in Stages, Moving(c, e, from, to)
      PROVE  [Contract!Next]_(Contract!vars)
  <2>1. Queued' = Queued /\ Dead' = Dead
    BY <1>3 DEF Moving, Queued, Dead, BodiesIn
  <2>2. CASE to = "succeeded"
    <3>1. body[c] \in accepted /\ body[c] \in Msgs
      BY <1>3, <1>a DEF Moving, Moved, TypeInv, UnusedIsIdle
    <3>2. Contract!Process(body[c])
      BY <1>3, <2>1, <2>2, <3>1 DEF Moving, Contract!Process, Queued, Dead
    <3> QED BY <3>1, <3>2 DEF Contract!Next
  <2>3. CASE to # "succeeded"
    BY <1>3, <2>1, <2>3, Stutters DEF Moving
  <2> QED BY <2>2, <2>3
<1>4. ASSUME NEW c \in Copies, NEW e \in Epochs, NEW from \in Stages,
             NEW to \in Stages, AttemptEnds(c, e, from, to)
      PROVE  [Contract!Next]_(Contract!vars)
  <2>1. CASE broker' = broker
    BY <1>4, <2>1, Stutters DEF AttemptEnds, Queued, Dead, BodiesIn
  <2>2. CASE broker' # broker
    <3>1. broker[c] = "unacked"
      BY <1>4, <2>2 DEF AttemptEnds, Moved, Tracking, Active
    <3>2. broker'[c] = "dead"
      BY <1>4, <2>2 DEF AttemptEnds, Settled, TypeInv, TypeOK
    <3>3. body[c] \in Msgs /\ body[c] \in Queued
      BY <1>a, <3>1 DEF Queued, BodiesIn
    <3>4. Dead' = Dead \cup {body[c]}
      BY <1>4, <3>1, <3>2, <3>3 DEF AttemptEnds, Settled, Dead, BodiesIn
    <3>5. Queued' \in {Queued, Queued \ {body[c]}}
      <4>1. \A m : m # body[c] => (m \in Queued' <=> m \in Queued)
        BY <1>4, <3>1, <3>2 DEF AttemptEnds, Settled, Queued, BodiesIn
      <4> QED BY <3>3, <4>1
    <3>6. Contract!GiveUp(body[c])
      BY <1>4, <3>3, <3>4, <3>5
         DEF AttemptEnds, Contract!GiveUp, Queued, Dead
    <3> QED BY <3>3, <3>6 DEF Contract!Next
  <2> QED BY <2>1, <2>2
<1>5. ASSUME NEW c \in Copies, NEW e \in Epochs, NEW from \in Stages,
             Acked(c, e, from)
      PROVE  [Contract!Next]_(Contract!vars)
  <2>1. CASE broker' = broker
    BY <1>5, <2>1, Stutters DEF Acked, Queued, Dead, BodiesIn
  <2>2. CASE broker' # broker
    <3>1. broker[c] = "unacked" /\ broker'[c] = "acked"
      BY <1>5, <2>2 DEF Acked, Moved, Settled, Tracking, Active, TypeInv, TypeOK
    <3>2. body[c] \in Msgs
      BY <1>a, <3>1
    <3>3. Dead' = Dead
      BY <1>5, <3>1 DEF Acked, Settled, Dead, BodiesIn
    <3>4. \A m : m # body[c] => (m \in Queued' <=> m \in Queued)
      BY <1>5, <3>1 DEF Acked, Settled, Queued, BodiesIn
    <3>5. body[c] \in Queued
      BY <3>1, <3>2 DEF Queued, BodiesIn
    <3>6. CASE body[c] \in Queued'
      <4>1. Queued' = Queued
        BY <3>4, <3>5, <3>6
      <4> QED BY <1>5, <3>3, <4>1, Stutters DEF Acked
    <3>7. CASE body[c] \notin Queued'
      <4>1. Queued' = Queued \ {body[c]}
        BY <3>4, <3>7
      <4>2. body[c] \in processed \cup Dead
        <5>1. CarriedOn(body[c], retry[c])
          BY <1>5 DEF Acked, Moved, Custody, TypeInv, SucceededIsProcessed,
                      CarriedOn
        <5>2. ASSUME NEW u \in Copies, Held(u), body[u] = body[c],
                     retry[u] > retry[c]
              PROVE  body[c] \in Dead
          <6>1. u # c
            BY <5>2 DEF TypeInv, TypeOK
          <6>2. broker'[u] = broker[u] /\ body'[u] = body[c]
            BY <1>5, <5>2, <6>1 DEF Acked, Settled
          <6>3. broker[u] \notin {"ready", "unacked"}
            BY <3>2, <3>7, <6>2 DEF Queued, BodiesIn
          <6> QED BY <3>2, <5>2, <6>3 DEF Held, Dead, BodiesIn
        <5> QED BY <5>1, <5>2 DEF CarriedOn
      <4>3. Contract!Forget(body[c])
        BY <1>5, <3>3, <4>1, <4>2 DEF Acked, Contract!Forget, Queued, Dead
      <4> QED BY <3>2, <4>3 DEF Contract!Next
    <3> QED BY <3>6, <3>7
  <2> QED BY <2>1, <2>2
<1>6. ASSUME NEW c \in Copies, NEW n \in Copies, NEW e \in Epochs,
             NEW to \in Stages, Copied(c, e, n, to)
      PROVE  [Contract!Next]_(Contract!vars)
  <2>1. body[c] \in accepted /\ body[c] \in Msgs
    BY <1>6, <1>a DEF Copied, Moved, TypeInv, UnusedIsIdle
  <2>2. Queued' = Queued \cup {body[c]} /\ Dead' = Dead
    BY <1>6, <2>1 DEF Copied, Stored, Queued, Dead, BodiesIn
  <2>3. CASE body[c] \in Queued
    <3>1. Queued' = Queued
      BY <2>2, <2>3
    <3> QED BY <1>6, <2>2, <3>1, Stutters DEF Copied
  <2>4. CASE body[c] \notin Queued
    <3>1. body[c] \in processed \cup Dead
      BY <2>1, <2>4, HeldIsQueuedOrDead DEF Custody, NoMessageLost
    <3>2. Contract!Revive(body[c])
      BY <1>6, <2>2, <3>1 DEF Copied, Contract!Revive, Queued, Dead
    <3> QED BY <2>1, <3>2 DEF Contract!Next
  <2> QED BY <2>3, <2>4
<1>7. CASE Requeued
  <2>1. ASSUME NEW c \in Copies
        PROVE  /\ broker'[c] \in {"ready", "unacked"}
                    <=> broker[c] \in {"ready", "unacked"}
               /\ broker'[c] = "dead" <=> broker[c] = "dead"
    BY <1>7 DEF Requeued, Requeue
  <2>2. Queued' = Queued /\ Dead' = Dead
    BY <1>7, <2>1 DEF Requeued, Queued, Dead, BodiesIn
  <2> QED BY <1>7, <2>2, Stutters DEF Requeued
<1>8. CASE UNCHANGED vars
  BY <1>8, Stutters DEF vars, Queued, Dead, BodiesIn
<1> QED
  BY <1>0, <1>1, <1>2, <1>3, <1>4, <1>5, <1>6, <1>7, <1>8
     DEF Steps, Contract!Next

\* The retry queue implements at-least-once delivery: whatever connections are
\* lost, publishes fail and consumers crash, every step of rabbitmq.py is one
\* the contract allows, so no message leaves the queue that is neither
\* processed nor dead-lettered.
THEOREM ImplementsContract == Spec => AtLeastOnce
<1>1. Init => TypeInv /\ Tracking /\ Custody /\ Contract!Init
  BY TypeInvInit, TrackingInit, CustodyInit, RefinedInit
<1>2. TypeInv /\ Tracking /\ Custody /\ [Next]_vars
        => (TypeInv /\ Tracking /\ Custody)'
  BY TypeInvNext, TrackingNext, CustodyNext
<1>3. TypeInv /\ Tracking /\ Custody /\ [Next]_vars
        => [Contract!Next]_(Contract!vars)
  BY RefinedNext
<1> QED BY <1>1, <1>2, <1>3, PTL DEF Spec, AtLeastOnce, Contract!Spec

=============================================================================
