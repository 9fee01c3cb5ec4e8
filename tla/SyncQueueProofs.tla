---------------------------- MODULE SyncQueueProofs ----------------------------
(* Theorems about SyncQueue for any number of rows and workers and any lease   *)
(* no shorter than the flush budget, as long as the wall clock does not step.  *)
EXTENDS SyncQueue, FiniteSetTheorems, TLAPS

(* The provider has accepted what a flush is about to mark as delivered. *)
AcceptedIsCaptured == \A w \in Workers : pc[w] = "accepted" => cur[w] \in captured

USE DEF rowVars, workerVars, boundVars

(* Type correctness of the queue's rows, receipts and flushes under every step *)
(* of Flush, crash, operator action and passing of time.                       *)
THEOREM QueueTypeCorrect == Spec => []TypeOK
<1>1. Init => TypeOK
  BY QueueConstants DEF Init, TypeOK, RowStatus, Steps, Holding, NoSnapshot
<1>2. TypeOK /\ [Next]_vars => TypeOK'
  <2> SUFFICES ASSUME TypeOK, [Next]_vars PROVE TypeOK'
    OBVIOUS
  <2> USE QueueConstants DEF TypeOK, RowStatus, Steps, Holding, At, Goto
  <2>1. ASSUME NEW i \in Items, EnqueueSync(i) PROVE TypeOK'
    BY <2>1 DEF EnqueueSync
  <2>2. ASSUME NEW i \in Items, RequeueDeadLetter(i) PROVE TypeOK'
    BY <2>2 DEF RequeueDeadLetter, Requeue
  <2>3. ASSUME NEW w \in Workers, StartFlush(w) PROVE TypeOK'
    BY <2>3 DEF StartFlush
  <2>4. ASSUME NEW w \in Workers, RequeueOversizedMemoryCaptures(w) PROVE TypeOK'
    BY <2>4 DEF RequeueOversizedMemoryCaptures, Requeue
  <2>5. ASSUME NEW w \in Workers, recoverStaleQueueClaims(w) PROVE TypeOK'
    BY <2>5 DEF recoverStaleQueueClaims, Stale
  <2>6. ASSUME NEW w \in Workers, DueQueue(w) PROVE TypeOK'
    BY <2>6 DEF DueQueue, Due
  <2>7. ASSUME NEW w \in Workers, NEW i \in Items, ClaimQueue(w, i) PROVE TypeOK'
    BY <2>7 DEF ClaimQueue
  <2>8. ASSUME NEW w \in Workers, NEW i \in Items, SkipItem(w, i) PROVE TypeOK'
    BY <2>8 DEF SkipItem
  <2>9. ASSUME NEW w \in Workers, EndFlush(w) PROVE TypeOK'
    BY <2>9 DEF EndFlush, Stop, NoSnapshot
  <2>10. ASSUME NEW w \in Workers, CallSucceeds(w) PROVE TypeOK'
    BY <2>10 DEF CallSucceeds
  <2>11. ASSUME NEW w \in Workers, CallFails(w) PROVE TypeOK'
    BY <2>11 DEF CallFails
  <2>12. ASSUME NEW w \in Workers, MarkDelivered(w) PROVE TypeOK'
    BY <2>12 DEF MarkDelivered
  <2>13. ASSUME NEW w \in Workers, MarkMemorySync(w) PROVE TypeOK'
    BY <2>13 DEF MarkMemorySync
  <2>14. ASSUME NEW w \in Workers, MarkDeadLetter(w) PROVE TypeOK'
    BY <2>14 DEF MarkDeadLetter, DeadLetter
  <2>15. ASSUME NEW w \in Workers, MarkRetry(w) PROVE TypeOK'
    BY <2>15 DEF MarkRetry
  <2>16. ASSUME NEW w \in Workers, MarkFails(w) PROVE TypeOK'
    BY <2>16 DEF MarkFails
  <2>17. ASSUME NEW w \in Workers, Crash(w) PROVE TypeOK'
    BY <2>17 DEF Crash, Stop, NoSnapshot
  <2>18. CASE Tick
    BY <2>18 DEF Tick, Older, Sooner
  <2>19. CASE WallJump
    BY <2>19 DEF WallJump
  <2>20. CASE UNCHANGED vars
    BY <2>20 DEF vars
  <2> QED
    BY <2>1, <2>2, <2>3, <2>4, <2>5, <2>6, <2>7, <2>8, <2>9, <2>10, <2>11, <2>12,
       <2>13, <2>14, <2>15, <2>16, <2>17, <2>18, <2>19, <2>20 DEF Next, FlushStep
<1> QED
  BY <1>1, <1>2, PTL DEF Spec

-------------------------------------------------------------------------------
(* The inductive invariant.  ExclusiveClaim alone is not inductive: that       *)
(* recoverStaleQueueClaims and ClaimQueue leave live holders alone follows     *)
(* from LiveClaim (status sending, claimed less than a lease ago), and the     *)
(* receipts need to know what "accepted" means.                                *)
ClaimInvariant ==
    /\ jumps = 0
    /\ LiveClaim
    /\ ExclusiveClaim
    /\ AcceptedIsCaptured
    /\ DeliveredHasReceipt

LEMMA ClaimInvariantInitially ==
  Init => ClaimInvariant
BY QueueConstants
   DEF Init, ClaimInvariant, LiveClaim, ExclusiveClaim, AcceptedIsCaptured,
       DeliveredHasReceipt, Live, Holding

(* One flush, crash, operator action or tick preserves the claim invariant     *)
(* when the wall clock cannot step.                                            *)
LEMMA ClaimInvariantStep ==
  ASSUME MaxJumps = 0, TypeOK, TypeOK', ClaimInvariant, [Next]_vars
  PROVE  ClaimInvariant'
<1> USE QueueConstants
    DEF TypeOK, ClaimInvariant, LiveClaim, ExclusiveClaim, AcceptedIsCaptured,
        DeliveredHasReceipt, Live, Holding, At, Goto, RowStatus, Steps
<1>1. ASSUME NEW i \in Items, EnqueueSync(i) PROVE ClaimInvariant'
  BY <1>1 DEF EnqueueSync
<1>2. ASSUME NEW i \in Items, RequeueDeadLetter(i) PROVE ClaimInvariant'
  BY <1>2 DEF RequeueDeadLetter, Requeue
<1>3. ASSUME NEW w \in Workers, StartFlush(w) PROVE ClaimInvariant'
  BY <1>3 DEF StartFlush
<1>4. ASSUME NEW w \in Workers, RequeueOversizedMemoryCaptures(w) PROVE ClaimInvariant'
  BY <1>4 DEF RequeueOversizedMemoryCaptures, Requeue
<1>5. ASSUME NEW w \in Workers, recoverStaleQueueClaims(w) PROVE ClaimInvariant'
  BY <1>5 DEF recoverStaleQueueClaims, Stale
<1>6. ASSUME NEW w \in Workers, DueQueue(w) PROVE ClaimInvariant'
  BY <1>6 DEF DueQueue
<1>7. ASSUME NEW w \in Workers, NEW i \in Items, ClaimQueue(w, i) PROVE ClaimInvariant'
  BY <1>7 DEF ClaimQueue
<1>8. ASSUME NEW w \in Workers, NEW i \in Items, SkipItem(w, i) PROVE ClaimInvariant'
  BY <1>8 DEF SkipItem
<1>9. ASSUME NEW w \in Workers, EndFlush(w) PROVE ClaimInvariant'
  BY <1>9 DEF EndFlush, Stop
<1>10. ASSUME NEW w \in Workers, CallSucceeds(w) PROVE ClaimInvariant'
  BY <1>10 DEF CallSucceeds
<1>11. ASSUME NEW w \in Workers, CallFails(w) PROVE ClaimInvariant'
  BY <1>11 DEF CallFails
<1>12. ASSUME NEW w \in Workers, MarkDelivered(w) PROVE ClaimInvariant'
  BY <1>12 DEF MarkDelivered
<1>13. ASSUME NEW w \in Workers, MarkMemorySync(w) PROVE ClaimInvariant'
  BY <1>13 DEF MarkMemorySync
<1>14. ASSUME NEW w \in Workers, MarkDeadLetter(w) PROVE ClaimInvariant'
  BY <1>14 DEF MarkDeadLetter, DeadLetter
<1>15. ASSUME NEW w \in Workers, MarkRetry(w) PROVE ClaimInvariant'
  BY <1>15 DEF MarkRetry
<1>16. ASSUME NEW w \in Workers, MarkFails(w) PROVE ClaimInvariant'
  BY <1>16 DEF MarkFails
<1>17. ASSUME NEW w \in Workers, Crash(w) PROVE ClaimInvariant'
  BY <1>17 DEF Crash, Stop
<1>18. CASE Tick
  BY <1>18 DEF Tick, Older, Sooner
<1>19. CASE WallJump
  BY <1>19 DEF WallJump
<1>20. CASE UNCHANGED vars
  BY <1>20 DEF vars
<1> QED
  BY <1>1, <1>2, <1>3, <1>4, <1>5, <1>6, <1>7, <1>8, <1>9, <1>10, <1>11, <1>12,
     <1>13, <1>14, <1>15, <1>16, <1>17, <1>18, <1>19, <1>20 DEF Next, FlushStep

(* The lease protocol of DueQueue and ClaimQueue: without wall-clock steps,    *)
(* two flushes with live contexts never hold the same row.                     *)
THEOREM ExclusiveClaimHolds ==
  ASSUME MaxJumps = 0
  PROVE  Spec => []ExclusiveClaim
<1>1. TypeOK /\ TypeOK' /\ ClaimInvariant /\ [Next]_vars => ClaimInvariant'
  BY ClaimInvariantStep
<1>2. ClaimInvariant => ExclusiveClaim
  BY DEF ClaimInvariant
<1> QED
  BY <1>1, <1>2, ClaimInvariantInitially, QueueTypeCorrect, PTL DEF Spec

(* MarkDelivered and its receipt: without wall-clock steps a row is delivered  *)
(* exactly when it has a receipt, and every receipt is for something the       *)
(* provider accepted; no late MarkRetry or MarkDeadLetter undoes a delivery.   *)
THEOREM DeliveredHasReceiptHolds ==
  ASSUME MaxJumps = 0
  PROVE  Spec => []DeliveredHasReceipt
<1>1. TypeOK /\ TypeOK' /\ ClaimInvariant /\ [Next]_vars => ClaimInvariant'
  BY ClaimInvariantStep
<1>2. ClaimInvariant => DeliveredHasReceipt
  BY DEF ClaimInvariant
<1> QED
  BY <1>1, <1>2, ClaimInvariantInitially, QueueTypeCorrect, PTL DEF Spec

-------------------------------------------------------------------------------
(* No step takes a receipt back, and a flush that holds a row goes on holding  *)
(* that row or none.                                                           *)
LEMMA HoldingStep ==
  ASSUME TypeOK, [Next]_vars
  PROVE  /\ receipts \subseteq receipts'
         /\ \A w \in Workers : pc[w] \in Holding /\ pc'[w] \in Holding => cur'[w] = cur[w]
<1> USE DEF TypeOK, Holding, At, Goto, Steps
<1>1. ASSUME NEW i \in Items, EnqueueSync(i) \/ RequeueDeadLetter(i)
      PROVE  receipts' = receipts /\ cur' = cur
  BY <1>1 DEF EnqueueSync, RequeueDeadLetter, Requeue
<1>2. ASSUME NEW u \in Workers, (\E i \in Items : ClaimQueue(u, i)) \/ EndFlush(u) \/ Crash(u)
      PROVE  /\ receipts \subseteq receipts'
             /\ \A w \in Workers : pc[w] \in Holding /\ pc'[w] \in Holding => cur'[w] = cur[w]
  BY <1>2 DEF ClaimQueue, EndFlush, Crash, Stop
<1>3. ASSUME NEW u \in Workers,
             \/ StartFlush(u) \/ RequeueOversizedMemoryCaptures(u) \/ recoverStaleQueueClaims(u)
             \/ DueQueue(u) \/ (\E i \in Items : SkipItem(u, i))
             \/ CallSucceeds(u) \/ CallFails(u) \/ MarkMemorySync(u)
             \/ MarkDeadLetter(u) \/ MarkRetry(u) \/ MarkFails(u)
      PROVE  receipts' = receipts /\ cur' = cur
  <2>1. CASE StartFlush(u) \/ RequeueOversizedMemoryCaptures(u) \/ recoverStaleQueueClaims(u) \/ DueQueue(u)
    BY <2>1 DEF StartFlush, RequeueOversizedMemoryCaptures, Requeue, recoverStaleQueueClaims, DueQueue
  <2>2. CASE \E i \in Items : SkipItem(u, i)
    BY <2>2 DEF SkipItem
  <2>3. CASE CallSucceeds(u) \/ CallFails(u) \/ MarkMemorySync(u)
    BY <2>3 DEF CallSucceeds, CallFails, MarkMemorySync
  <2>4. CASE MarkDeadLetter(u) \/ MarkRetry(u) \/ MarkFails(u)
    BY <2>4 DEF MarkDeadLetter, DeadLetter, MarkRetry, MarkFails
  <2> QED
    BY <1>3, <2>1, <2>2, <2>3, <2>4
<1>4. ASSUME NEW u \in Workers, MarkDelivered(u)
      PROVE  receipts \subseteq receipts' /\ cur' = cur
  BY <1>4 DEF MarkDelivered
<1>5. ASSUME Tick \/ WallJump \/ UNCHANGED vars PROVE receipts' = receipts /\ cur' = cur
  BY <1>5 DEF Tick, WallJump, vars
<1> QED
  BY <1>1, <1>2, <1>3, <1>4, <1>5 DEF Next, FlushStep

(* The lease again, as a promise about steps: without wall-clock steps no      *)
(* recovery, late mark or operator action touches a delivered row or takes a   *)
(* row from a flush whose context has not expired (DueQueue, ClaimQueue).      *)
THEOREM NoTakeoverHolds ==
  ASSUME MaxJumps = 0
  PROVE  Spec => NoTakeover
<1>1. TypeOK /\ TypeOK' /\ ClaimInvariant /\ [Next]_vars => ClaimInvariant'
  BY ClaimInvariantStep
<1>2. ASSUME TypeOK, TypeOK', ClaimInvariant, ClaimInvariant', [Next]_vars, NEW i \in Items
      PROVE  /\ status[i] = "delivered" => status'[i] = "delivered"
             /\ \A w \in Workers :
                   Live(w) /\ cur[w] = i /\ status'[i] # "sending" => ~ Live(w)'
  <2>1. status[i] = "delivered" => status'[i] = "delivered"
    BY <1>2, HoldingStep DEF ClaimInvariant, DeliveredHasReceipt
  <2>2. ASSUME NEW w \in Workers, Live(w), cur[w] = i, Live(w)' PROVE status'[i] = "sending"
    <3>1. cur'[w] = i
      BY <1>2, <2>2, HoldingStep DEF Live
    <3> QED
      BY <1>2, <2>2, <3>1 DEF ClaimInvariant, LiveClaim
  <2> QED
    BY <2>1, <2>2
<1>3. TypeOK /\ TypeOK' /\ ClaimInvariant /\ ClaimInvariant' /\ [Next]_vars =>
        [\A i \in Items :
            /\ status[i] = "delivered" => status'[i] = "delivered"
            /\ \A w \in Workers :
                  Live(w) /\ cur[w] = i /\ status'[i] # "sending" => ~ Live(w)']_vars
  BY <1>2
<1> QED
  BY <1>1, <1>3, ClaimInvariantInitially, QueueTypeCorrect, PTL DEF Spec, NoTakeover

-------------------------------------------------------------------------------
(* The flushes that may still count a failed attempt of a row without          *)
(* dead-lettering it: the snapshot they decide on leaves them an attempt, and  *)
(* the row is ahead of them in their batch or in their hand.                   *)
Retriers(i) ==
    {w \in Workers :
        /\ snap[w][i] + 1 < MaxAttempts
        /\ i \in batch[w] \/ (pc[w] \in {"send", "failed"} /\ cur[w] = i)}

(* AttemptsBounded is not inductive: what bounds the attempts of a row that is *)
(* not given up is that every further retry uses up one of its retriers.       *)
AttemptsInvariant ==
    /\ \A w \in Workers : pc[w] \in Holding => cur[w] \notin batch[w]
    /\ AttemptsBounded
    /\ \A i \in Items : status[i] # "dead_letter" =>
          attempts[i] + Cardinality(Retriers(i)) <= MaxAttempts + Cardinality(Workers) - 2

LEMMA RetriersFinite ==
  ASSUME NEW S, S \subseteq Workers
  PROVE  IsFiniteSet(S) /\ Cardinality(S) \in Nat /\ Cardinality(S) <= Cardinality(Workers)
         /\ Cardinality(Workers) \in Nat \ {0}
BY QueueConstants, FS_Subset, FS_CardinalityType, FS_EmptySet

(* A row that keeps its attempts and its retriers, or loses some of them,      *)
(* keeps its bound.                                                            *)
LEMMA FewerRetriers ==
  ASSUME TypeOK, AttemptsInvariant, NEW i \in Items,
         attempts'[i] = attempts[i], Retriers(i)' \subseteq Retriers(i),
         status[i] # "dead_letter"
  PROVE  /\ attempts'[i] <= MaxAttempts + Cardinality(Workers) - 1
         /\ attempts'[i] + Cardinality(Retriers(i)') <= MaxAttempts + Cardinality(Workers) - 2
<1>1. Retriers(i) \subseteq Workers
  BY DEF Retriers
<1>2. Cardinality(Retriers(i)') <= Cardinality(Retriers(i))
  BY <1>1, RetriersFinite, FS_Subset
<1>3. Cardinality(Retriers(i)) \in Nat /\ Cardinality(Retriers(i)') \in Nat /\ Cardinality(Workers) \in Nat
  BY <1>1, RetriersFinite
<1>4. attempts[i] + Cardinality(Retriers(i)) <= MaxAttempts + Cardinality(Workers) - 2
  BY DEF AttemptsInvariant
<1> QED
  BY <1>2, <1>3, <1>4, QueueConstants DEF TypeOK

(* A row put back starts again at none, whatever snapshots are about.          *)
LEMMA FreshRow ==
  ASSUME TypeOK', NEW i \in Items, attempts'[i] = 0
  PROVE  /\ attempts'[i] <= MaxAttempts + Cardinality(Workers) - 1
         /\ attempts'[i] + Cardinality(Retriers(i)') <= MaxAttempts + Cardinality(Workers) - 2
<1>1. Retriers(i)' \subseteq Workers
  BY DEF Retriers
<1>2. MaxAttempts = 1 => Retriers(i)' = {}
  BY QueueConstants DEF Retriers, TypeOK
<1>3. MaxAttempts = 1 => Cardinality(Retriers(i)') = 0
  BY <1>2, FS_EmptySet
<1> QED
  BY <1>1, <1>3, RetriersFinite, QueueConstants

(* The bound of one row. *)
RowBounded(i) ==
    /\ attempts[i] <= MaxAttempts + Cardinality(Workers) - 1
    /\ status[i] # "dead_letter" =>
          attempts[i] + Cardinality(Retriers(i)) <= MaxAttempts + Cardinality(Workers) - 2

LEMMA AttemptsInvariantInitially ==
  Init => AttemptsInvariant
<1> SUFFICES ASSUME Init PROVE AttemptsInvariant
  OBVIOUS
<1>1. ASSUME NEW i \in Items PROVE Retriers(i) = {}
  BY DEF Init, Retriers
<1>2. Cardinality({}) = 0 /\ Cardinality(Workers) \in Nat \ {0}
  BY RetriersFinite, FS_EmptySet
<1>3. \A i \in Items : attempts[i] \in {0, MaxAttempts} /\ (status[i] # "dead_letter" => attempts[i] = 0)
  BY DEF Init
<1>4. \A i \in Items : Cardinality(Retriers(i)) = 0
  BY <1>1, <1>2
<1>5. AttemptsBounded
  BY <1>2, <1>3, QueueConstants DEF AttemptsBounded
<1>6. \A i \in Items : status[i] # "dead_letter" =>
          attempts[i] + Cardinality(Retriers(i)) <= MaxAttempts + Cardinality(Workers) - 2
  BY <1>2, <1>3, <1>4, QueueConstants
<1> QED
  BY <1>5, <1>6 DEF Init, AttemptsInvariant, Holding

(* Claiming, skipping, ending, calling and marking a delivery take retriers    *)
(* away from a row or leave them, and its attempts as they are.                *)
LEMMA SameAttempts ==
  ASSUME TypeOK, TypeOK', AttemptsInvariant, attempts' = attempts,
         NEW i \in Items, Retriers(i)' \subseteq Retriers(i),
         status'[i] # "dead_letter" => status[i] # "dead_letter"
  PROVE  RowBounded(i)'
<1>1. CASE status[i] = "dead_letter"
  BY <1>1 DEF RowBounded, AttemptsInvariant, AttemptsBounded
<1>2. CASE status[i] # "dead_letter"
  BY <1>2, FewerRetriers DEF RowBounded
<1> QED
  BY <1>1, <1>2

(* DueQueue: a flush that reads a row joins its retriers only while the row's  *)
(* own attempts leave it one.                                                  *)
LEMMA SelectKeepsBound ==
  ASSUME TypeOK, TypeOK', AttemptsInvariant, NEW w \in Workers, DueQueue(w), NEW i \in Items
  PROVE  RowBounded(i)'
<1>1. PICK rows \in SUBSET Due :
        /\ batch' = [batch EXCEPT ![w] = rows]
        /\ snap' = [snap EXCEPT ![w] = [j \in Items |-> IF j \in rows THEN attempts[j] ELSE 0]]
  BY DEF DueQueue
<1>2. /\ pc[w] = "select" /\ pc' = [pc EXCEPT ![w] = "loop"]
      /\ attempts' = attempts /\ status' = status /\ cur' = cur
  BY DEF DueQueue, At
<1>3. CASE i \in rows /\ attempts[i] + 1 < MaxAttempts
  <2>1. Retriers(i)' \subseteq Workers
    BY DEF Retriers
  <2>2. /\ Cardinality(Retriers(i)') \in Nat /\ Cardinality(Workers) \in Nat \ {0}
        /\ Cardinality(Retriers(i)') <= Cardinality(Workers)
    BY <2>1, RetriersFinite
  <2>3. attempts'[i] \in Nat /\ attempts'[i] + 1 < MaxAttempts
    BY <1>2, <1>3 DEF TypeOK
  <2> QED
    BY <2>2, <2>3, QueueConstants DEF RowBounded
<1>4. CASE ~ (i \in rows /\ attempts[i] + 1 < MaxAttempts)
  <2>1. ASSUME NEW u \in Workers, u \in Retriers(i)' PROVE u \in Retriers(i)
    <3>1. u # w
      BY <1>1, <1>2, <1>4, <2>1 DEF Retriers, TypeOK
    <3> QED
      BY <1>1, <1>2, <2>1, <3>1 DEF Retriers, TypeOK
  <2>2. Retriers(i)' \subseteq Retriers(i)
    BY <2>1 DEF Retriers
  <2> QED
    BY <1>2, <2>2, SameAttempts
<1> QED
  BY <1>3, <1>4

(* MarkRetry: the attempt that is counted is the flush's own, and it is not a  *)
(* retrier of the row any more.                                                *)
LEMMA RetryKeepsBound ==
  ASSUME TypeOK, TypeOK', ClaimInvariant, AttemptsInvariant,
         NEW w \in Workers, MarkRetry(w), NEW i \in Items
  PROVE  RowBounded(i)'
<1> USE DEF TypeOK
<1>1. /\ pc[w] = "failed" /\ left[w] > 0 /\ ~ Exhausted(w) /\ cur[w] \in Items
      /\ pc' = [pc EXCEPT ![w] = "loop"] /\ cur' = cur /\ batch' = batch /\ snap' = snap
      /\ status' = [status EXCEPT ![cur[w]] = "pending"]
      /\ attempts' = [attempts EXCEPT ![cur[w]] = @ + 1]
  BY DEF MarkRetry, At, Goto, Holding
<1>2. CASE i = cur[w]
  <2>1. status[i] = "sending" /\ i \notin batch[w]
    BY <1>1, <1>2 DEF ClaimInvariant, LiveClaim, Live, Holding, AttemptsInvariant
  <2>2. w \in Retriers(i)
    BY <1>1, <1>2, QueueConstants DEF Retriers, Exhausted
  <2>3. Retriers(i)' = Retriers(i) \ {w}
    BY <1>1, <1>2, <2>1 DEF Retriers
  <2>4. IsFiniteSet(Retriers(i)) /\ Cardinality(Retriers(i)) \in Nat /\ Cardinality(Workers) \in Nat
    BY RetriersFinite DEF Retriers
  <2>5. Cardinality(Retriers(i)') = Cardinality(Retriers(i)) - 1 /\ Cardinality(Retriers(i)') \in Nat
    BY <2>2, <2>3, <2>4, FS_RemoveElement, FS_CardinalityType
  <2>6. attempts[i] + Cardinality(Retriers(i)) <= MaxAttempts + Cardinality(Workers) - 2
    BY <2>1 DEF AttemptsInvariant
  <2>7. attempts'[i] = attempts[i] + 1 /\ attempts[i] \in Nat
    BY <1>1, <1>2
  <2> QED
    BY <2>4, <2>5, <2>6, <2>7, QueueConstants DEF RowBounded
<1>3. CASE i # cur[w]
  <2>1. Retriers(i)' \subseteq Retriers(i) /\ attempts'[i] = attempts[i] /\ status'[i] = status[i]
    BY <1>1, <1>3 DEF Retriers
  <2> QED
    BY <2>1, FewerRetriers DEF RowBounded, AttemptsInvariant, AttemptsBounded
<1> QED
  BY <1>2, <1>3

(* MarkDeadLetter counts one attempt too many at most: the row was in hand.    *)
LEMMA DeadLetterKeepsBound ==
  ASSUME TypeOK, TypeOK', ClaimInvariant, AttemptsInvariant,
         NEW w \in Workers, MarkDeadLetter(w), NEW i \in Items
  PROVE  RowBounded(i)'
<1> USE DEF TypeOK
<1>1. /\ pc[w] \in {"send", "failed"} /\ left[w] > 0 /\ cur[w] \in Items
      /\ pc' = [pc EXCEPT ![w] = "loop"] /\ cur' = cur /\ batch' = batch /\ snap' = snap
      /\ status' = [status EXCEPT ![cur[w]] = "dead_letter"]
      /\ attempts' = [attempts EXCEPT ![cur[w]] = @ + 1]
  BY DEF MarkDeadLetter, DeadLetter, At, Goto, Holding
<1>2. CASE i = cur[w]
  <2>1. status[i] = "sending"
    BY <1>1, <1>2 DEF ClaimInvariant, LiveClaim, Live, Holding
  <2>2. Cardinality(Retriers(i)) \in Nat /\ Cardinality(Workers) \in Nat
    BY RetriersFinite DEF Retriers
  <2>3. attempts[i] + Cardinality(Retriers(i)) <= MaxAttempts + Cardinality(Workers) - 2
    BY <2>1 DEF AttemptsInvariant
  <2>4. attempts'[i] = attempts[i] + 1 /\ attempts[i] \in Nat /\ status'[i] = "dead_letter"
    BY <1>1, <1>2
  <2> QED
    BY <2>2, <2>3, <2>4, QueueConstants DEF RowBounded
<1>3. CASE i # cur[w]
  <2>1. Retriers(i)' \subseteq Retriers(i) /\ attempts'[i] = attempts[i] /\ status'[i] = status[i]
    BY <1>1, <1>3 DEF Retriers
  <2> QED
    BY <2>1, FewerRetriers DEF RowBounded, AttemptsInvariant, AttemptsBounded
<1> QED
  BY <1>2, <1>3

(* A requeue of any rows. *)
LEMMA RequeueKeepsBound ==
  ASSUME TypeOK, TypeOK', AttemptsInvariant, NEW rows \in SUBSET Items, Requeue(rows),
         NEW i \in Items, Retriers(i)' \subseteq Retriers(i)
  PROVE  RowBounded(i)'
<1>1. CASE i \in rows
  <2>1. attempts'[i] = 0
    BY <1>1 DEF Requeue
  <2> QED
    BY <2>1, FreshRow DEF RowBounded
<1>2. CASE i \notin rows
  <2>1. attempts'[i] = attempts[i] /\ status'[i] = status[i]
    BY <1>2 DEF Requeue
  <2> QED
    BY <2>1, FewerRetriers DEF RowBounded, AttemptsInvariant, AttemptsBounded
<1> QED
  BY <1>1, <1>2

LEMMA RowsStayBounded ==
  ASSUME TypeOK, TypeOK', ClaimInvariant, AttemptsInvariant, [Next]_vars, NEW i \in Items
  PROVE  RowBounded(i)'
<1> USE DEF TypeOK, At, Goto, Holding
<1>1. ASSUME NEW j \in Items, EnqueueSync(j) PROVE RowBounded(i)'
  <2>1. Retriers(i)' = Retriers(i) /\ attempts' = attempts
        /\ (status'[i] # "dead_letter" => status[i] # "dead_letter")
    BY <1>1 DEF EnqueueSync, Retriers
  <2> QED
    BY <2>1, SameAttempts
<1>2. ASSUME NEW j \in Items, RequeueDeadLetter(j) PROVE RowBounded(i)'
  <2>1. Requeue({j}) /\ Retriers(i)' = Retriers(i)
    BY <1>2 DEF RequeueDeadLetter, Retriers
  <2> QED
    BY <2>1, RequeueKeepsBound
<1>3. ASSUME NEW w \in Workers, StartFlush(w) PROVE RowBounded(i)'
  <2>1. Retriers(i)' \subseteq Retriers(i) /\ attempts' = attempts /\ status' = status
    BY <1>3 DEF StartFlush, Retriers
  <2> QED
    BY <2>1, SameAttempts
<1>4. ASSUME NEW w \in Workers, RequeueOversizedMemoryCaptures(w) PROVE RowBounded(i)'
  <2> DEFINE rows == {j \in Memory \cap oversized : status[j] = "dead_letter"}
  <2>1. Requeue(rows) /\ Retriers(i)' \subseteq Retriers(i)
    BY <1>4 DEF RequeueOversizedMemoryCaptures, Retriers
  <2>2. PICK picked \in SUBSET Items : picked = rows
    BY QueueConstants
  <2> QED
    BY <2>1, <2>2, RequeueKeepsBound
<1>5. ASSUME NEW w \in Workers, recoverStaleQueueClaims(w) PROVE RowBounded(i)'
  <2>1. Retriers(i)' \subseteq Retriers(i) /\ attempts' = attempts
        /\ (status'[i] # "dead_letter" => status[i] # "dead_letter")
    BY <1>5 DEF recoverStaleQueueClaims, Stale, Retriers
  <2> QED
    BY <2>1, SameAttempts
<1>6. ASSUME NEW w \in Workers, DueQueue(w) PROVE RowBounded(i)'
  BY <1>6, SelectKeepsBound
<1>7. ASSUME NEW w \in Workers, NEW j \in Items, ClaimQueue(w, j) PROVE RowBounded(i)'
  <2>1. Retriers(i)' \subseteq Retriers(i) /\ attempts' = attempts
        /\ (status'[i] # "dead_letter" => status[i] # "dead_letter")
    BY <1>7 DEF ClaimQueue, Retriers
  <2> QED
    BY <2>1, SameAttempts
<1>8. ASSUME NEW w \in Workers, NEW j \in Items, SkipItem(w, j) PROVE RowBounded(i)'
  <2>1. Retriers(i)' \subseteq Retriers(i) /\ attempts' = attempts /\ status' = status
    BY <1>8 DEF SkipItem, Retriers
  <2> QED
    BY <2>1, SameAttempts
<1>9. ASSUME NEW w \in Workers, EndFlush(w) \/ Crash(w) PROVE RowBounded(i)'
  <2>1. Retriers(i)' \subseteq Retriers(i) /\ attempts' = attempts /\ status' = status
    BY <1>9 DEF EndFlush, Crash, Stop, Retriers
  <2> QED
    BY <2>1, SameAttempts
<1>10. ASSUME NEW w \in Workers, CallSucceeds(w) \/ CallFails(w) PROVE RowBounded(i)'
  <2>1. Retriers(i)' \subseteq Retriers(i) /\ attempts' = attempts /\ status' = status
    BY <1>10 DEF CallSucceeds, CallFails, Retriers
  <2> QED
    BY <2>1, SameAttempts
<1>11. ASSUME NEW w \in Workers, MarkDelivered(w) PROVE RowBounded(i)'
  <2>1. status[cur[w]] = "sending"
    BY <1>11 DEF MarkDelivered, ClaimInvariant, LiveClaim, Live
  <2>2. Retriers(i)' \subseteq Retriers(i) /\ attempts' = attempts
        /\ (status'[i] # "dead_letter" => status[i] # "dead_letter")
    BY <1>11, <2>1 DEF MarkDelivered, Retriers
  <2> QED
    BY <2>2, SameAttempts
<1>12. ASSUME NEW w \in Workers, MarkMemorySync(w) \/ MarkFails(w) PROVE RowBounded(i)'
  <2>1. Retriers(i)' \subseteq Retriers(i) /\ attempts' = attempts /\ status' = status
    BY <1>12 DEF MarkMemorySync, MarkFails, Retriers
  <2> QED
    BY <2>1, SameAttempts
<1>13. ASSUME NEW w \in Workers, MarkDeadLetter(w) PROVE RowBounded(i)'
  BY <1>13, DeadLetterKeepsBound
<1>14. ASSUME NEW w \in Workers, MarkRetry(w) PROVE RowBounded(i)'
  BY <1>14, RetryKeepsBound
<1>15. CASE Tick \/ WallJump \/ UNCHANGED vars
  <2>1. Retriers(i)' = Retriers(i) /\ attempts' = attempts /\ status' = status
    BY <1>15 DEF Tick, WallJump, vars, Retriers
  <2> QED
    BY <2>1, SameAttempts
<1> QED
  BY <1>1, <1>2, <1>3, <1>4, <1>5, <1>6, <1>7, <1>8, <1>9, <1>10, <1>11, <1>12,
     <1>13, <1>14, <1>15 DEF Next, FlushStep

(* A row in hand has been taken out of the batch. *)
LEMMA HandLeavesBatch ==
  ASSUME TypeOK, \A w \in Workers : pc[w] \in Holding => cur[w] \notin batch[w], [Next]_vars,
         NEW v \in Workers, pc'[v] \in Holding
  PROVE  cur'[v] \notin batch'[v]
<1> USE DEF TypeOK, At, Goto, Holding
<1>1. ASSUME NEW j \in Items, EnqueueSync(j) \/ RequeueDeadLetter(j) PROVE cur'[v] \notin batch'[v]
  BY <1>1 DEF EnqueueSync, RequeueDeadLetter
<1>2. ASSUME NEW w \in Workers,
             StartFlush(w) \/ RequeueOversizedMemoryCaptures(w) \/ recoverStaleQueueClaims(w)
      PROVE cur'[v] \notin batch'[v]
  BY <1>2 DEF StartFlush, RequeueOversizedMemoryCaptures, recoverStaleQueueClaims
<1>3. ASSUME NEW w \in Workers, DueQueue(w) PROVE cur'[v] \notin batch'[v]
  BY <1>3 DEF DueQueue
<1>4. ASSUME NEW w \in Workers, NEW j \in Items, ClaimQueue(w, j) \/ SkipItem(w, j)
      PROVE cur'[v] \notin batch'[v]
  BY <1>4 DEF ClaimQueue, SkipItem
<1>5. ASSUME NEW w \in Workers, EndFlush(w) \/ Crash(w) PROVE cur'[v] \notin batch'[v]
  BY <1>5 DEF EndFlush, Crash, Stop
<1>6. ASSUME NEW w \in Workers, CallSucceeds(w) \/ CallFails(w) PROVE cur'[v] \notin batch'[v]
  BY <1>6 DEF CallSucceeds, CallFails
<1>7. ASSUME NEW w \in Workers, MarkDelivered(w) \/ MarkMemorySync(w) \/ MarkFails(w)
      PROVE cur'[v] \notin batch'[v]
  BY <1>7 DEF MarkDelivered, MarkMemorySync, MarkFails
<1>8. ASSUME NEW w \in Workers, MarkDeadLetter(w) \/ MarkRetry(w) PROVE cur'[v] \notin batch'[v]
  BY <1>8 DEF MarkDeadLetter, DeadLetter, MarkRetry
<1>9. CASE Tick \/ WallJump \/ UNCHANGED vars
  BY <1>9 DEF Tick, WallJump, vars
<1> QED
  BY <1>1, <1>2, <1>3, <1>4, <1>5, <1>6, <1>7, <1>8, <1>9 DEF Next, FlushStep

(* The retries of a row, decided on the attempts a flush has read and not on   *)
(* the row's (retryQueueItem): without wall-clock steps, for any number of     *)
(* flushes, attempts pass the policy's maximum by no more than one for every   *)
(* other flush.                                                                *)
THEOREM AttemptsBoundedHolds ==
  ASSUME MaxJumps = 0
  PROVE  Spec => []AttemptsBounded
<1>1. TypeOK /\ TypeOK' /\ ClaimInvariant /\ [Next]_vars => ClaimInvariant'
  BY ClaimInvariantStep
<1>2. TypeOK /\ TypeOK' /\ ClaimInvariant /\ AttemptsInvariant /\ [Next]_vars => AttemptsInvariant'
  <2> SUFFICES ASSUME TypeOK, TypeOK', ClaimInvariant, AttemptsInvariant, [Next]_vars
               PROVE  AttemptsInvariant'
    OBVIOUS
  <2>1. \A v \in Workers : pc'[v] \in Holding => cur'[v] \notin batch'[v]
    BY HandLeavesBatch DEF AttemptsInvariant
  <2>2. \A i \in Items : RowBounded(i)'
    BY RowsStayBounded
  <2> QED
    BY <2>1, <2>2 DEF AttemptsInvariant, AttemptsBounded, RowBounded, Holding
<1>3. AttemptsInvariant => AttemptsBounded
  BY DEF AttemptsInvariant
<1> QED
  BY <1>1, <1>2, <1>3, ClaimInvariantInitially, AttemptsInvariantInitially, QueueTypeCorrect, PTL DEF Spec
===============================================================================
