------------------------------- MODULE SyncQueue -------------------------------
(* The durable outbound queue: table sync_queue and its receipts               *)
(* (internal/storage/storage.go), drained by Syncer.Flush                      *)
(* (internal/continuity/sync.go) and QueueHandler.Handle                       *)
(* (internal/knowledge/queue.go).  A worker is one flush of one hook or repair *)
(* process; several run at once, share only the database, and may be killed    *)
(* at any point.  Every SQLite statement (or transaction) is one step.         *)
(*                                                                             *)
(* Time is discrete and relative: age[i] is the time since a sending row's     *)
(* updated_at, that is, since its claim (0 in any other status, where nothing  *)
(* reads updated_at), wait[i] the time left until next_retry_at, left[w] what  *)
(* is left of the worker's flush context.  A statement issued on an expired    *)
(* context fails, and so does the provider call.                               *)
EXTENDS Integers, FiniteSets

CONSTANTS
    Items,          \* queue rows, one per idempotency key
    Memory,         \* the rows of operation memory_capture; the others are typed
    Corrupt,        \* memory rows with an unreadable payload or a foreign isolation
    Legacy,         \* memory rows an older version dead-lettered as oversized
    Workers,
    None,
    Lease,          \* queueClaimLease (one minute)
    Budget,         \* the longest flush context (five seconds)
    Limit,          \* the flush's batch limit
    MaxAttempts,    \* policyForOperation(...).maxAttempts
    MaxDelay,       \* policyForOperation(...).maxDelay plus jitter, in ticks
    MaxCrashes,     \* bound on killed workers
    MaxJumps        \* bound on forward steps of the wall clock

ASSUME QueueConstants ==
    /\ Memory \subseteq Items /\ Corrupt \subseteq Memory /\ Legacy \subseteq Memory
    /\ None \notin Items
    /\ IsFiniteSet(Workers) /\ Workers # {}
    /\ Lease \in Nat /\ Budget \in Nat /\ 0 < Budget /\ Budget <= Lease
    /\ Limit \in Nat \ {0} /\ MaxAttempts \in Nat \ {0} /\ MaxDelay \in Nat \ {0}
    /\ MaxCrashes \in Nat /\ MaxJumps \in Nat

VARIABLES
    status, attempts, wait, age,    \* the columns of each row
    oversized,      \* last_error is the provider's "Too big" answer
    receipts,       \* rows with a queue_receipts entry
    captured,       \* rows the provider has accepted at least once
    synced,         \* knowledge_registry.last_memory_sync_at, as a stamp
    clock,          \* the last stamp given out
    pc, cur, left, batch, snap,     \* each flush: step, row in hand, context, items read
    registry,       \* the registry snapshot its QueueHandler was built with
    crashes, jumps

rowVars    == <<status, attempts, wait, age, oversized>>
workerVars == <<pc, cur, left, batch, snap, registry>>
boundVars  == <<crashes, jumps>>
vars == <<rowVars, receipts, captured, synced, clock, workerVars, boundVars>>

RowStatus == {"absent", "pending", "sending", "delivered", "dead_letter"}
Steps     == {"idle", "requeue", "recover", "select", "loop", "send",
              "accepted", "failed", "delivered"}
Holding   == {"send", "accepted", "failed"}

NoSnapshot == [i \in Items |-> 0]

Init ==
    /\ status = [i \in Items |-> IF i \in Legacy THEN "dead_letter" ELSE "absent"]
    /\ attempts = [i \in Items |-> IF i \in Legacy THEN MaxAttempts ELSE 0]
    /\ wait = [i \in Items |-> 0]
    /\ age = [i \in Items |-> 0]
    /\ oversized = Legacy
    /\ receipts = {} /\ captured = {}
    /\ synced = 0 /\ clock = 0
    /\ pc = [w \in Workers |-> "idle"]
    /\ cur = [w \in Workers |-> None]
    /\ left = [w \in Workers |-> 0]
    /\ batch = [w \in Workers |-> {}]
    /\ snap = [w \in Workers |-> NoSnapshot]
    /\ registry = [w \in Workers |-> 0]
    /\ crashes = 0 /\ jumps = 0

-------------------------------------------------------------------------------
(* EnqueueSync, behind QueueCapture and QueueOperation: ON CONFLICT DO NOTHING, *)
(* so only a key the table does not hold yet makes a row.                      *)
EnqueueSync(i) ==
    /\ status[i] = "absent"
    /\ status' = [status EXCEPT ![i] = "pending"]
    /\ age' = [age EXCEPT ![i] = 0]
    /\ UNCHANGED <<attempts, wait, oversized, receipts, captured, synced, clock,
                   workerVars, boundVars>>

(* A dead-letter row put back: attempts, next_retry_at and last_error cleared. *)
Requeue(rows) ==
    /\ status' = [i \in Items |-> IF i \in rows THEN "pending" ELSE status[i]]
    /\ attempts' = [i \in Items |-> IF i \in rows THEN 0 ELSE attempts[i]]
    /\ wait' = [i \in Items |-> IF i \in rows THEN 0 ELSE wait[i]]
    /\ age' = [i \in Items |-> IF i \in rows THEN 0 ELSE age[i]]
    /\ oversized' = oversized \ rows

(* Mutated RequeueDeadLetter: the status of the row is not looked at. *)
RequeueAnyRow(i) ==
    /\ status[i] # "absent"
    /\ Requeue({i})
    /\ UNCHANGED <<receipts, captured, synced, clock, workerVars, boundVars>>

(* RequeueDeadLetter, the operator's explicit repair of one row. *)
RequeueDeadLetter(i) ==
    /\ status[i] = "dead_letter"
    /\ Requeue({i})
    /\ UNCHANGED <<receipts, captured, synced, clock, workerVars, boundVars>>

-------------------------------------------------------------------------------
(* Flush.  Becoming idle forgets everything the process held in memory.        *)
Stop(w) ==
    /\ pc' = [pc EXCEPT ![w] = "idle"]
    /\ cur' = [cur EXCEPT ![w] = None]
    /\ left' = [left EXCEPT ![w] = 0]
    /\ batch' = [batch EXCEPT ![w] = {}]
    /\ snap' = [snap EXCEPT ![w] = NoSnapshot]
    /\ registry' = [registry EXCEPT ![w] = 0]

Goto(w, step) ==
    /\ pc' = [pc EXCEPT ![w] = step]
    /\ UNCHANGED <<cur, left, batch, snap, registry>>

At(w, step) == pc[w] = step /\ left[w] > 0

(* A process starts a flush: the registry has been read for its QueueHandler   *)
(* and the context gets its deadline.                                          *)
StartFlush(w) ==
    /\ pc[w] = "idle"
    /\ pc' = [pc EXCEPT ![w] = "requeue"]
    /\ left' = [left EXCEPT ![w] = Budget]
    /\ registry' = [registry EXCEPT ![w] = synced]
    /\ UNCHANGED <<rowVars, receipts, captured, synced, clock, cur, batch, snap, boundVars>>

RequeueOversizedMemoryCaptures(w) ==
    /\ At(w, "requeue")
    /\ Requeue({i \in Memory \cap oversized : status[i] = "dead_letter"})
    /\ Goto(w, "recover")
    /\ UNCHANGED <<receipts, captured, synced, clock, boundVars>>

(* Mutated Stale: without the lease, and with the wrong status. *)
StaleAtOnce(i)  == status[i] = "sending"
StalePending(i) == status[i] = "pending" /\ age[i] >= Lease

Stale(i) == status[i] = "sending" /\ age[i] >= Lease

recoverStaleQueueClaims(w) ==
    /\ At(w, "recover")
    /\ status' = [i \in Items |-> IF Stale(i) THEN "pending" ELSE status[i]]
    /\ age' = [i \in Items |-> IF Stale(i) THEN 0 ELSE age[i]]
    /\ Goto(w, "select")
    /\ UNCHANGED <<attempts, wait, oversized, receipts, captured, synced, clock, boundVars>>

Due == {i \in Items : status[i] = "pending" /\ wait[i] = 0}

(* DueQueue's SELECT: the rows and the attempts they have NOW are copied. *)
DueQueue(w) ==
    /\ At(w, "select")
    /\ \E rows \in SUBSET Due :
          /\ Cardinality(rows) = IF Cardinality(Due) < Limit THEN Cardinality(Due) ELSE Limit
          /\ batch' = [batch EXCEPT ![w] = rows]
          /\ snap' = [snap EXCEPT ![w] =
                        [i \in Items |-> IF i \in rows THEN attempts[i] ELSE 0]]
    /\ pc' = [pc EXCEPT ![w] = "loop"]
    /\ UNCHANGED <<rowVars, receipts, captured, synced, clock, cur, left, registry, boundVars>>

(* ClaimQueue: UPDATE ... WHERE status='pending'. *)
ClaimQueue(w, i) ==
    /\ At(w, "loop")
    /\ i \in batch[w]
    /\ status[i] = "pending"
    /\ status' = [status EXCEPT ![i] = "sending"]
    /\ age' = [age EXCEPT ![i] = 0]
    /\ pc' = [pc EXCEPT ![w] = "send"]
    /\ cur' = [cur EXCEPT ![w] = i]
    /\ batch' = [batch EXCEPT ![w] = @ \ {i}]
    /\ UNCHANGED <<attempts, wait, oversized, receipts, captured, synced, clock,
                   left, snap, registry, boundVars>>

(* Another process owns the row, or the statement failed: on to the next one. *)
SkipItem(w, i) ==
    /\ At(w, "loop")
    /\ i \in batch[w]
    /\ batch' = [batch EXCEPT ![w] = @ \ {i}]
    /\ UNCHANGED <<rowVars, receipts, captured, synced, clock, pc, cur, left, snap,
                   registry, boundVars>>

(* The loop is over, or its context is: Flush returns. *)
EndFlush(w) ==
    /\ \/ pc[w] = "loop" /\ batch[w] = {}
       \/ pc[w] \in {"requeue", "recover", "select", "loop"} /\ left[w] = 0
    /\ Stop(w)
    /\ UNCHANGED <<rowVars, receipts, captured, synced, clock, boundVars>>

(* Capture, or a typed operation's call, succeeds and says so.  A typed        *)
(* operation then writes back the registry snapshot it started from            *)
(* (UpsertKnowledgeRegistry), last_memory_sync_at included.                    *)
CallSucceeds(w) ==
    /\ At(w, "send")
    /\ cur[w] \notin Corrupt
    /\ captured' = captured \cup {cur[w]}
    /\ synced' = IF cur[w] \in Memory THEN synced ELSE registry[w]
    /\ Goto(w, "accepted")
    /\ UNCHANGED <<rowVars, receipts, clock, boundVars>>

(* The call fails: refused, no handler or no backend configured, or timed out  *)
(* after the provider has already accepted it (lost answer).                   *)
CallFails(w) ==
    /\ pc[w] = "send"
    /\ cur[w] \notin Corrupt
    /\ captured' \in {captured, captured \cup {cur[w]}}
    /\ Goto(w, "failed")
    /\ UNCHANGED <<rowVars, receipts, synced, clock, boundVars>>

(* Mutated MarkDelivered: the receipt is left out of the transaction. *)
MarkDeliveredOnly(w) ==
    /\ At(w, "accepted")
    /\ status' = [status EXCEPT ![cur[w]] = "delivered"]
    /\ age' = [age EXCEPT ![cur[w]] = 0]
    /\ oversized' = oversized \ {cur[w]}
    /\ Goto(w, IF cur[w] \in Memory THEN "delivered" ELSE "loop")
    /\ UNCHANGED <<attempts, wait, receipts, captured, synced, clock, boundVars>>

(* MarkDelivered: the row and its receipts in one transaction. *)
MarkDelivered(w) ==
    /\ At(w, "accepted")
    /\ status' = [status EXCEPT ![cur[w]] = "delivered"]
    /\ age' = [age EXCEPT ![cur[w]] = 0]
    /\ oversized' = oversized \ {cur[w]}
    /\ receipts' = receipts \cup {cur[w]}
    /\ Goto(w, IF cur[w] \in Memory THEN "delivered" ELSE "loop")
    /\ UNCHANGED <<attempts, wait, captured, synced, clock, boundVars>>

(* MarkMemorySync stamps the registry after a memory delivery; an expired      *)
(* context makes it fail.                                                      *)
MarkMemorySync(w) ==
    /\ pc[w] = "delivered"
    /\ IF left[w] > 0 THEN clock' = clock + 1 /\ synced' = clock + 1
                      ELSE UNCHANGED <<clock, synced>>
    /\ Goto(w, "loop")
    /\ UNCHANGED <<rowVars, receipts, captured, boundVars>>

DeadLetter(i) ==
    /\ status' = [status EXCEPT ![i] = "dead_letter"]
    /\ attempts' = [attempts EXCEPT ![i] = @ + 1]
    /\ wait' = [wait EXCEPT ![i] = 0]
    /\ age' = [age EXCEPT ![i] = 0]
    /\ oversized' = oversized \ {i}

(* Mutated Exhausted: the attempt that has just failed is not counted. *)
ExhaustedLate(w) == snap[w][cur[w]] > MaxAttempts

(* retryQueueItem decides on the attempts the batch was read with, not on the  *)
(* row's; MarkDeadLetter and MarkRetry do not look at the row's status.        *)
Exhausted(w) == snap[w][cur[w]] + 1 >= MaxAttempts

MarkDeadLetter(w) ==
    /\ \/ At(w, "send") /\ cur[w] \in Corrupt
       \/ At(w, "failed") /\ Exhausted(w)
    /\ DeadLetter(cur[w])
    /\ Goto(w, "loop")
    /\ UNCHANGED <<receipts, captured, synced, clock, boundVars>>

MarkRetry(w) ==
    /\ At(w, "failed")
    /\ ~ Exhausted(w)
    /\ \E delay \in 1..MaxDelay : wait' = [wait EXCEPT ![cur[w]] = delay]
    /\ status' = [status EXCEPT ![cur[w]] = "pending"]
    /\ attempts' = [attempts EXCEPT ![cur[w]] = @ + 1]
    /\ age' = [age EXCEPT ![cur[w]] = 0]
    /\ oversized' = oversized \ {cur[w]}
    /\ Goto(w, "loop")
    /\ UNCHANGED <<receipts, captured, synced, clock, boundVars>>

(* Marking the outcome fails (busy database, expired context): Flush goes on   *)
(* and the row stays sending.                                                  *)
MarkFails(w) ==
    /\ \/ pc[w] \in {"accepted", "failed"}
       \/ pc[w] = "send" /\ cur[w] \in Corrupt
    /\ Goto(w, "loop")
    /\ UNCHANGED <<rowVars, receipts, captured, synced, clock, boundVars>>

-------------------------------------------------------------------------------
(* The process is killed. *)
Crash(w) ==
    /\ pc[w] # "idle"
    /\ crashes < MaxCrashes
    /\ crashes' = crashes + 1
    /\ Stop(w)
    /\ UNCHANGED <<rowVars, receipts, captured, synced, clock, jumps>>

Older(i)  == IF status[i] = "sending" /\ age[i] <= Lease THEN age[i] + 1 ELSE age[i]

Sooner(n) == IF n > 0 THEN n - 1 ELSE 0

Tick ==
    /\ age' = [i \in Items |-> Older(i)]
    /\ wait' = [i \in Items |-> Sooner(wait[i])]
    /\ left' = [w \in Workers |-> Sooner(left[w])]
    /\ UNCHANGED <<status, attempts, oversized, receipts, captured, synced, clock,
                   pc, cur, batch, snap, registry, boundVars>>

(* The wall clock steps forward (time sync, resume from suspend): the ages     *)
(* computed from stored timestamps jump, the contexts' monotonic deadlines do  *)
(* not.                                                                        *)
WallJump ==
    /\ jumps < MaxJumps
    /\ jumps' = jumps + 1
    /\ age' = [i \in Items |-> IF status[i] = "sending" THEN Lease + 1 ELSE 0]
    /\ wait' = [i \in Items |-> 0]
    /\ UNCHANGED <<status, attempts, oversized, receipts, captured, synced, clock,
                   workerVars, crashes>>

FlushStep(w) ==
    \/ StartFlush(w)
    \/ RequeueOversizedMemoryCaptures(w)
    \/ recoverStaleQueueClaims(w)
    \/ DueQueue(w)
    \/ \E i \in Items : ClaimQueue(w, i) \/ SkipItem(w, i)
    \/ EndFlush(w)
    \/ CallSucceeds(w)
    \/ CallFails(w)
    \/ MarkDelivered(w)
    \/ MarkMemorySync(w)
    \/ MarkDeadLetter(w)
    \/ MarkRetry(w)
    \/ MarkFails(w)

Next ==
    \/ \E i \in Items : EnqueueSync(i) \/ RequeueDeadLetter(i)
    \/ \E w \in Workers : FlushStep(w) \/ Crash(w)
    \/ Tick
    \/ WallJump

Spec == Init /\ [][Next]_vars

(* Time passes, hooks keep coming, a running process keeps running, and a      *)
(* flush is not for ever too slow to get through its first two local           *)
(* statements (milliseconds of a budget of at least half a second).  Nothing   *)
(* is assumed of the provider.                                                 *)
Fairness ==
    /\ WF_vars(Tick)
    /\ \A w \in Workers :
          /\ WF_vars(FlushStep(w))
          /\ SF_vars(RequeueOversizedMemoryCaptures(w))
          /\ SF_vars(recoverStaleQueueClaims(w))

FairSpec == Spec /\ Fairness

(* On top of that, a local statement that can be tried again and again gets    *)
(* through sometimes: what is left to blame is the provider.                   *)
DatabaseFairness ==
    \A w \in Workers :
        /\ SF_vars(DueQueue(w))
        /\ SF_vars(\E i \in Items : ClaimQueue(w, i))
        /\ SF_vars(MarkDelivered(w))
        /\ SF_vars(MarkRetry(w))
        /\ SF_vars(MarkDeadLetter(w))

ProviderSpec == FairSpec /\ DatabaseFairness

-------------------------------------------------------------------------------
(* Rows, receipts and flushes have their types; remaining times stay within    *)
(* their bounds, and a flush between claim and outcome has a row in hand.      *)
TypeOK ==
    /\ status \in [Items -> RowStatus]
    /\ attempts \in [Items -> Nat]
    /\ wait \in [Items -> 0..MaxDelay]
    /\ age \in [Items -> 0..(Lease + 1)]
    /\ oversized \subseteq Memory
    /\ receipts \subseteq Items
    /\ captured \subseteq Items
    /\ synced \in 0..clock
    /\ clock \in Nat
    /\ pc \in [Workers -> Steps]
    /\ cur \in [Workers -> Items \cup {None}]
    /\ \A w \in Workers : pc[w] \in Holding \cup {"delivered"} => cur[w] \in Items
    /\ left \in [Workers -> 0..Budget]
    /\ batch \in [Workers -> SUBSET Items]
    /\ snap \in [Workers -> [Items -> Nat]]
    /\ registry \in [Workers -> 0..clock]
    /\ crashes \in 0..MaxCrashes
    /\ jumps \in 0..MaxJumps

Live(w) == pc[w] \in Holding /\ left[w] > 0

(* Two flushes never hold one row at the same time: as long as no wall-clock   *)
(* step makes a fresh claim look stale, the lease is recovered only from       *)
(* workers whose context has expired (comment on DueQueue).                    *)
ExclusiveClaim ==
    \A w1, w2 \in Workers :
        Live(w1) /\ Live(w2) /\ cur[w1] = cur[w2] => w1 = w2

(* Why the claim is exclusive: a live holder's row is sending, and the time    *)
(* since it was claimed plus the time its context has left is within Budget.   *)
LiveClaim ==
    \A w \in Workers : Live(w) =>
        status[cur[w]] = "sending" /\ age[cur[w]] + left[w] <= Budget

(* A row is delivered exactly when it has its receipt, and only if the         *)
(* provider accepted it: MarkDelivered's transaction, against every late or    *)
(* repeated MarkRetry, MarkDeadLetter and lease recovery.                      *)
DeliveredHasReceipt ==
    /\ \A i \in Items : status[i] = "delivered" <=> i \in receipts
    /\ receipts \subseteq captured

(* attempts may pass the policy's maximum, because each flush decides on the   *)
(* attempts it read, but by no more than one per other worker.                 *)
AttemptsBounded ==
    \A i \in Items : attempts[i] <= MaxAttempts + Cardinality(Workers) - 1

(* A delivered row is never touched again, and a row that a live flush is      *)
(* sending is never taken from it.                                             *)
NoTakeover ==
    [][\A i \in Items :
          /\ status[i] = "delivered" => status'[i] = "delivered"
          /\ \A w \in Workers :
                Live(w) /\ cur[w] = i /\ status'[i] # "sending" => ~ Live(w)']_vars

(* A claim never outlives its owner for ever: a row left sending by a killed   *)
(* or timed-out flush becomes eligible again or is settled.                    *)
ClaimReleased ==
    \A i \in Items : status[i] = "sending" ~> status[i] # "sending"

(* A queued row does not stay in the retry loop for ever: it is delivered or   *)
(* dead-lettered.                                                              *)
EventuallySettled ==
    \A i \in Items : status[i] = "pending" ~> status[i] \in {"delivered", "dead_letter"}

(* last_memory_sync_at never goes back to an older value. *)
FreshnessMonotone == [][synced' >= synced]_vars
===============================================================================
